------------------------------- MODULE Kernel -------------------------------
(***************************************************************************)
(* The BPF programs of linprov-ebpf (main.rs): socket_connect, file_open,  *)
(* bprm_check_security, bprm_committed_creds and sched_process_exit, the   *)
(* maps they share, and the processes whose system calls run them.         *)
(*                                                                         *)
(* One action is one hook: nothing else of this model's state changes      *)
(* while it runs (RuleSeed models the rule scan that overlaps a reseed).   *)
(* An execve is several hooks, and other processes run between them.  The  *)
(* processes, descriptors and the exec protocol are the Linux kernel's.    *)
(*                                                                         *)
(* A process writes (reads) a file when it opens it; the fault             *)
(* "late_write" lets it write again through a descriptor it kept.  The     *)
(* PID maps are LRU maps of 8192 entries: the fault "evict" lets them lose *)
(* the entry of a process to those of others.  INODE_MARKS and INTERP_INODE *)
(* are inode storage: an inode that nobody uses may leave the cache, and   *)
(* its entries go with it.  The daemon takes events off the ring and puts  *)
(* marks on disk; Persist opens up its handler.                            *)
(***************************************************************************)
EXTENDS Allowlist, FiniteSets

CONSTANTS
    Pids, Inodes,
    Comms, Uids,     \* process names and user ids
    Exes,            \* exe-path hashes, NoHash among them
    Versions,        \* schema versions a record on disk may have
    Paths,           \* where files may be
    Moves,           \* where each inode may be renamed to
    Programs,        \* inodes with the executable bit
    Writable,        \* inodes the processes may write
    Online,          \* processes that may use the network
    Place,           \* the path of each inode at the start
    Script,          \* the `#!` interpreter of an inode, or None
    None,
    Interp,          \* INTERP_INODE as seeded by the daemon
    INTERPRETERS,    \* the configured interpreter names
    Uid,             \* the uid of each process
    Xattr0,          \* marks left on disk by an earlier boot
    NoRecord,
    ORIGIN_VERSION,
    Rules,           \* ALLOW_RULES
    MODE,            \* CONFIG[CONFIG_MODE]
    MARK_LOCALHOST,  \* CONFIG[CONFIG_MARK_LOCALHOST]
    SELF,            \* CONFIG[CONFIG_SELF_PID]
    RING,            \* events EVENTS has room for
    Names,           \* names a process may give itself
    Faults           \* which of AllFaults the processes exhibit

Stored(versions) == [version : versions, comm : Comms, creator_uid : Uids,
                     creator_path_hash : Exes, landing : Paths]

ASSUME KernelAssumption ==
    /\ NoHash \in Exes /\ None \in Comms
    /\ None \notin Inodes
    /\ Names \subseteq Comms /\ Interp \subseteq Inodes
    /\ \A w \in Paths : w \in Seq(Comms) /\ w # <<>>
    /\ Place \in [Inodes -> Paths]
    /\ \A i, j \in Inodes : Place[i] = Place[j] => i = j
    /\ Moves \in [Inodes -> SUBSET Paths] /\ Programs \subseteq Inodes
    /\ Script \in [Inodes -> Inodes \cup {None}]
    /\ Uid \in [Pids -> Uids]
    /\ ORIGIN_VERSION \in Versions
    /\ NoRecord \notin Stored(Versions)
    /\ Xattr0 \in [Inodes -> Stored(Versions) \cup {NoRecord}]
    /\ RING \in Nat

\* Behaviours of processes that some guarantees do not survive: writing
\* through a descriptor opened earlier, opening for reading and writing at
\* once, a thread-group leader that ends before its workers, so many
\* processes at once that a PID map is full, an inode that leaves the cache
\* with the only copy of its mark or as a known interpreter, and a name that
\* another file takes while an event about it waits.
AllFaults == {"late_write", "read_write", "leader_first", "evict", "forget",
              "swap"}

VARIABLES
    threads,           \* the threads of each process; {} when it is gone
    exe, comm,         \* its program and its name
    exec,              \* its execve in progress
    wr,                \* inodes it holds open for writing
    path,              \* where each inode is
    NET_PIDS, PROP_PIDS, APPROVED_INTERP, INTERP_COPY_PIDS, INTERP_PIDS,
    INODE_MARKS, INTERP_INODE,
    xattr,             \* security.bpf.linprov.origin, current or outdated
    EVENTS             \* the events that wait in the ring

\* Ghosts: the ground truth the maps are meant to follow.
VARIABLES
    touched,      \* processes that connected to the network
    fed,          \* processes that read web content
    web,          \* inodes that hold web content
    copying,      \* processes that read an interpreter's bytes
    shell,        \* inodes that hold an interpreter's bytes
    execed,       \* processes whose program was started by an execve
    scripted,     \* interpreters whose program read web content
    cleared,      \* processes a rule let read, since they were born
    clearedNow,   \* the same, since their last execve
    causes,       \* why the web content a process runs was let through
    downloaders   \* names of the processes that fetched from the network

procVars == <<threads, exe, comm, exec, wr>>
pidMaps == <<NET_PIDS, PROP_PIDS, APPROVED_INTERP, INTERP_COPY_PIDS,
             INTERP_PIDS>>
inodeMaps == <<INODE_MARKS, INTERP_INODE>>
lifeGhosts == <<touched, fed, copying, execed, scripted, cleared,
                clearedNow, causes>>
fileGhosts == <<web, shell, downloaders>>
vars == <<threads, exe, comm, exec, wr, path, NET_PIDS, PROP_PIDS,
          APPROVED_INTERP, INTERP_COPY_PIDS, INTERP_PIDS, INODE_MARKS,
          INTERP_INODE, xattr, EVENTS, touched, fed, web, copying, shell,
          execed, scripted, cleared, clearedNow, causes, downloaders>>

NoExec == [stage |-> "none", file |-> None, name |-> None, causes |-> {}]

Alive(p) == threads[p] # {}

\* A thread of p is at leisure: not the one inside an execve.
Free(p) == Alive(p) /\ (exec[p] = NoExec \/ threads[p] = {"leader", "worker"})

is_pseudo_fs(where) ==
    Len(where) > 1 /\ where[1] \in {"dev", "proc", "sys", "run"}

Current(rec) == rec # NoRecord /\ rec.version = ORIGIN_VERSION

\* The daemon and one other process run when the hooks are attached.
Init ==
    /\ \E p \in Pids \ {SELF} :
          threads = [q \in Pids |-> IF q \in {p, SELF} THEN {"leader"} ELSE {}]
    /\ exe = [p \in Pids |-> None]
    /\ comm = [p \in Pids |-> None]
    /\ exec = [p \in Pids |-> NoExec]
    /\ wr = [p \in Pids |-> {}]
    /\ path = Place
    /\ NET_PIDS = {} /\ APPROVED_INTERP = {}
    /\ INTERP_COPY_PIDS = {} /\ INTERP_PIDS = {}
    /\ PROP_PIDS = [p \in Pids |-> NoRecord]
    /\ INODE_MARKS = [i \in Inodes |-> NoRecord]
    /\ INTERP_INODE = Interp
    /\ xattr = Xattr0
    /\ EVENTS = <<>>
    /\ touched = {} /\ fed = {} /\ copying = {} /\ execed = {}
    /\ scripted = {} /\ cleared = {} /\ clearedNow = {}
    /\ causes = [p \in Pids |-> {}]
    /\ web = {i \in Inodes : Current(Xattr0[i])}
    /\ shell = Interp
    /\ downloaders = {Xattr0[i].comm : i \in {j \in Inodes : Current(Xattr0[j])}}

-----------------------------------------------------------------------------
(* Events.                                                                 *)

\* A verdict on an execve or a script; a mark carries the record.
Verdict == [kind |-> "exec", rec |-> NoRecord]

Queued == {EVENTS[k] : k \in 1 .. Len(EVENTS)}

\* emit_event: reserve and submit, or drop the event when the ring is full.
emit_event(ev) ==
    EVENTS' = IF Len(EVENTS) < RING THEN Append(EVENTS, ev) ELSE EVENTS

\* The record the daemon makes of the event's: of a fresh mark it adds the
\* creator's executable, if /proc still knows it; an inherited one it keeps.
Augmented(ev, hash) ==
    IF ev.kind = "net" THEN [ev.rec EXCEPT !.creator_path_hash = hash]
    ELSE ev.rec

\* What is at the path now, if anything, gets the record on disk and in
\* storage; each of the two may fail.
on_file_marked(ev) ==
    \/ /\ \A j \in Inodes : path[j] # ev.rec.landing
       /\ UNCHANGED <<INODE_MARKS, xattr>>
    \/ \E j \in Inodes, hash \in Exes :
          /\ path[j] = ev.rec.landing
          /\ xattr' \in {xattr, [xattr EXCEPT ![j] = Augmented(ev, hash)]}
          /\ INODE_MARKS' \in
                {INODE_MARKS, [INODE_MARKS EXCEPT ![j] = Augmented(ev, hash)]}

\* The daemon takes an event off the ring and handles it.
Drain ==
    /\ EVENTS # <<>>
    /\ EVENTS' = Tail(EVENTS)
    /\ IF Head(EVENTS).kind = "exec" THEN UNCHANGED <<INODE_MARKS, xattr>>
       ELSE on_file_marked(Head(EVENTS))
    /\ UNCHANGED <<procVars, path, pidMaps, INTERP_INODE, lifeGhosts,
                   fileGhosts>>

-----------------------------------------------------------------------------
(* file_open, read branch.                                                 *)

\* The read branch returns at once for the daemon.
NeverExempt(p) == FALSE
Exempt(p) == p = SELF

\* The record the read branch uses: INODE_MARKS, else a current xattr.
ReadMark(i) ==
    IF INODE_MARKS[i] # NoRecord THEN INODE_MARKS[i]
    ELSE IF Current(xattr[i]) THEN xattr[i] ELSE NoRecord

\* An interpreter that no rule has cleared yet.
Gated(p) == p \in INTERP_PIDS \ APPROVED_INTERP

Permitted(rec, i, p) ==
    MODE = "enforce" => check_allowlist(Rules, rec, path[i], Uid[p])

ReadDenied(p, i) ==
    /\ ~Exempt(p)
    /\ ReadMark(i) # NoRecord
    /\ Gated(p)
    /\ ~Permitted(ReadMark(i), i, p)

\* The whole branch; loading is FMODE_EXEC.
file_open_read(p, i, loading) ==
    /\ IF Exempt(p)
       THEN UNCHANGED <<INTERP_COPY_PIDS, INODE_MARKS, APPROVED_INTERP,
                        PROP_PIDS, EVENTS>>
       ELSE /\ INTERP_COPY_PIDS' =
                  IF ~loading /\ i \in INTERP_INODE
                  THEN INTERP_COPY_PIDS \cup {p} ELSE INTERP_COPY_PIDS
            /\ INODE_MARKS' = [INODE_MARKS EXCEPT ![i] = ReadMark(i)]
            /\ IF ReadMark(i) # NoRecord /\ Gated(p)
               THEN emit_event(Verdict) ELSE UNCHANGED EVENTS
            /\ IF ReadMark(i) = NoRecord \/ ReadDenied(p, i)
               THEN UNCHANGED <<APPROVED_INTERP, PROP_PIDS>>
               ELSE /\ APPROVED_INTERP' = IF Gated(p)
                                          THEN APPROVED_INTERP \cup {p}
                                          ELSE APPROVED_INTERP
                    /\ PROP_PIDS' = [PROP_PIDS EXCEPT ![p] = ReadMark(i)]
    /\ UNCHANGED <<NET_PIDS, INTERP_PIDS, INTERP_INODE>>

\* Ghost: p has read inode i (the daemon opens marked files O_PATH only).
Consumed(p, i, loading) ==
    LET reads == p # SELF /\ ~ReadDenied(p, i)
        asked == reads /\ ReadMark(i) # NoRecord /\ Gated(p)
        add(set, cond) == IF cond THEN set \cup {p} ELSE set
    IN  /\ fed' = add(fed, reads /\ i \in web)
        /\ copying' = add(copying, reads /\ ~loading /\ i \in shell)
        /\ scripted' = add(scripted, /\ reads /\ i \in web
                                     /\ p \in execed /\ exe[p] \in shell)
        /\ cleared' = add(cleared, asked)
        /\ clearedNow' = add(clearedNow, asked)
        /\ UNCHANGED <<touched, execed, causes, fileGhosts>>

OpenRead(p, i) ==
    /\ Free(p)
    /\ file_open_read(p, i, FALSE)
    /\ Consumed(p, i, FALSE)
    /\ UNCHANGED <<procVars, path, xattr>>

-----------------------------------------------------------------------------
(* file_open, write branch.                                                *)

WriteRecordNetOnly(p, i) ==
    IF p \notin NET_PIDS THEN NoRecord
    ELSE [version |-> ORIGIN_VERSION, comm |-> comm[p],
          creator_uid |-> Uid[p], creator_path_hash |-> NoHash,
          landing |-> path[i]]

WriteRecordBlamesWriter(p, i) ==
    IF p \notin NET_PIDS /\ PROP_PIDS[p] = NoRecord THEN NoRecord
    ELSE [version |-> ORIGIN_VERSION, comm |-> comm[p],
          creator_uid |-> Uid[p], creator_path_hash |-> NoHash,
          landing |-> path[i]]

\* A network-touched process is the creator; a tainted one passes its record
\* on.  Either way the landing path is where the file is now.
WriteRecord(p, i) ==
    IF p \in NET_PIDS
    THEN [version |-> ORIGIN_VERSION, comm |-> comm[p],
          creator_uid |-> Uid[p], creator_path_hash |-> NoHash,
          landing |-> path[i]]
    ELSE IF PROP_PIDS[p] = NoRecord THEN NoRecord
    ELSE [version |-> PROP_PIDS[p].version, comm |-> PROP_PIDS[p].comm,
          creator_uid |-> PROP_PIDS[p].creator_uid,
          creator_path_hash |-> PROP_PIDS[p].creator_path_hash,
          landing |-> path[i]]

\* INODE_MARKS.get_or_insert_ptr: an existing record stays.
get_or_insert_ptr(i, rec) ==
    INODE_MARKS' = [INODE_MARKS EXCEPT ![i] =
                      IF INODE_MARKS[i] = NoRecord THEN rec
                      ELSE INODE_MARKS[i]]

file_open_write(p, i) ==
    /\ INTERP_INODE' = IF p \in INTERP_COPY_PIDS /\ ~is_pseudo_fs(path[i])
                       THEN INTERP_INODE \cup {i} ELSE INTERP_INODE
    /\ IF WriteRecord(p, i) = NoRecord \/ is_pseudo_fs(path[i])
       THEN UNCHANGED <<INODE_MARKS, EVENTS>>
       ELSE /\ get_or_insert_ptr(i, WriteRecord(p, i))
            /\ emit_event([kind |-> IF p \in NET_PIDS THEN "net" ELSE "derived",
                           rec |-> WriteRecord(p, i)])
    /\ UNCHANGED pidMaps

\* Ghost: p has written inode i.
Written(p, i) ==
    LET counts == ~is_pseudo_fs(path[i])
        add(set, cond) == IF counts /\ cond THEN set \cup {i} ELSE set
    IN  /\ web' = add(web, p \in touched \cup fed)
        /\ shell' = add(shell, p \in copying)
        /\ downloaders' = IF p \in touched THEN downloaders \cup {comm[p]}
                          ELSE downloaders

\* ETXTBSY: a program that runs or is being started is not written to.
Busy(i) == \E p \in Pids : Alive(p) /\ (exe[p] = i \/ exec[p].file = i)

OpenWrite(p, i) ==
    /\ Free(p)
    /\ i \in Writable /\ ~Busy(i)
    /\ wr' = [wr EXCEPT ![p] = @ \cup {i}]
    /\ file_open_write(p, i)
    /\ Written(p, i)
    /\ UNCHANGED <<threads, exe, comm, exec, path, xattr, lifeGhosts>>

\* O_RDWR has FMODE_WRITE, so only the write branch runs.
OpenReadWrite(p, i) ==
    /\ "read_write" \in Faults
    /\ Free(p) /\ p # SELF
    /\ i \in Writable /\ ~Busy(i)
    /\ wr' = [wr EXCEPT ![p] = @ \cup {i}]
    /\ file_open_write(p, i)
    /\ Written(p, i)
    /\ fed' = IF i \in web THEN fed \cup {p} ELSE fed
    /\ UNCHANGED <<threads, exe, comm, exec, path, xattr, touched, copying,
                   execed, scripted, cleared, clearedNow, causes>>

\* No hook runs on write(2).
LateWrite(p, i) ==
    /\ "late_write" \in Faults
    /\ Free(p) /\ i \in wr[p]
    /\ Written(p, i)
    /\ UNCHANGED <<procVars, path, pidMaps, inodeMaps, xattr, EVENTS,
                   lifeGhosts>>

Close(p, i) ==
    /\ Free(p) /\ i \in wr[p]
    /\ wr' = [wr EXCEPT ![p] = @ \ {i}]
    /\ UNCHANGED <<threads, exe, comm, exec, path, pidMaps, inodeMaps, xattr,
                   EVENTS, lifeGhosts, fileGhosts>>

\* The daemon has yet to look for a marked file under this name.
Awaits(ev, where) == ev.kind # "exec" /\ ev.rec.landing = where

\* A rename stays on its filesystem and, here, takes a free name.
Rename(i, where) ==
    /\ \A j \in Inodes : path[j] # where
    /\ (\E ev \in Queued : Awaits(ev, where)) => "swap" \in Faults
    /\ is_pseudo_fs(where) = is_pseudo_fs(path[i])
    /\ path' = [path EXCEPT ![i] = where]
    /\ UNCHANGED <<procVars, pidMaps, inodeMaps, xattr, EVENTS, lifeGhosts,
                   fileGhosts>>

-----------------------------------------------------------------------------
(* socket_connect.                                                         *)

\* Other families, and loopback unless MARK_LOCALHOST, change nothing.
socket_connect(p, to) ==
    /\ Free(p) /\ p \in Online \ {SELF}
    /\ to = "inet" \/ (to = "loopback" /\ MARK_LOCALHOST)
    /\ NET_PIDS' = NET_PIDS \cup {p}
    /\ touched' = touched \cup {p}
    /\ UNCHANGED <<procVars, path, PROP_PIDS, APPROVED_INTERP,
                   INTERP_COPY_PIDS, INTERP_PIDS, inodeMaps, xattr, EVENTS,
                   fed, copying, execed, scripted, cleared, clearedNow,
                   causes, fileGhosts>>

-----------------------------------------------------------------------------
(* execve: file_open and bprm_check_security on the file, again on its     *)
(* `#!` interpreter, then bprm_committed_creds.                            *)

\* Start loading inode i under the name given to execve.
Loading(p, i, name, why) ==
    /\ \A q \in Pids : i \notin wr[q]
    /\ file_open_read(p, i, TRUE)
    /\ Consumed(p, i, TRUE)
    /\ exec' = [exec EXCEPT ![p] =
                  IF ReadDenied(p, i) THEN NoExec
                  ELSE [stage |-> "check", file |-> i, name |-> name,
                        causes |-> why]]
    /\ UNCHANGED <<threads, exe, comm, wr, path, xattr>>

Execve(p, i) ==
    /\ Free(p) /\ p # SELF
    /\ i \in Programs
    /\ exec[p] = NoExec
    /\ Loading(p, i, Basename(path[i]), {})

InterpOpen(p) ==
    /\ exec[p].stage = "interp"
    /\ \E i \in Inodes :
          /\ i = Script[exec[p].file]
          /\ Loading(p, i, exec[p].name, exec[p].causes)

BprmMarkFailsOpen(i) ==
    LET stored == INODE_MARKS[i]
        partial == stored = NoRecord \/ stored.creator_path_hash = NoHash
        buf == IF partial /\ xattr[i] # NoRecord THEN xattr[i] ELSE stored
    IN  IF Current(buf) THEN buf ELSE NoRecord

\* The record bprm_check_security judges: storage; the xattr when storage is
\* missing or partial; storage again when the xattr is outdated.
BprmMark(i) ==
    LET stored == INODE_MARKS[i]
        partial == stored = NoRecord \/ stored.creator_path_hash = NoHash
        buf == IF partial /\ xattr[i] # NoRecord THEN xattr[i] ELSE stored
    IN  IF Current(buf) THEN buf
        ELSE IF Current(stored) THEN stored ELSE NoRecord

\* The exec goes on; a ghost notes why, if the file holds web content.
Admit(p, why) ==
    LET f == exec[p].file
    IN  exec' = [exec EXCEPT ![p] =
            [stage |-> IF Script[f] = None THEN "commit" ELSE "interp",
             file |-> f, name |-> exec[p].name,
             causes |-> IF f \in web THEN exec[p].causes \cup {why}
                        ELSE exec[p].causes]]

Refuse(p) == exec' = [exec EXCEPT ![p] = NoExec]

bprm_check_security(p) ==
    LET f == exec[p].file
        rec == BprmMark(f)
    IN  /\ exec[p].stage = "check"
        /\ IF rec = NoRecord THEN Admit(p, "unmarked") /\ UNCHANGED EVENTS
           ELSE IF Len(EVENTS) >= RING
                THEN Admit(p, "ring_full") /\ UNCHANGED EVENTS
           ELSE /\ emit_event(Verdict)
                /\ IF Permitted(rec, f, p) THEN Admit(p, "permitted")
                   ELSE Refuse(p)
        /\ UNCHANGED <<threads, exe, comm, wr, path, pidMaps, inodeMaps,
                       xattr, lifeGhosts, fileGhosts>>

\* Another security module has already refused, or the loader gives up.
ExecFails(p) ==
    /\ exec[p] # NoExec
    /\ Refuse(p)
    /\ UNCHANGED <<threads, exe, comm, wr, path, pidMaps, inodeMaps, xattr,
                   EVENTS, lifeGhosts, fileGhosts>>

is_interp_by_name(i, name) == name \in INTERPRETERS
is_interp(i, name) == i \in INTERP_INODE \/ name \in INTERPRETERS

\* Thread t wins the exec and becomes the leader.  The others end first; if
\* the leader is among them, sched_process_exit reaps the process's entries.
bprm_committed_creds(p, t) ==
    LET f == exec[p].file
        reaped == IF t # "leader" /\ "leader" \in threads[p] THEN {p} ELSE {}
    IN  /\ exec[p].stage = "commit"
        /\ t \in threads[p]
        /\ t # "leader" => "leader_first" \in Faults
        /\ threads' = [threads EXCEPT ![p] = {"leader"}]
        /\ exe' = [exe EXCEPT ![p] = f]
        /\ comm' = [comm EXCEPT ![p] = exec[p].name]
        /\ exec' = [exec EXCEPT ![p] = NoExec]
        /\ INTERP_PIDS' = IF is_interp(f, exec[p].name)
                          THEN INTERP_PIDS \cup {p} ELSE INTERP_PIDS \ {p}
        /\ NET_PIDS' = NET_PIDS \ reaped
        /\ PROP_PIDS' = [q \in Pids |-> IF q \in reaped THEN NoRecord
                                        ELSE PROP_PIDS[q]]
        /\ APPROVED_INTERP' = APPROVED_INTERP \ reaped
        /\ INTERP_COPY_PIDS' = INTERP_COPY_PIDS \ reaped
        /\ execed' = execed \cup {p}
        /\ scripted' = scripted \ {p}
        /\ clearedNow' = clearedNow \ {p}
        /\ causes' = [causes EXCEPT ![p] = exec[p].causes]
        /\ UNCHANGED <<wr, path, inodeMaps, xattr, EVENTS, touched, fed,
                       copying, cleared, fileGhosts>>

-----------------------------------------------------------------------------
(* Processes come and go.                                                  *)

\* No hook runs on fork: the child is in none of the maps.
Fork(p, q) ==
    /\ Free(p) /\ p # SELF /\ ~Alive(q)
    /\ threads' = [threads EXCEPT ![q] = {"leader"}]
    /\ exe' = [exe EXCEPT ![q] = exe[p]]
    /\ comm' = [comm EXCEPT ![q] = comm[p]]
    /\ wr' = [wr EXCEPT ![q] = wr[p]]
    /\ UNCHANGED <<exec, path, pidMaps, inodeMaps, xattr, EVENTS, lifeGhosts,
                   fileGhosts>>

\* A process from outside the model takes a free pid.
Enter(p) ==
    /\ ~Alive(p)
    /\ threads' = [threads EXCEPT ![p] = {"leader"}]
    /\ UNCHANGED <<exe, comm, exec, wr, path, pidMaps, inodeMaps, xattr,
                   EVENTS, lifeGhosts, fileGhosts>>

Spawn(p) ==
    /\ Free(p) /\ p # SELF
    /\ threads' = [threads EXCEPT ![p] = @ \cup {"worker"}]
    /\ UNCHANGED <<exe, comm, exec, wr, path, pidMaps, inodeMaps, xattr,
                   EVENTS, lifeGhosts, fileGhosts>>

\* prctl(PR_SET_NAME).
SetName(p, name) ==
    /\ Free(p) /\ p # SELF
    /\ comm' = [comm EXCEPT ![p] = name]
    /\ UNCHANGED <<threads, exe, exec, wr, path, pidMaps, inodeMaps, xattr,
                   EVENTS, lifeGhosts, fileGhosts>>

ReapedAlways(p, t) == {p}
\* Only the leader's end reaps the maps (tid = tgid).
Reaped(p, t) == IF t = "leader" THEN {p} ELSE {}

\* Thread t ends; with the last one, so do the process and its descriptors.
sched_process_exit(p, t) ==
    LET reaped == Reaped(p, t)
        gone == IF threads[p] = {t} THEN {p} ELSE {}
    IN  /\ p # SELF
        /\ t \in threads[p]
        /\ t = "leader" /\ gone = {} => "leader_first" \in Faults
        /\ threads' = [threads EXCEPT ![p] = @ \ {t}]
        /\ NET_PIDS' = NET_PIDS \ reaped
        /\ PROP_PIDS' = [q \in Pids |-> IF q \in reaped THEN NoRecord
                                        ELSE PROP_PIDS[q]]
        /\ APPROVED_INTERP' = APPROVED_INTERP \ reaped
        /\ INTERP_COPY_PIDS' = INTERP_COPY_PIDS \ reaped
        /\ INTERP_PIDS' = INTERP_PIDS \ reaped
        /\ exec' = [q \in Pids |-> IF q \in gone THEN NoExec ELSE exec[q]]
        /\ wr' = [q \in Pids |-> IF q \in gone THEN {} ELSE wr[q]]
        /\ exe' = [q \in Pids |-> IF q \in gone THEN None ELSE exe[q]]
        /\ comm' = [q \in Pids |-> IF q \in gone THEN None ELSE comm[q]]
        /\ touched' = touched \ gone
        /\ fed' = fed \ gone
        /\ copying' = copying \ gone
        /\ execed' = execed \ gone
        /\ scripted' = scripted \ gone
        /\ cleared' = cleared \ gone
        /\ clearedNow' = clearedNow \ gone
        /\ causes' = [q \in Pids |-> IF q \in gone THEN {} ELSE causes[q]]
        /\ UNCHANGED <<path, inodeMaps, xattr, EVENTS, fileGhosts>>

\* Other processes fill one of the PID maps, and the entry of p goes.
Evict(p) ==
    /\ "evict" \in Faults
    /\ \/ /\ p \in NET_PIDS
          /\ NET_PIDS' = NET_PIDS \ {p}
          /\ UNCHANGED <<PROP_PIDS, APPROVED_INTERP, INTERP_COPY_PIDS,
                         INTERP_PIDS>>
       \/ /\ PROP_PIDS[p] # NoRecord
          /\ PROP_PIDS' = [PROP_PIDS EXCEPT ![p] = NoRecord]
          /\ UNCHANGED <<NET_PIDS, APPROVED_INTERP, INTERP_COPY_PIDS,
                         INTERP_PIDS>>
       \/ /\ p \in APPROVED_INTERP \cup INTERP_COPY_PIDS \cup INTERP_PIDS
          /\ APPROVED_INTERP' \in {APPROVED_INTERP, APPROVED_INTERP \ {p}}
          /\ INTERP_COPY_PIDS' \in {INTERP_COPY_PIDS, INTERP_COPY_PIDS \ {p}}
          /\ INTERP_PIDS' \in {INTERP_PIDS, INTERP_PIDS \ {p}}
          /\ UNCHANGED <<NET_PIDS, PROP_PIDS>>
    /\ UNCHANGED <<procVars, path, inodeMaps, xattr, EVENTS, lifeGhosts,
                   fileGhosts>>

\* The kernel drops inode i, which no process has open, runs or loads, from
\* its cache, and the inode's storage with it.
Forget(i) ==
    /\ INODE_MARKS[i] # NoRecord \/ i \in INTERP_INODE
    /\ ~Busy(i) /\ \A p \in Pids : i \notin wr[p]
    /\ \/ i \notin INTERP_INODE /\ Current(xattr[i])
       \/ "forget" \in Faults
    /\ INODE_MARKS' = [INODE_MARKS EXCEPT ![i] = NoRecord]
    /\ INTERP_INODE' = INTERP_INODE \ {i}
    /\ UNCHANGED <<procVars, path, pidMaps, xattr, EVENTS, lifeGhosts,
                   fileGhosts>>

-----------------------------------------------------------------------------
Syscall(p) ==
    \/ \E i \in Inodes : \/ OpenRead(p, i)
                         \/ OpenWrite(p, i)
                         \/ OpenReadWrite(p, i)
                         \/ LateWrite(p, i)
                         \/ Close(p, i)
                         \/ Execve(p, i)
    \/ \E to \in {"inet", "loopback"} : socket_connect(p, to)
    \/ InterpOpen(p)
    \/ bprm_check_security(p)
    \/ ExecFails(p)
    \/ \E t \in {"leader", "worker"} : \/ bprm_committed_creds(p, t)
                                       \/ sched_process_exit(p, t)
    \/ \E q \in Pids : Fork(p, q)
    \/ Enter(p)
    \/ Spawn(p)
    \/ \E name \in Names : SetName(p, name)

Next ==
    \/ \E p \in Pids : Syscall(p) \/ Evict(p)
    \/ \E i \in Inodes : \E where \in Moves[i] : Rename(i, where)
    \/ \E i \in Inodes : Forget(i)
    \/ Drain

Spec == Init /\ [][Next]_vars

-----------------------------------------------------------------------------
(* Correctness.                                                            *)

Threads == {"leader", "worker"}
Causes == {"unmarked", "ring_full", "permitted"}
Origins == Stored({ORIGIN_VERSION})
Events == [kind : {"net", "derived", "exec"}, rec : Origins \cup {NoRecord}]
ExecStates == [stage : {"none", "check", "interp", "commit"},
               file : Inodes \cup {None}, name : Comms,
               causes : SUBSET Causes]

RingOK == /\ EVENTS \in Seq(Events) /\ Len(EVENTS) \in 0 .. RING
          /\ \A ev \in Queued : ev.kind # "exec" => ev.rec # NoRecord

\* Every variable keeps its type: in particular the in-kernel maps only ever
\* hold records of the current schema, and the ring never overflows.
TypeOK ==
    /\ threads \in [Pids -> SUBSET Threads]
    /\ exe \in [Pids -> Inodes \cup {None}]
    /\ comm \in [Pids -> Comms]
    /\ exec \in [Pids -> ExecStates]
    /\ wr \in [Pids -> SUBSET Inodes]
    /\ path \in [Inodes -> Paths]
    /\ NET_PIDS \subseteq Pids /\ APPROVED_INTERP \subseteq Pids
    /\ INTERP_COPY_PIDS \subseteq Pids /\ INTERP_PIDS \subseteq Pids
    /\ PROP_PIDS \in [Pids -> Origins \cup {NoRecord}]
    /\ INODE_MARKS \in [Inodes -> Origins \cup {NoRecord}]
    /\ INTERP_INODE \subseteq Inodes
    /\ xattr \in [Inodes -> Stored(Versions) \cup {NoRecord}]
    /\ RingOK
    /\ touched \subseteq Pids /\ fed \subseteq Pids /\ copying \subseteq Pids
    /\ execed \subseteq Pids /\ scripted \subseteq Pids
    /\ cleared \subseteq Pids /\ clearedNow \subseteq Pids
    /\ web \subseteq Inodes /\ shell \subseteq Inodes
    /\ causes \in [Pids -> SUBSET Causes]
    /\ downloaders \subseteq Comms

\* TaintComplete: whoever has touched the network or read web content is a
\* mark source for as long as it lives, across execs and the end of worker
\* threads (the case sched_process_exit's comment is about).
TaintComplete ==
    /\ touched \subseteq NET_PIDS
    /\ \A p \in fed : PROP_PIDS[p] # NoRecord

\* ContentMarked: web content is marked wherever it lands, however many
\* processes and files it was copied through, whether the mark of its source
\* came from this boot or from the xattr of an earlier one, and when its inode
\* has left the cache since its xattr was written.
ContentMarked == \A i \in web : ReadMark(i) # NoRecord

\* NoFalseMark: a file no tainted process has written is never marked; pid
\* reuse, the daemon's own reads and pseudo-filesystem writes included.
NoFalseMark == \A i \in Inodes : ReadMark(i) # NoRecord => i \in web

\* HooksAgree: execve and the interpreter gate see the same set of marked
\* files, although they combine storage and xattr differently
\* (bprm_check_security's fallback from an outdated xattr).
HooksAgree ==
    \A i \in Inodes : (BprmMark(i) = NoRecord) <=> (ReadMark(i) = NoRecord)

\* CreatorIsDownloader: a mark, inherited or not, names a process that has
\* fetched from the network, never the `cp` or `tar` that passed it on.
CreatorIsDownloader ==
    \A i \in Inodes :
        INODE_MARKS[i] # NoRecord => INODE_MARKS[i].comm \in downloaders

\* EnforcedExec: in enforce mode web content runs only where check_allowlist
\* permitted it, unless the event ring was full.
EnforcedExec ==
    MODE = "enforce" =>
        \A p \in Pids : causes[p] \subseteq {"permitted", "ring_full"}

\* InterpreterGated: in enforce mode an interpreter, or a copy of one, reads
\* web content only in a process that a rule has cleared since it was born
\* (not since its last execve: see ApprovedPerInvocation).
InterpreterGated == MODE = "enforce" => scripted \subseteq cleared

-----------------------------------------------------------------------------
(* What the repository's text says of the hooks, beyond the above.         *)

\* README: enforce mode blocks any marked execve that matches no rule.
EnforceBlocks ==
    MODE = "enforce" => \A p \in Pids : causes[p] \subseteq {"permitted"}

\* README: the check fires on the first marked read per interpreter
\* invocation, so no interpreter starts out approved.
ApprovedPerInvocation == INTERP_PIDS \cap APPROVED_INTERP \subseteq clearedNow

\* INTERP_PIDS: the pids whose current program is an interpreter.
InterpPidsComplete ==
    \A p \in Pids : Alive(p) /\ exe[p] \in INTERP_INODE => p \in INTERP_PIDS
=============================================================================
