------------------------------ MODULE Persist -------------------------------
(***************************************************************************)
(* A mark on its way to disk: the write branch of file_open (linprov-ebpf  *)
(* main.rs) puts a record into inode storage and an event into the ring;   *)
(* the daemon (handler.rs, on_file_marked) later resolves the creator's    *)
(* executable, opens the file by the name in the event and writes the      *)
(* completed record to the xattr and back to inode storage.                *)
(*                                                                         *)
(* Between any two of these steps processes write, exec and end, files are *)
(* renamed and replaced, inodes leave the cache and the daemon dies.       *)
(*                                                                         *)
(* A record is who wrote (`by`, standing for comm, uid and time), the      *)
(* resolved executable (`exe`, creator_path_hash) and where (`name`, the   *)
(* landing hashes).  All names are outside the pseudo-filesystems.         *)
(***************************************************************************)
EXTENDS Integers, Sequences

CONSTANTS
    Pids, Inodes, Names,
    Exes,      \* executables
    NoHash,    \* creator_path_hash = 0
    None, NoRecord,
    Link,      \* a name that holds no regular file (a symlink)
    RING,      \* events the ring has room for
    Home,      \* the inode each name has at the start
    Faults     \* subset of AllFaults

\* What the environment may do: run another program in a process that has
\* written, or reuse its pid; move names about; fail a setxattr or a map
\* update; evict inodes; stop the daemon.
AllFaults == {"exec", "rename", "io", "evict", "crash"}

Records == [by : Exes, exe : Exes \cup {NoHash}, name : Names]
Events == [name : Names, pid : Pids, rec : Records, derived : BOOLEAN,
           inode : Inodes]

ASSUME PersistAssumption ==
    /\ RING \in Nat
    /\ Home \in [Names -> Inodes \cup {None}]
    /\ None \notin Inodes \cup {Link} /\ Link \notin Inodes
    /\ NoHash \notin Exes /\ None \notin Exes
    /\ NoRecord \notin Records /\ None \notin Events
    /\ \A i, j \in Names : Home[i] = Home[j] => i = j \/ Home[i] = None

VARIABLES
    up,           \* the daemon runs and the hooks are attached
    prog,         \* the executable of each process, or None
    at,           \* the inode, Link or None behind each name
    INODE_MARKS,  \* in-kernel records, lost with the inode's cache entry
    xattr,        \* the durable records
    EVENTS,       \* the ring, oldest first
    pc,           \* the handler: "idle", "resolve", "open", "xattr", "fill"
    event,        \* the event it handles
    augmented,    \* the record it completes
    fd,           \* the inode it has opened
    web,          \* ghost: inodes a network process has written
    dropped       \* ghost: inodes with an event lost, or gone to another file,
                  \* since the last handled

files == <<at, INODE_MARKS, xattr>>
handler == <<pc, event, augmented, fd>>
vars == <<up, prog, at, INODE_MARKS, xattr, EVENTS, pc, event, augmented, fd,
          web, dropped>>

Init ==
    /\ up = TRUE
    /\ prog \in [Pids -> Exes]
    /\ at = Home
    /\ INODE_MARKS = [i \in Inodes |-> NoRecord]
    /\ xattr = [i \in Inodes |-> NoRecord]
    /\ EVENTS = <<>>
    /\ pc = "idle" /\ event = None /\ augmented = NoRecord /\ fd = None
    /\ web = {} /\ dropped = {}

-----------------------------------------------------------------------------
(* The kernel.                                                             *)

\* emit_event: dropped when the ring is full.
emit_event(ev) ==
    IF Len(EVENTS) < RING
    THEN EVENTS' = Append(EVENTS, ev) /\ UNCHANGED dropped
    ELSE dropped' = dropped \cup {ev.inode} /\ UNCHANGED EVENTS

\* The write branch of file_open on the file called n: the first record of
\* an inode stays, the event carries this writer's.
Mark(p, n, rec, derived) ==
    LET i == at[n]
    IN  /\ INODE_MARKS' = [INODE_MARKS EXCEPT ![i] =
                              IF INODE_MARKS[i] = NoRecord THEN rec
                              ELSE INODE_MARKS[i]]
        /\ emit_event([name |-> n, pid |-> p, rec |-> rec,
                       derived |-> derived, inode |-> i])
        /\ web' = web \cup {i}
        /\ UNCHANGED <<up, prog, at, xattr, handler>>

\* A network-touched process writes: it is the creator.
Download(p, n) ==
    /\ up /\ prog[p] # None /\ at[n] \in Inodes
    /\ Mark(p, n, [by |-> prog[p], exe |-> NoHash, name |-> n], FALSE)

\* A process that has read the marked file called m writes: its file takes
\* over m's record, but for the place (same-boot storage, else the xattr).
Derive(p, m, n) ==
    /\ up /\ prog[p] # None /\ at[m] \in Inodes /\ at[n] \in Inodes
    /\ LET src == IF INODE_MARKS[at[m]] # NoRecord THEN INODE_MARKS[at[m]]
                  ELSE xattr[at[m]]
       IN  /\ src # NoRecord
           /\ Mark(p, n, [by |-> src.by, exe |-> src.exe, name |-> n], TRUE)

ReadBackStale(n) ==
    /\ up /\ at[n] \in Inodes
    /\ INODE_MARKS[at[n]] = NoRecord
    /\ \E i \in Inodes :
          /\ xattr[i] # NoRecord
          /\ INODE_MARKS' = [INODE_MARKS EXCEPT ![at[n]] = xattr[i]]
    /\ UNCHANGED <<up, prog, at, xattr, EVENTS, handler, web, dropped>>

\* Reading a file whose record is only on disk caches it in inode storage.
ReadBack(n) ==
    /\ up /\ at[n] \in Inodes
    /\ INODE_MARKS[at[n]] = NoRecord /\ xattr[at[n]] # NoRecord
    /\ INODE_MARKS' = [INODE_MARKS EXCEPT ![at[n]] = xattr[at[n]]]
    /\ UNCHANGED <<up, prog, at, xattr, EVENTS, handler, web, dropped>>

-----------------------------------------------------------------------------
(* The daemon: on_file_marked.                                             *)

Take ==
    /\ up /\ pc = "idle" /\ EVENTS # <<>>
    /\ EVENTS' = Tail(EVENTS)
    /\ event' = EVENTS[1]
    /\ augmented' = EVENTS[1].rec
    /\ pc' = "resolve"
    /\ UNCHANGED <<up, prog, files, fd, web, dropped>>

creator_of_any(ev) ==
    IF prog[ev.pid] = None THEN ev.rec.exe ELSE prog[ev.pid]

\* read_creator_exe for a fresh mark; a derived one keeps what it inherited,
\* as does one whose writer is gone.
creator_of(ev) ==
    IF ev.derived \/ prog[ev.pid] = None THEN ev.rec.exe ELSE prog[ev.pid]

Resolve ==
    /\ pc = "resolve"
    /\ augmented' = [by |-> event.rec.by, exe |-> creator_of(event),
                     name |-> event.rec.name]
    /\ pc' = "open"
    /\ UNCHANGED <<up, prog, files, EVENTS, event, fd, web, dropped>>

Done ==
    /\ pc' = "idle"
    /\ event' = None /\ augmented' = NoRecord /\ fd' = None

open_by_writer ==
    /\ pc = "open"
    /\ IF at[event.name] \in Inodes /\ prog[event.pid] # None
       THEN /\ fd' = at[event.name]
            /\ pc' = "xattr"
            /\ UNCHANGED <<event, augmented>>
       ELSE Done
    /\ UNCHANGED <<up, prog, files, EVENTS, web, dropped>>

\* open_mark_target: whatever regular file has the name now.
open_mark_target ==
    /\ pc = "open"
    /\ IF at[event.name] \in Inodes
       THEN /\ fd' = at[event.name]
            /\ pc' = "xattr"
            /\ UNCHANGED <<event, augmented>>
       ELSE Done
    /\ UNCHANGED <<up, prog, files, EVENTS, web, dropped>>

first_xattr(rec) ==
    [xattr EXCEPT ![fd] = IF xattr[fd] = NoRecord THEN rec ELSE xattr[fd]]

\* The xattr write goes through the descriptor and replaces what is there.
replaced(rec) == [xattr EXCEPT ![fd] = rec]

set_origin_xattr ==
    /\ pc = "xattr"
    /\ pc' = "fill"
    /\ \/ /\ xattr' = replaced(augmented)
          /\ dropped' = IF event.inode = fd THEN dropped \ {fd}
                        ELSE dropped \cup {fd, event.inode}
       \/ /\ "io" \in Faults
          /\ dropped' = dropped \cup {fd}
          /\ UNCHANGED xattr
    /\ UNCHANGED <<up, prog, at, INODE_MARKS, EVENTS, event, augmented, fd,
                   web>>

\* InodeMarks::backfill, BPF_ANY.
backfill ==
    /\ pc = "fill"
    /\ Done
    /\ \/ /\ INODE_MARKS' = [INODE_MARKS EXCEPT ![fd] = augmented]
          /\ UNCHANGED dropped
       \/ /\ "io" \in Faults
          /\ dropped' = dropped \cup {fd}
          /\ UNCHANGED INODE_MARKS
    /\ UNCHANGED <<up, prog, at, xattr, EVENTS, web>>

\* The daemon dies: hooks, maps and ring go with it.
Crash ==
    /\ "crash" \in Faults
    /\ up
    /\ up' = FALSE
    /\ INODE_MARKS' = [i \in Inodes |-> NoRecord]
    /\ EVENTS' = <<>>
    /\ Done
    /\ dropped' = dropped \cup web
    /\ UNCHANGED <<prog, at, xattr, web>>

Start ==
    /\ ~up
    /\ up' = TRUE
    /\ UNCHANGED <<prog, files, EVENTS, handler, web, dropped>>

-----------------------------------------------------------------------------
(* The rest of the system.                                                 *)

\* A process ends; its pid may be taken, or it may run another program,
\* only later than its events are handled unless "exec" is a fault.
Exit(p) ==
    /\ prog[p] # None
    /\ prog' = [prog EXCEPT ![p] = None]
    /\ UNCHANGED <<up, files, EVENTS, handler, web, dropped>>

Quiet(p) ==
    /\ \A k \in DOMAIN EVENTS : EVENTS[k].pid # p
    /\ pc # "idle" => event.pid # p

Exec(p, e) ==
    /\ Quiet(p) \/ "exec" \in Faults
    /\ prog' = [prog EXCEPT ![p] = e]
    /\ UNCHANGED <<up, files, EVENTS, handler, web, dropped>>

Settled(n) ==
    /\ \A k \in DOMAIN EVENTS : EVENTS[k].name # n
    /\ pc # "idle" => event.name # n

Move(m, n) ==
    /\ (Settled(m) /\ Settled(n)) \/ "rename" \in Faults
    /\ m # n /\ at[m] # None
    /\ at' = [at EXCEPT ![n] = at[m], ![m] = None]
    /\ dropped' = IF Settled(m) /\ Settled(n) THEN dropped
                  ELSE dropped \cup ({at[m], at[n]} \cap Inodes)
    /\ UNCHANGED <<up, prog, INODE_MARKS, xattr, EVENTS, handler, web>>

Symlink(n) ==
    /\ Settled(n) \/ "rename" \in Faults
    /\ at[n] = None
    /\ at' = [at EXCEPT ![n] = Link]
    /\ UNCHANGED <<up, prog, INODE_MARKS, xattr, EVENTS, handler, web, dropped>>

\* A clean inode leaves the cache, and its storage with it.
Evict(i) ==
    /\ "evict" \in Faults
    /\ INODE_MARKS[i] # NoRecord /\ fd # i
    /\ INODE_MARKS' = [INODE_MARKS EXCEPT ![i] = NoRecord]
    /\ UNCHANGED <<up, prog, at, xattr, EVENTS, handler, web, dropped>>

Handle ==
    Take \/ Resolve \/ open_mark_target \/ set_origin_xattr \/ backfill

Next ==
    \/ \E p \in Pids : \/ \E n \in Names : Download(p, n)
                       \/ \E m, n \in Names : Derive(p, m, n)
                       \/ Exit(p)
                       \/ \E e \in Exes : Exec(p, e)
    \/ \E n \in Names : ReadBack(n) \/ Symlink(n)
    \/ \E m, n \in Names : Move(m, n)
    \/ \E i \in Inodes : Evict(i)
    \/ Handle \/ Crash \/ Start

Spec == Init /\ [][Next]_vars

\* The daemon keeps draining the ring.
FairSpec == Spec /\ WF_vars(Handle)

-----------------------------------------------------------------------------
(* Correctness.                                                            *)

\* Every variable keeps its type, and while the handler works it holds an
\* event, and a descriptor from open_mark_target on.
TypeOK ==
    /\ up \in BOOLEAN
    /\ prog \in [Pids -> Exes \cup {None}]
    /\ at \in [Names -> Inodes \cup {Link, None}]
    /\ INODE_MARKS \in [Inodes -> Records \cup {NoRecord}]
    /\ xattr \in [Inodes -> Records \cup {NoRecord}]
    /\ EVENTS \in Seq(Events) /\ Len(EVENTS) <= RING
    /\ pc \in {"idle", "resolve", "open", "xattr", "fill"}
    /\ event \in Events \cup {None} /\ (event = None) = (pc = "idle")
    /\ augmented \in Records \cup {NoRecord}
    /\ (augmented = NoRecord) = (pc = "idle")
    /\ fd \in Inodes \cup {None} /\ (fd = None) = (pc \notin {"xattr", "fill"})
    /\ web \subseteq Inodes /\ dropped \subseteq Inodes

\* Every record there is: in storage, on disk, under way.
AllRecords ==
    ({INODE_MARKS[i] : i \in Inodes} \cup {xattr[i] : i \in Inodes}
        \cup {EVENTS[k].rec : k \in DOMAIN EVENTS} \cup {augmented})
    \ {NoRecord}

\* CreatorTrue: through any chain of copies, and however late the daemon is,
\* a record names the executable of the process that fetched the content or
\* none; never that of the `tar` or `cp` that wrote the copy.
CreatorTrue == \A rec \in AllRecords : rec.exe \in {NoHash, rec.by}

\* OnlyWritten: a record, on disk or in storage, is on an inode that a
\* network process has written, unless files were moved under the handler.
OnlyWritten ==
    \A i \in Inodes :
        INODE_MARKS[i] # NoRecord \/ xattr[i] # NoRecord => i \in web \cup dropped

Handled(i) ==
    /\ \A k \in DOMAIN EVENTS : EVENTS[k].inode # i
    /\ pc # "idle" => event.inode # i

\* StoresAgree: once its events are handled, an inode has one record, the
\* same in storage and on disk, whichever writers raced, whether or not the
\* inode left the cache in between; unless an event or a write of it was lost.
StoresAgree ==
    \A i \in Inodes \ dropped :
        Handled(i) /\ INODE_MARKS[i] # NoRecord => xattr[i] = INODE_MARKS[i]

\* Persisted: every mark reaches the disk, unless its event is lost.
Persisted == \A i \in Inodes : i \in web ~> (xattr[i] # NoRecord \/ i \in dropped)

-----------------------------------------------------------------------------
(* What the repository's text says, beyond the above.                      *)

\* README: "Either source produces the same OriginRecord", once no event of
\* the inode is waiting.
SourcesAgree ==
    \A i \in Inodes :
        Handled(i) /\ INODE_MARKS[i] # NoRecord /\ xattr[i] # NoRecord
            => xattr[i] = INODE_MARKS[i]

\* bprm_check_security: the xattr is "Always written with the augmented
\* record (creator_path filled) by userspace".
XattrComplete == \A i \in Inodes : xattr[i] # NoRecord => xattr[i].exe # NoHash
=============================================================================
