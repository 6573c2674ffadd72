----------------------------- MODULE Quarantine -----------------------------
(***************************************************************************)
(* The quarantine store (quarantine.rs) and what surrounds it: the record  *)
(* the daemon keeps of a blocked file (handler.rs, control.rs), `stash`    *)
(* behind the control socket (run.rs) and `linprov quarantine restore`,    *)
(* which runs beside the daemon.                                           *)
(*                                                                         *)
(* Every system call that moves, removes or changes a file is a step, so   *)
(* the daemon and the command may die, and calls fail, between any two.    *)
(* Between them, too, users create and remove files when "race" is one of  *)
(* the faults.                                                             *)
(*                                                                         *)
(* The content of a file is a number of its own; its device is folded into *)
(* its inode number; times and sizes are left out.  A token stands for the *)
(* rule line of a block and here for the path alone: a file that comes     *)
(* back to its path is blocked under the token it had.  Paths lead to      *)
(* regular files, never through symbolic links.                            *)
(***************************************************************************)
EXTENDS Integers, FiniteSets

CONSTANTS
    Names,      \* paths, also the tokens of their blocks
    OtherFs,    \* the ones not on the store's filesystem: rename is EXDEV
    None,
    FILES,      \* files users create, at most
    INODES,     \* inode numbers
    SECS,       \* seconds the clock runs
    Faults      \* subset of AllFaults

\* "crash": the daemon or the command dies.  "io": a call whose failure the
\* code reports fails.  "soft": one whose failure it ignores.  "race": users
\* replace files in the middle of a stash or restore.  "reuse": a new file gets
\* the inode number of a removed one.  "burst": a path is quarantined again
\* within a second, under an id that a file still has in its name.
AllFaults == {"crash", "io", "soft", "race", "reuse", "burst"}

ASSUME QuarantineAssumption ==
    /\ OtherFs \subseteq Names
    /\ FILES \in Nat /\ INODES \in Nat /\ SECS \in Nat
    /\ Faults \subseteq AllFaults

NoIno == 0     \* what handler.rs records of a file that is gone
NoData == 0    \* the content of such a file, and of a body not yet copied

Ids == Names \X (0..SECS)
Files == [ino : 0..INODES, data : 0..FILES, mark : BOOLEAN,
          mode : {"run", "zero", "root"}, owner : {"user", "root"}]
Blocked == [ino : 0..INODES, data : 0..FILES]
Manifests == [mark : BOOLEAN, owner : {"user", "root"}, blocked : 1..FILES]

ASSUME NoneAssumption == None \notin Files \cup Blocked \cup Manifests \cup Names

VARIABLES
    at,        \* the file at each path, or None
    beside,    \* the file at `<path>.restored.<id>`, or None
    body,      \* the store: the body of each id, or None
    manifest,  \* the store: `<id>.toml`, or None
    clock,     \* unix_secs
    created,   \* how many files users have created
    lastIno,   \* the highest inode number given out
    ring,      \* the path of a block the kernel has reported, or None
    blocks,    \* the pending blocks: path -> record, or None
    stash,     \* where the daemon is in `stash`
    reply,     \* its last answer
    cli,       \* where the command is in `restore`
    promised   \* ghost: ids answered OK and not yet being restored

disk == <<at, beside, body, manifest>>
alloc == <<created, lastIno>>
vars == <<at, beside, body, manifest, clock, created, lastIno, ring, blocks,
          stash, reply, cli, promised>>

Idle == [pc |-> "idle"]

Init ==
    /\ at = [n \in Names |-> None]
    /\ beside = [id \in Ids |-> None]
    /\ body = [id \in Ids |-> None]
    /\ manifest = [id \in Ids |-> None]
    /\ clock = 0 /\ created = 0 /\ lastIno = 0
    /\ ring = None /\ blocks = [n \in Names |-> None]
    /\ stash = Idle /\ reply = "none" /\ cli = Idle
    /\ promised = {}

\* The results a call can have, by the fault that makes it fail.
Result(fault) == IF fault \in Faults THEN BOOLEAN ELSE {TRUE}

-----------------------------------------------------------------------------
(* Users and the kernel (external).                                        *)

Present(place) == {place[k] : k \in DOMAIN place} \ {None}
InUse == {f.ino : f \in Present(at) \cup Present(beside) \cup Present(body)}

FreshInos ==
    {i \in {lastIno + 1} : i <= INODES}
        \cup (IF "reuse" \in Faults THEN (1..lastIno) \ InUse ELSE {})

\* Users act between the operations of linprov, or in the midst of them.
UsersAct ==
    \/ "race" \in Faults
    \/ stash = Idle /\ cli = Idle /\ ring = None

\* A file is downloaded, or made on this machine: only the first is marked.
Create(n, mark) ==
    /\ UsersAct
    /\ at[n] = None /\ created < FILES
    /\ \E i \in FreshInos :
          /\ at' = [at EXCEPT ![n] =
                       [ino |-> i, data |-> created + 1, mark |-> mark,
                        mode |-> "run", owner |-> "user"]]
          /\ lastIno' = IF i > lastIno THEN i ELSE lastIno
    /\ created' = created + 1
    /\ UNCHANGED <<beside, body, manifest, clock, ring, blocks, stash, reply,
                   cli, promised>>

Remove(n) ==
    /\ UsersAct
    /\ at[n] # None
    /\ at' = [at EXCEPT ![n] = None]
    /\ UNCHANGED <<beside, body, manifest, clock, alloc, ring, blocks, stash,
                   reply, cli, promised>>

\* A marked file is executed, and the kernel blocks it.
Exec(n) ==
    /\ ring = None
    /\ at[n] # None /\ at[n].mark /\ at[n].mode = "run"
    /\ ring' = n
    /\ UNCHANGED <<disk, clock, alloc, blocks, stash, reply, cli, promised>>

Tick ==
    /\ clock < SECS
    /\ clock' = clock + 1
    /\ UNCHANGED <<disk, alloc, ring, blocks, stash, reply, cli, promised>>

-----------------------------------------------------------------------------
(* The daemon.                                                             *)

\* (0, 0) for a file that is gone.
Identity(f) == IF f = None THEN [ino |-> NoIno, data |-> NoData]
               ELSE [ino |-> f.ino, data |-> f.data]

record_first(n, identity) ==
    [blocks EXCEPT ![n] = IF blocks[n] = None THEN identity
                          ELSE [identity EXCEPT !.ino = blocks[n].ino]]

\* A recurrence refreshes the record it finds, identity and all.
record(n, identity) == [blocks EXCEPT ![n] = identity]

\* record_block_token: the identity is that of the file at the path when the event
\* is handled.  Its content is a ghost.
RecordBlock ==
    /\ stash = Idle /\ ring # None
    /\ blocks' = record(ring, Identity(at[ring]))
    /\ ring' = None
    /\ UNCHANGED <<disk, clock, alloc, stash, reply, cli, promised>>

\* The token of another verb, or an evicted one.
Drop(n) ==
    /\ stash = Idle /\ blocks[n] # None
    /\ blocks' = [blocks EXCEPT ![n] = None]
    /\ UNCHANGED <<disk, clock, alloc, ring, stash, reply, cli, promised>>

\* An error leaves the block pending.
Err(answer) == reply' = answer /\ stash' = Idle

IsPresent(f, rec) == TRUE

\* Same device and inode.
IsBlocked(f, rec) == f.ino = rec.ino

\* No file has the id in its name.
Unused(id) == body[id] = None /\ manifest[id] = None /\ beside[id] = None

\* The `quarantine` request up to the checks on the open descriptor and the
\* mark read from it; an error in reading it counts as no mark.
Quarantine(n) ==
    /\ stash = Idle /\ blocks[n] # None
    /\ "burst" \in Faults \/ Unused(<<n, clock>>)
    /\ IF at[n] = None THEN Err("ERR")
       ELSE IF ~IsBlocked(at[n], blocks[n]) THEN Err("TAMPER")
       ELSE /\ \E read \in Result("soft") :
                  stash' = [pc |-> "move", name |-> n, id |-> <<n, clock>>,
                            fd |-> [at[n] EXCEPT !.mark = at[n].mark /\ read]]
            /\ reply' = "none"
    /\ UNCHANGED <<disk, clock, alloc, ring, blocks, cli, promised>>

Goto(pc) == stash' = [stash EXCEPT !.pc = pc] /\ UNCHANGED reply

\* renameat takes whatever is at the path now and replaces what has the id;
\* across filesystems it changes nothing and the body is created, O_EXCL.
MoveBody ==
    /\ stash.pc = "move"
    /\ \/ /\ stash.name \notin OtherFs /\ at[stash.name] # None
          /\ body' = [body EXCEPT ![stash.id] = at[stash.name]]
          /\ at' = [at EXCEPT ![stash.name] = None]
          /\ Goto("chmod")
       \/ /\ stash.name \in OtherFs /\ body[stash.id] = None
          /\ body' = [body EXCEPT ![stash.id] =
                         [ino |-> NoIno, data |-> NoData, mark |-> FALSE,
                          mode |-> "root", owner |-> "root"]]
          /\ Goto("copy")
          /\ UNCHANGED at
       \/ /\ \/ "io" \in Faults
             \/ stash.name \notin OtherFs /\ at[stash.name] = None
             \/ stash.name \in OtherFs /\ body[stash.id] # None
          /\ Err("ERR")
          /\ UNCHANGED <<at, body>>
    /\ UNCHANGED <<beside, manifest, clock, alloc, ring, blocks, cli, promised>>

\* fchmodat, result ignored.
ChmodBody ==
    /\ stash.pc = "chmod"
    /\ \E ok \in Result("soft") :
          body' = IF ok THEN [body EXCEPT ![stash.id].mode = "zero"] ELSE body
    /\ Goto("manifest")
    /\ UNCHANGED <<at, beside, manifest, clock, alloc, ring, blocks, cli,
                   promised>>

\* io::copy and sync_all from the descriptor, then the mark and the mode,
\* whose results are ignored.
CopyBody ==
    /\ stash.pc = "copy"
    /\ \/ /\ \E marked, locked \in Result("soft") :
                body' = [body EXCEPT
                           ![stash.id].data = stash.fd.data,
                           ![stash.id].mark = marked /\ stash.fd.mark,
                           ![stash.id].mode = IF locked THEN "zero" ELSE "root"]
          /\ Goto("compare")
       \/ /\ "io" \in Faults
          /\ Err("ERR")
          /\ UNCHANGED body
    /\ UNCHANGED <<at, beside, manifest, clock, alloc, ring, blocks, cli,
                   promised>>

KeepOriginal ==
    /\ stash.pc = "compare"
    /\ Goto("manifest")
    /\ UNCHANGED <<disk, clock, alloc, ring, blocks, cli, promised>>

\* fstatat: the original is removed only if it is still the verified file.
CompareOriginal ==
    /\ stash.pc = "compare"
    /\ Goto(IF at[stash.name] # None /\ IsBlocked(at[stash.name], stash.fd)
            THEN "unlink" ELSE "manifest")
    /\ UNCHANGED <<disk, clock, alloc, ring, blocks, cli, promised>>

\* unlinkat: whatever is there now; a failure is logged.
UnlinkOriginal ==
    /\ stash.pc = "unlink"
    /\ \E ok \in Result("soft") :
          at' = IF ok THEN [at EXCEPT ![stash.name] = None] ELSE at
    /\ Goto("manifest")
    /\ UNCHANGED <<beside, body, manifest, clock, alloc, ring, blocks, cli,
                   promised>>

\* write_manifest, and on success the end of the request: the block is no
\* longer pending.
WriteManifest ==
    /\ stash.pc = "manifest"
    /\ \/ /\ manifest' = [manifest EXCEPT ![stash.id] =
                             [mark |-> stash.fd.mark, owner |-> stash.fd.owner,
                              blocked |-> blocks[stash.name].data]]
          /\ blocks' = [blocks EXCEPT ![stash.name] = None]
          /\ promised' = promised \cup {stash.id}
          /\ reply' = "OK" /\ stash' = Idle
       \/ /\ "io" \in Faults
          /\ Err("ERR")
          /\ UNCHANGED <<manifest, blocks, promised>>
    /\ UNCHANGED <<at, beside, body, clock, alloc, ring, cli>>

\* The daemon dies and is started again: its table is empty.
DaemonCrash ==
    /\ "crash" \in Faults
    /\ blocks' = [n \in Names |-> None]
    /\ ring' = None /\ stash' = Idle /\ reply' = "none"
    /\ UNCHANGED <<disk, clock, alloc, cli, promised>>

-----------------------------------------------------------------------------
(* linprov quarantine restore <id>.                                        *)

\* list: what has a manifest.
list == {id \in Ids : manifest[id] # None}

RestoreInPlace(id) ==
    /\ cli = Idle /\ id \in list /\ body[id] # None
    /\ cli' = [pc |-> "move", id |-> id, m |-> manifest[id], beside |-> FALSE]
    /\ promised' = promised \ {id}
    /\ UNCHANGED <<disk, clock, alloc, ring, blocks, stash, reply>>

\* Both files must be there; a taken path is avoided.
Restore(id) ==
    /\ cli = Idle /\ id \in list /\ body[id] # None
    /\ cli' = [pc |-> "move", id |-> id, m |-> manifest[id],
               beside |-> at[id[1]] # None]
    /\ promised' = promised \ {id}
    /\ UNCHANGED <<disk, clock, alloc, ring, blocks, stash, reply>>

Dest == IF cli.beside THEN beside[cli.id] ELSE at[cli.id[1]]

Put(f) ==
    IF cli.beside
    THEN beside' = [beside EXCEPT ![cli.id] = f] /\ UNCHANGED at
    ELSE at' = [at EXCEPT ![cli.id[1]] = f] /\ UNCHANGED beside

\* A change to the file at the destination, if there is one and it succeeds.
Amend(ok, f) ==
    IF ok /\ Dest # None THEN Put(f) ELSE UNCHANGED <<at, beside>>

Step(pc) == cli' = [cli EXCEPT !.pc = pc]

\* rename replaces what is at the destination; across filesystems fs::copy
\* writes the content and mode into it, or into a new file.
MoveBack ==
    /\ cli.pc = "move"
    /\ \/ /\ cli.id[1] \notin OtherFs
          /\ Put(body[cli.id])
          /\ body' = [body EXCEPT ![cli.id] = None]
          /\ Step("chmod")
          /\ UNCHANGED lastIno
       \/ /\ cli.id[1] \in OtherFs
          /\ IF Dest # None
             THEN /\ Put([Dest EXCEPT !.data = body[cli.id].data,
                                      !.mode = body[cli.id].mode])
                  /\ UNCHANGED lastIno
             ELSE \E i \in FreshInos :
                     /\ Put([body[cli.id] EXCEPT !.ino = i, !.mark = FALSE,
                                                 !.owner = "root"])
                     /\ lastIno' = IF i > lastIno THEN i ELSE lastIno
          /\ Step("remove")
          /\ UNCHANGED body
       \/ /\ "io" \in Faults
          /\ cli' = Idle
          /\ UNCHANGED <<at, beside, body, lastIno>>
    /\ UNCHANGED <<manifest, clock, created, ring, blocks, stash, reply,
                   promised>>

\* remove_file on the copied body, result ignored.
RemoveBody ==
    /\ cli.pc = "remove"
    /\ \E ok \in Result("soft") :
          body' = IF ok THEN [body EXCEPT ![cli.id] = None] ELSE body
    /\ Step("chmod")
    /\ UNCHANGED <<at, beside, manifest, clock, alloc, ring, blocks, stash,
                   reply, promised>>

\* set_permissions, result ignored.
ChmodDest ==
    /\ cli.pc = "chmod"
    /\ \E ok \in Result("soft") : Amend(ok, [Dest EXCEPT !.mode = "run"])
    /\ Step("chown")
    /\ UNCHANGED <<body, manifest, clock, alloc, ring, blocks, stash, reply,
                   promised>>

\* chown: a failure ends the command, before the mark is set.
ChownDest ==
    /\ cli.pc = "chown"
    /\ \/ /\ Dest # None
          /\ Amend(TRUE, [Dest EXCEPT !.owner = cli.m.owner])
          /\ Step("setxattr")
       \/ /\ "io" \in Faults \/ Dest = None
          /\ cli' = Idle
          /\ UNCHANGED <<at, beside>>
    /\ UNCHANGED <<body, manifest, clock, alloc, ring, blocks, stash, reply,
                   promised>>

LeaveUnmarked ==
    /\ cli.pc = "setxattr"
    /\ Step("forget")
    /\ UNCHANGED <<at, beside, body, manifest, clock, alloc, ring, blocks, stash,
                   reply, promised>>

\* set_xattr_no_follow, result ignored.
MarkDest ==
    /\ cli.pc = "setxattr"
    /\ \E ok \in Result("soft") :
          Amend(ok /\ cli.m.mark, [Dest EXCEPT !.mark = TRUE])
    /\ Step("forget")
    /\ UNCHANGED <<body, manifest, clock, alloc, ring, blocks, stash, reply,
                   promised>>

\* remove_file on the manifest, result ignored: the command has succeeded.
Forget ==
    /\ cli.pc = "forget"
    /\ \E ok \in Result("soft") :
          manifest' = IF ok THEN [manifest EXCEPT ![cli.id] = None] ELSE manifest
    /\ cli' = Idle
    /\ UNCHANGED <<at, beside, body, clock, alloc, ring, blocks, stash, reply,
                   promised>>

CliCrash ==
    /\ "crash" \in Faults
    /\ cli # Idle
    /\ cli' = Idle
    /\ UNCHANGED <<disk, clock, alloc, ring, blocks, stash, reply, promised>>

-----------------------------------------------------------------------------
StashStep ==
    MoveBody \/ ChmodBody \/ CopyBody \/ CompareOriginal \/ UnlinkOriginal
        \/ WriteManifest

RestoreStep ==
    MoveBack \/ RemoveBody \/ ChmodDest \/ ChownDest \/ MarkDest \/ Forget

Next ==
    \/ \E n \in Names : \/ \E mark \in BOOLEAN : Create(n, mark)
                        \/ Remove(n) \/ Exec(n) \/ Drop(n) \/ Quarantine(n)
    \/ \E id \in Ids : Restore(id)
    \/ RecordBlock \/ Tick
    \/ StashStep \/ DaemonCrash
    \/ RestoreStep \/ CliCrash

Spec == Init /\ [][Next]_vars

-----------------------------------------------------------------------------
(* Correctness.                                                            *)

\* Every variable keeps its type.
TypeOK ==
    /\ at \in [Names -> Files \cup {None}]
    /\ beside \in [Ids -> Files \cup {None}]
    /\ body \in [Ids -> Files \cup {None}]
    /\ manifest \in [Ids -> Manifests \cup {None}]
    /\ clock \in 0..SECS /\ created \in 0..FILES /\ lastIno \in 0..INODES
    /\ ring \in Names \cup {None}
    /\ blocks \in [Names -> Blocked \cup {None}]
    /\ stash \in {Idle} \cup
          [pc : {"move", "chmod", "copy", "compare", "unlink", "manifest"},
           name : Names, fd : Files, id : Ids]
    /\ reply \in {"none", "OK", "ERR", "TAMPER"}
    /\ cli \in {Idle} \cup
          [pc : {"move", "remove", "chmod", "chown", "setxattr", "forget"},
           id : Ids, m : Manifests, beside : BOOLEAN]
    /\ promised \subseteq Ids

\* Restorable: an id that was answered OK has, until it is restored, its
\* manifest and the locked body of the very file that was recorded, whatever
\* crashed, failed or was quarantined since.
Restorable ==
    \A id \in promised :
        /\ manifest[id] # None /\ body[id] # None
        /\ body[id].data = manifest[id].blocked
        /\ body[id].mode = "zero"

Stored == {f.data : f \in Present(at) \cup Present(beside) \cup Present(body)}

\* NothingLost: no step of the daemon or the command destroys the last copy
\* of any file, the unrelated ones included.
NothingLost ==
    [][stash' # stash \/ cli' # cli => Stored \ {NoData} \subseteq Stored']_vars

\* RoundTrip: a restore that ends well has put back the blocked content with
\* its mark, its mode and its owner, on either filesystem, unless the daemon
\* has by then taken it away again.
RoundTrip ==
    [][cli.pc = "forget" /\ Dest # None =>
          /\ Dest.data = cli.m.blocked /\ Dest.mark = cli.m.mark
          /\ Dest.mode = "run" /\ Dest.owner = cli.m.owner]_vars

\* TamperTrue: a refusal as possible tampering is never about the file that
\* recorded last for that path, quarantined and restored in between or not,
\* as long as restoring made no copy of it.
TamperTrue ==
    [][\A n \in Names \ OtherFs :
          /\ at[n] # None /\ blocks[n] # None
          /\ at[n].data = blocks[n].data
          /\ Quarantine(n)
          => reply' # "TAMPER"]_vars

\* Neutralised: when the daemon answers OK the blocked file is no longer at
\* its path.
Neutralised ==
    [][stash # Idle /\ reply' = "OK" =>
          at[stash.name] = None \/ at[stash.name].ino # stash.fd.ino]_vars

-----------------------------------------------------------------------------
(* What the repository's text says, beyond the above.                      *)

\* quarantine.rs: stash "drops a restore manifest so `linprov quarantine
\* restore <id>` can put it back later".
EveryBodyListed ==
    stash = Idle /\ cli = Idle => \A id \in Ids : body[id] # None => id \in list

\* quarantine.rs, Manifest: the mark is "restored verbatim so provenance
\* survives".
ProvenanceSurvives ==
    \A id \in Ids :
        LET f == at[id[1]]
        IN  manifest[id] # None /\ manifest[id].mark /\ f # None
              /\ f.data = manifest[id].blocked /\ f.mode = "run" => f.mark
=============================================================================
