-------------------------- MODULE QuarantineProofs --------------------------
(***************************************************************************)
(* Proofs about the quarantine store (module Quarantine): Restorable,      *)
(* NothingLost, RoundTrip, TamperTrue and Neutralised, for any number of   *)
(* paths, files and seconds, on either filesystem, with the daemon and the *)
(* command dying and calls failing between any two steps.                  *)
(***************************************************************************)
EXTENDS Quarantine, TLAPS

\* The faults the store withstands: the others are the ones the model shows
\* to matter, each by itself.
Quiet == Faults \subseteq {"crash", "io"}

-----------------------------------------------------------------------------
(* The inductive invariant.                                                *)

\* A file of name n, at its path, in the store or in its pending block, has
\* inode i and content d.
Owned(n, i, d) ==
    \/ at[n] # None /\ at[n].ino = i /\ at[n].data = d
    \/ \E id \in Ids : /\ id[1] = n /\ body[id] # None
                       /\ body[id].ino = i /\ body[id].data = d
    \/ blocks[n] # None /\ blocks[n].ino = i /\ blocks[n].data = d

\* An inode number tells a file from the others of its name; where restoring
\* makes no copy, so does the content.
InoInv ==
    \A n \in Names : \A i, j \in 0 .. INODES : \A d, e \in 0 .. FILES :
        /\ Owned(n, i, d) => i <= lastIno /\ d <= created
        /\ Owned(n, i, d) /\ Owned(n, i, e) /\ i # 0 => d = e
        /\ Owned(n, i, d) /\ Owned(n, j, d) /\ d # 0 /\ n \notin OtherFs => i = j

\* Files at paths have inode numbers and contents, copies in the store have
\* no number to be mistaken by, and a file is in one place only.
PlaceInv ==
    /\ \A n \in Names : at[n] # None => at[n].ino # 0 /\ at[n].data # 0
    /\ \A id \in Ids : body[id] # None =>
          IF id[1] \in OtherFs THEN body[id].ino = 0
          ELSE /\ body[id].ino # 0 /\ body[id].data # 0
               /\ at[id[1]] # None => at[id[1]].ino # body[id].ino
               /\ \A k \in Ids : k # id /\ k[1] = id[1] /\ body[k] # None
                     => body[k].ino # body[id].ino

\* What has a manifest is the file the manifest says.
StoreInv ==
    \A id \in Ids : manifest[id] # None =>
        /\ body[id] # None =>
              /\ body[id].data = manifest[id].blocked
              /\ body[id].mark = manifest[id].mark
              /\ body[id].mode = "zero"
        /\ beside[id] # None =>
              /\ beside[id].data = manifest[id].blocked
              /\ beside[id].mark => manifest[id].mark

\* How far the daemon is in stash: the verified file is at its path or, for
\* good, in the store under an id nobody else uses.
StashInv ==
    stash # Idle =>
        /\ stash.id[1] = stash.name
        /\ manifest[stash.id] = None /\ beside[stash.id] = None
        /\ stash.fd.ino # 0 /\ stash.fd.data # 0
        /\ blocks[stash.name] # None
        /\ blocks[stash.name].ino = stash.fd.ino
        /\ blocks[stash.name].data = stash.fd.data
        /\ stash.pc \in {"move", "copy", "compare", "unlink"} =>
              /\ at[stash.name] # None
              /\ at[stash.name].ino = stash.fd.ino
              /\ at[stash.name].data = stash.fd.data
        /\ stash.pc = "move" =>
              /\ body[stash.id] = None
              /\ stash.name \notin OtherFs => at[stash.name].mark = stash.fd.mark
        /\ stash.pc # "move" => body[stash.id] # None
        /\ stash.pc = "chmod" => stash.name \notin OtherFs
        /\ stash.pc \in {"copy", "compare", "unlink"} => stash.name \in OtherFs
        /\ stash.pc = "copy" => body[stash.id].data = NoData
        /\ stash.pc \in {"chmod", "compare", "unlink", "manifest"} =>
              /\ body[stash.id].data = stash.fd.data
              /\ body[stash.id].mark = stash.fd.mark
              /\ stash.name \notin OtherFs => body[stash.id].ino = stash.fd.ino
              /\ stash.pc # "chmod" => body[stash.id].mode = "zero"
        /\ stash.pc \in {"chmod", "manifest"} /\ at[stash.name] # None =>
              at[stash.name].ino # stash.fd.ino

\* The blocked content is somewhere besides the body that is about to go.
Elsewhere(id, d) ==
    \/ \E n \in Names : at[n] # None /\ at[n].data = d
    \/ \E k \in Ids : beside[k] # None /\ beside[k].data = d
    \/ \E k \in Ids \ {id} : body[k] # None /\ body[k].data = d

\* How far the command is in restore: what is at the destination, if the
\* daemon has not taken it away again, is the file of the manifest.
CliInv ==
    cli # Idle =>
        /\ manifest[cli.id] = cli.m
        /\ cli.pc = "move" =>
              /\ body[cli.id] # None
              /\ ~cli.beside => at[cli.id[1]] = None
        /\ cli.pc = "remove" =>
              cli.id[1] \in OtherFs /\ Elsewhere(cli.id, cli.m.blocked)
        /\ cli.pc # "move" /\ Dest # None =>
              /\ Dest.data = cli.m.blocked
              /\ Dest.mark => cli.m.mark
              /\ cli.id[1] \notin OtherFs => Dest.mark = cli.m.mark
              /\ cli.pc \in {"chown", "setxattr", "forget"} => Dest.mode = "run"
              /\ cli.pc \in {"setxattr", "forget"} => Dest.owner = cli.m.owner
              /\ cli.pc = "forget" => Dest.mark = cli.m.mark

\* What was promised is there, and not being restored.
PromisedInv ==
    \A id \in promised :
        /\ manifest[id] # None /\ body[id] # None
        /\ cli # Idle => cli.id # id

Inv ==
    /\ TypeOK /\ InoInv /\ PlaceInv /\ StoreInv /\ StashInv /\ CliInv
    /\ PromisedInv

-----------------------------------------------------------------------------
(* Types.                                                                  *)

StashPcs == {"move", "chmod", "copy", "compare", "unlink", "manifest"}
CliPcs == {"move", "remove", "chmod", "chown", "setxattr", "forget"}

\* Without the other faults calls whose failure is ignored succeed, inode
\* numbers are new, users keep out of a stash or restore, and ids are new.
LEMMA QuietFacts ==
    ASSUME Quiet
    PROVE  /\ Result("soft") = {TRUE}
           /\ FreshInos = {i \in {lastIno + 1} : i <= INODES}
           /\ UsersAct => stash = Idle /\ cli = Idle /\ ring = None
           /\ "burst" \notin Faults
  BY DEF Quiet, Result, FreshInos, UsersAct

\* A file that is there is a file; an id is of a name.
LEMMA Places ==
    ASSUME TypeOK
    PROVE  /\ \A n \in Names : at[n] # None => at[n] \in Files
           /\ \A id \in Ids : body[id] # None => body[id] \in Files
           /\ \A id \in Ids : beside[id] # None => beside[id] \in Files
           /\ \A id \in Ids : manifest[id] # None => manifest[id] \in Manifests
           /\ \A n \in Names : blocks[n] # None => blocks[n] \in Blocked
  BY DEF TypeOK

\* An id is made of a name and a second.
LEMMA IdsOfNames ==
    /\ \A id \in Ids : id[1] \in Names
    /\ \A n \in Names, s \in 0 .. SECS : <<n, s>> \in Ids /\ <<n, s>>[1] = n
  BY DEF Ids

\* None is no file, record, manifest or name.
LEMMA NoneIsNoFile ==
    /\ None \notin Files /\ None \notin Blocked /\ None \notin Manifests
    /\ None \notin Names
  BY NoneAssumption

\* The fields of the two programs' states.
LEMMA StashFields ==
    ASSUME TypeOK, stash # Idle
    PROVE  /\ stash \in [pc : StashPcs, name : Names, fd : Files, id : Ids]
           /\ stash.pc \in StashPcs /\ stash.name \in Names
           /\ stash.fd \in Files /\ stash.id \in Ids
  BY DEF TypeOK, StashPcs

\* The fields of the command's state.
LEMMA CliFields ==
    ASSUME TypeOK, cli # Idle
    PROVE  /\ cli \in [pc : CliPcs, id : Ids, m : Manifests, beside : BOOLEAN]
           /\ cli.pc \in CliPcs /\ cli.id \in Ids /\ cli.m \in Manifests
           /\ cli.beside \in BOOLEAN
  BY DEF TypeOK, CliPcs

\* A program at a step is not idle.
LEMMA NotIdle ==
    /\ stash.pc \in StashPcs => stash # Idle
    /\ cli.pc \in CliPcs => cli # Idle
  BY DEF Idle, StashPcs, CliPcs

\* A step inside stash moves the program counter and nothing else of it.
LEMMA GotoFields ==
    ASSUME TypeOK, stash # Idle, NEW p \in StashPcs,
           stash' = [stash EXCEPT !.pc = p]
    PROVE  /\ stash' \in [pc : StashPcs, name : Names, fd : Files, id : Ids]
           /\ stash' # Idle /\ stash'.pc = p /\ stash'.name = stash.name
           /\ stash'.fd = stash.fd /\ stash'.id = stash.id
<1>1. stash \in [pc : StashPcs, name : Names, fd : Files, id : Ids]
  BY StashFields
<1>2. /\ stash' \in [pc : StashPcs, name : Names, fd : Files, id : Ids]
      /\ stash'.pc = p /\ stash'.name = stash.name
      /\ stash'.fd = stash.fd /\ stash'.id = stash.id
  BY <1>1
<1> QED
  BY <1>2 DEF Idle, StashPcs

\* The same for a step inside restore.
LEMMA StepFields ==
    ASSUME TypeOK, cli # Idle, NEW p \in CliPcs, cli' = [cli EXCEPT !.pc = p]
    PROVE  /\ cli' \in [pc : CliPcs, id : Ids, m : Manifests, beside : BOOLEAN]
           /\ cli' # Idle /\ cli'.pc = p /\ cli'.id = cli.id
           /\ cli'.m = cli.m /\ cli'.beside = cli.beside
<1>1. cli \in [pc : CliPcs, id : Ids, m : Manifests, beside : BOOLEAN]
  BY CliFields
<1>2. /\ cli' \in [pc : CliPcs, id : Ids, m : Manifests, beside : BOOLEAN]
      /\ cli'.pc = p /\ cli'.id = cli.id
      /\ cli'.m = cli.m /\ cli'.beside = cli.beside
  BY <1>1
<1> QED
  BY <1>2 DEF Idle, CliPcs

\* The destination is a place of the file system.
LEMMA DestType ==
    ASSUME TypeOK, cli # Idle, Dest # None
    PROVE  Dest \in Files
  BY CliFields, Places, IdsOfNames DEF Dest

-----------------------------------------------------------------------------
(* Inode numbers.                                                          *)

\* What an owner may come to own: nothing new, or one pair that is new.
LEMMA OwnedFrame ==
    ASSUME TypeOK, TypeOK', InoInv,
           NEW m \in Names, NEW i0, NEW d0,
           \A n \in Names : \A i, d :
              Owned(n, i, d)' => Owned(n, i, d) \/ (n = m /\ i = i0 /\ d = d0),
           lastIno' >= lastIno, created' >= created,
           i0 \in Nat, d0 \in Nat, i0 <= lastIno', d0 <= created',
           i0 = 0 \/ i0 > lastIno,
           d0 = 0 \/ d0 > created \/ m \in OtherFs
    PROVE  InoInv'
<1> SUFFICES ASSUME NEW n \in Names, NEW i \in 0 .. INODES, NEW j \in 0 .. INODES,
                    NEW d \in 0 .. FILES, NEW e \in 0 .. FILES
             PROVE  /\ Owned(n, i, d)' => i <= lastIno' /\ d <= created'
                    /\ Owned(n, i, d)' /\ Owned(n, i, e)' /\ i # 0 => d = e
                    /\ Owned(n, i, d)' /\ Owned(n, j, d)' /\ d # 0
                          /\ n \notin OtherFs => i = j
  BY DEF InoInv
<1>0. /\ lastIno \in Nat /\ lastIno' \in Nat /\ created \in Nat /\ created' \in Nat
      /\ i \in Nat /\ j \in Nat /\ d \in Nat /\ e \in Nat
  BY QuarantineAssumption DEF TypeOK
<1>1. /\ Owned(n, i, d) => i <= lastIno /\ d <= created
      /\ Owned(n, j, d) => j <= lastIno /\ d <= created
      /\ Owned(n, i, e) => i <= lastIno /\ e <= created
      /\ Owned(n, i, d) /\ Owned(n, i, e) /\ i # 0 => d = e
      /\ Owned(n, i, d) /\ Owned(n, j, d) /\ d # 0 /\ n \notin OtherFs => i = j
  BY DEF InoInv
<1>2. /\ Owned(n, i, d)' => Owned(n, i, d) \/ (n = m /\ i = i0 /\ d = d0)
      /\ Owned(n, j, d)' => Owned(n, j, d) \/ (n = m /\ j = i0 /\ d = d0)
      /\ Owned(n, i, e)' => Owned(n, i, e) \/ (n = m /\ i = i0 /\ e = d0)
  OBVIOUS
<1> QED
  BY <1>0, <1>1, <1>2

\* The same when nothing new is owned.
LEMMA OwnedLess ==
    ASSUME TypeOK, TypeOK', InoInv,
           \A n \in Names : \A i, d : Owned(n, i, d)' => Owned(n, i, d),
           lastIno' >= lastIno, created' >= created
    PROVE  InoInv'
<1> SUFFICES ASSUME NEW n \in Names, NEW i \in 0 .. INODES, NEW j \in 0 .. INODES,
                    NEW d \in 0 .. FILES, NEW e \in 0 .. FILES
             PROVE  /\ Owned(n, i, d)' => i <= lastIno' /\ d <= created'
                    /\ Owned(n, i, d)' /\ Owned(n, i, e)' /\ i # 0 => d = e
                    /\ Owned(n, i, d)' /\ Owned(n, j, d)' /\ d # 0
                          /\ n \notin OtherFs => i = j
  BY DEF InoInv
<1>0. /\ lastIno \in Nat /\ lastIno' \in Nat /\ created \in Nat /\ created' \in Nat
      /\ i \in Nat /\ d \in Nat
  BY QuarantineAssumption DEF TypeOK
<1>1. /\ Owned(n, i, d) => i <= lastIno /\ d <= created
      /\ Owned(n, i, d) /\ Owned(n, i, e) /\ i # 0 => d = e
      /\ Owned(n, i, d) /\ Owned(n, j, d) /\ d # 0 /\ n \notin OtherFs => i = j
  BY DEF InoInv
<1>2. /\ Owned(n, i, d)' => Owned(n, i, d)
      /\ Owned(n, j, d)' => Owned(n, j, d)
      /\ Owned(n, i, e)' => Owned(n, i, e)
  OBVIOUS
<1> QED
  BY <1>0, <1>1, <1>2

\* No file has an inode number or content that was not given out; a pending
\* block and a file at its path with the same inode have the same content
\* and, where restoring makes no copy, the other way round.
LEMMA InoFacts ==
    ASSUME TypeOK, InoInv
    PROVE  /\ \A n \in Names : at[n] # None =>
                 at[n].ino <= lastIno /\ at[n].data <= created
           /\ \A id \in Ids : body[id] # None =>
                 body[id].ino <= lastIno /\ body[id].data <= created
           /\ \A n \in Names : blocks[n] # None =>
                 blocks[n].ino <= lastIno /\ blocks[n].data <= created
           /\ \A n \in Names : at[n] # None /\ blocks[n] # None =>
                 /\ at[n].ino = blocks[n].ino /\ at[n].ino # 0
                       => at[n].data = blocks[n].data
                 /\ at[n].data = blocks[n].data /\ at[n].data # 0
                       /\ n \notin OtherFs => at[n].ino = blocks[n].ino
<1>0. \A n \in Names : \A i, j \in 0 .. INODES : \A d, e \in 0 .. FILES :
         /\ Owned(n, i, d) => i <= lastIno /\ d <= created
         /\ Owned(n, i, d) /\ Owned(n, i, e) /\ i # 0 => d = e
         /\ Owned(n, i, d) /\ Owned(n, j, d) /\ d # 0 /\ n \notin OtherFs => i = j
  BY DEF InoInv
<1>1. ASSUME NEW n \in Names, at[n] # None
      PROVE  /\ at[n].ino \in 0 .. INODES /\ at[n].data \in 0 .. FILES
             /\ Owned(n, at[n].ino, at[n].data)
  BY <1>1, Places DEF Owned, Files
<1>2. ASSUME NEW id \in Ids, body[id] # None
      PROVE  /\ body[id].ino \in 0 .. INODES /\ body[id].data \in 0 .. FILES
             /\ id[1] \in Names /\ Owned(id[1], body[id].ino, body[id].data)
  BY <1>2, Places, IdsOfNames DEF Owned, Files
<1>3. ASSUME NEW n \in Names, blocks[n] # None
      PROVE  /\ blocks[n].ino \in 0 .. INODES /\ blocks[n].data \in 0 .. FILES
             /\ Owned(n, blocks[n].ino, blocks[n].data)
  BY <1>3, Places DEF Owned, Blocked
<1>4. ASSUME NEW n \in Names, at[n] # None
      PROVE  at[n].ino <= lastIno /\ at[n].data <= created
  BY <1>0, <1>1, <1>4
<1>5. ASSUME NEW id \in Ids, body[id] # None
      PROVE  body[id].ino <= lastIno /\ body[id].data <= created
  BY <1>0, <1>2, <1>5
<1>6. ASSUME NEW n \in Names, blocks[n] # None
      PROVE  blocks[n].ino <= lastIno /\ blocks[n].data <= created
  BY <1>0, <1>3, <1>6
<1>7. ASSUME NEW n \in Names, at[n] # None, blocks[n] # None
      PROVE  /\ at[n].ino = blocks[n].ino /\ at[n].ino # 0
                   => at[n].data = blocks[n].data
             /\ at[n].data = blocks[n].data /\ at[n].data # 0
                   /\ n \notin OtherFs => at[n].ino = blocks[n].ino
  BY <1>0, <1>1, <1>3, <1>7
<1> QED
  BY <1>4, <1>5, <1>6, <1>7

\* An empty store.
LEMMA InitInv == Init => Inv
<1> SUFFICES ASSUME Init PROVE Inv
  OBVIOUS
<1>1. TypeOK
  BY QuarantineAssumption DEF Init, TypeOK
<1>2. InoInv
  BY IdsOfNames DEF Init, InoInv, Owned
<1>3. PlaceInv
  BY DEF Init, PlaceInv
<1>4. StoreInv /\ StashInv /\ CliInv /\ PromisedInv
  BY DEF Init, StoreInv, StashInv, CliInv, PromisedInv
<1> QED
  BY <1>1, <1>2, <1>3, <1>4 DEF Inv

-----------------------------------------------------------------------------
(* The users and the kernel.                                               *)

\* Steps that leave the files, the store and both programs alone.
LEMMA FrameStep ==
    ASSUME Inv, TypeOK',
           UNCHANGED <<disk, alloc, blocks, stash, cli, promised>>
    PROVE  Inv'
<1> USE DEF Inv, disk, alloc
<1>1. InoInv'
  BY DEF InoInv, Owned
<1>2. PlaceInv' /\ StoreInv' /\ StashInv' /\ PromisedInv'
  BY DEF PlaceInv, StoreInv, StashInv, PromisedInv
<1>3. CliInv'
  BY DEF CliInv, Dest, Elsewhere
<1> QED
  BY <1>1, <1>2, <1>3

\* A file is created or removed while nothing of linprov is under way.
LEMMA CreateStep ==
    ASSUME Inv, Quiet, NEW n \in Names, NEW mark \in BOOLEAN, Create(n, mark)
    PROVE  Inv'
<1> USE DEF Inv
<1> DEFINE i0 == lastIno + 1
           d0 == created + 1
           f == [ino |-> i0, data |-> d0, mark |-> mark, mode |-> "run",
                 owner |-> "user"]
<1>0. stash = Idle /\ cli = Idle
  BY QuietFacts DEF Create
<1>1. /\ at' = [at EXCEPT ![n] = f] /\ lastIno' = i0 /\ created' = d0
      /\ i0 <= INODES /\ created < FILES
      /\ UNCHANGED <<beside, body, manifest, clock, ring, blocks, stash, reply,
                     cli, promised>>
  <2>1. PICK i \in FreshInos :
           /\ at' = [at EXCEPT ![n] =
                        [ino |-> i, data |-> created + 1, mark |-> mark,
                         mode |-> "run", owner |-> "user"]]
           /\ lastIno' = IF i > lastIno THEN i ELSE lastIno
    BY DEF Create
  <2>2. i = lastIno + 1 /\ i <= INODES
    BY QuietFacts
  <2>3. lastIno \in Nat
    BY QuarantineAssumption DEF TypeOK
  <2>4. lastIno + 1 > lastIno
    BY <2>3
  <2> QED
    BY <2>1, <2>2, <2>4 DEF Create
<1>2. i0 \in 0 .. INODES /\ d0 \in 0 .. FILES /\ i0 > lastIno /\ d0 > created
      /\ lastIno \in Nat /\ created \in Nat
  BY <1>1, QuarantineAssumption DEF TypeOK
<1>3. f \in Files /\ f.ino = i0 /\ f.data = d0
  BY <1>2 DEF Files
<1> HIDE DEF f, i0, d0
<1>4. at' \in [Names -> Files \cup {None}] /\ at'[n] = f
      /\ \A m \in Names : m # n => at'[m] = at[m]
  BY <1>1, <1>3 DEF TypeOK
<1>5. TypeOK'
  BY <1>1, <1>2, <1>4 DEF TypeOK
<1>6. InoInv'
  <2>1. \A m \in Names : \A i, d :
           Owned(m, i, d)' => Owned(m, i, d) \/ (m = n /\ i = i0 /\ d = d0)
    BY <1>1, <1>3, <1>4 DEF Owned
  <2> QED
    BY <1>1, <1>2, <1>5, <2>1, OwnedFrame
<1>7. PlaceInv'
  <2>1. \A id \in Ids : body[id] # None => body[id].ino # i0
    <3> SUFFICES ASSUME NEW id \in Ids, body[id] # None PROVE body[id].ino # i0
      OBVIOUS
    <3>1. body[id].ino <= lastIno /\ body[id].ino \in Int
      BY InoFacts, Places DEF Files
    <3> QED
      BY <1>2, <3>1
  <2>2. f.ino # 0 /\ f.data # 0
    BY <1>2, <1>3
  <2> QED
    BY <1>1, <1>3, <1>4, <2>1, <2>2, IdsOfNames DEF PlaceInv
<1>8. StoreInv' /\ StashInv' /\ CliInv' /\ PromisedInv'
  BY <1>0, <1>1 DEF StoreInv, StashInv, CliInv, PromisedInv
<1> QED
  BY <1>5, <1>6, <1>7, <1>8

\* A user removes a file.
LEMMA RemoveStep ==
    ASSUME Inv, Quiet, NEW n \in Names, Remove(n)
    PROVE  Inv'
<1> USE DEF Inv
<1>0. stash = Idle /\ cli = Idle
  BY QuietFacts DEF Remove
<1>1. /\ at' = [at EXCEPT ![n] = None]
      /\ UNCHANGED <<beside, body, manifest, clock, created, lastIno, ring,
                     blocks, stash, reply, cli, promised>>
  BY DEF Remove, alloc
<1>2. at' \in [Names -> Files \cup {None}] /\ at'[n] = None
      /\ \A m \in Names : m # n => at'[m] = at[m]
  BY <1>1 DEF TypeOK
<1>3. TypeOK'
  BY <1>1, <1>2 DEF TypeOK
<1>4. InoInv'
  <2>1. \A m \in Names : \A i, d : Owned(m, i, d)' => Owned(m, i, d)
    BY <1>1, <1>2 DEF Owned
  <2>2. lastIno' >= lastIno /\ created' >= created
    BY <1>1, QuarantineAssumption DEF TypeOK
  <2> QED
    BY <1>3, <2>1, <2>2, OwnedLess
<1>5. PlaceInv'
  BY <1>1, <1>2, IdsOfNames DEF PlaceInv
<1>6. StoreInv' /\ StashInv' /\ CliInv' /\ PromisedInv'
  BY <1>0, <1>1 DEF StoreInv, StashInv, CliInv, PromisedInv
<1> QED
  BY <1>3, <1>4, <1>5, <1>6

\* An event in the ring and the clock disturb nothing.
LEMMA KernelStep ==
    ASSUME Inv, Tick \/ \E n \in Names : Exec(n)
    PROVE  Inv'
<1>1. TypeOK'
  BY QuarantineAssumption DEF Inv, Tick, Exec, TypeOK, disk, alloc
<1> QED
  BY <1>1, FrameStep DEF Tick, Exec

-----------------------------------------------------------------------------
(* The daemon.                                                             *)

\* The table changes between requests only: what it records of a path is the
\* file that is there, or none.
LEMMA RecordStep ==
    ASSUME Inv, RecordBlock \/ \E n \in Names : Drop(n)
    PROVE  Inv'
<1> USE DEF Inv
<1> DEFINE rec == Identity(at[ring])
<1>0. /\ stash = Idle
      /\ UNCHANGED <<at, beside, body, manifest, clock, created, lastIno, stash,
                     reply, cli, promised>>
  BY DEF RecordBlock, Drop, disk, alloc
<1>1. ring' \in Names \cup {None}
  BY DEF RecordBlock, Drop, TypeOK
<1>2. /\ lastIno' >= lastIno /\ created' >= created
      /\ lastIno' \in Nat /\ created' \in Nat
  BY <1>0, QuarantineAssumption DEF TypeOK
<1>3. StoreInv' /\ StashInv' /\ PlaceInv' /\ PromisedInv'
  BY <1>0 DEF StoreInv, StashInv, PlaceInv, PromisedInv
<1>4. CliInv'
  BY <1>0 DEF CliInv, Dest, Elsewhere
<1>5. CASE RecordBlock
  <2>1. ring \in Names /\ blocks' = [blocks EXCEPT ![ring] = rec]
    BY <1>5 DEF RecordBlock, record, TypeOK
  <2>2. /\ rec \in Blocked
        /\ at[ring] # None => rec.ino = at[ring].ino /\ rec.data = at[ring].data
        /\ at[ring] = None => rec.ino = 0 /\ rec.data = 0
    <3>1. at[ring] # None => at[ring] \in Files
      BY <2>1, Places
    <3> QED
      BY <3>1, QuarantineAssumption DEF Identity, Blocked, Files, NoIno, NoData
  <2> HIDE DEF rec
  <2>3. blocks' \in [Names -> Blocked \cup {None}] /\ blocks'[ring] = rec
        /\ \A n \in Names : n # ring => blocks'[n] = blocks[n]
    BY <2>1, <2>2 DEF TypeOK
  <2>4. TypeOK'
    BY <1>0, <1>1, <2>3 DEF TypeOK
  <2>5. \A n \in Names : \A i, d :
           Owned(n, i, d)' => Owned(n, i, d) \/ (n = ring /\ i = 0 /\ d = 0)
    BY <1>0, <2>1, <2>2, <2>3 DEF Owned
  <2>6. 0 \in Nat /\ 0 <= lastIno' /\ 0 <= created'
    BY <1>2
  <2>7. InoInv'
    BY <1>2, <2>1, <2>4, <2>5, <2>6, OwnedFrame
  <2> QED
    BY <1>3, <1>4, <2>4, <2>7
<1>6. CASE \E n \in Names : Drop(n)
  <2>1. PICK n \in Names : Drop(n)
    BY <1>6
  <2>2. blocks' = [blocks EXCEPT ![n] = None]
    BY <2>1 DEF Drop
  <2>3. blocks' \in [Names -> Blocked \cup {None}] /\ blocks'[n] = None
        /\ \A m \in Names : m # n => blocks'[m] = blocks[m]
    BY <2>2 DEF TypeOK
  <2>4. TypeOK'
    BY <1>0, <1>1, <2>3 DEF TypeOK
  <2>5. \A m \in Names : \A i, d : Owned(m, i, d)' => Owned(m, i, d)
    BY <1>0, <2>3 DEF Owned
  <2>6. InoInv'
    BY <1>2, <2>4, <2>5, OwnedLess
  <2> QED
    BY <1>3, <1>4, <2>4, <2>6
<1> QED
  BY <1>5, <1>6

\* Some file has content d; and a step after which every content is still
\* there.
Holds(d) ==
    \/ \E n \in Names : at[n] # None /\ at[n].data = d
    \/ \E k \in Ids : beside[k] # None /\ beside[k].data = d
    \/ \E k \in Ids : body[k] # None /\ body[k].data = d

NoneLost == \A d : d # NoData /\ Holds(d) => Holds(d)'

\* The command and the daemon never work on the same id.
LEMMA IdsApart ==
    ASSUME Inv, stash # Idle
    PROVE  /\ manifest[stash.id] = None /\ stash.id \in Ids
           /\ cli # Idle => cli.id # stash.id /\ manifest[cli.id] # None
           /\ stash.id \notin promised
<1>1. manifest[stash.id] = None /\ stash.id \in Ids
  BY StashFields DEF Inv, StashInv
<1>2. ASSUME cli # Idle PROVE manifest[cli.id] # None
  <2>1. manifest[cli.id] = cli.m /\ cli.m \in Manifests
    BY <1>2, CliFields DEF Inv, CliInv
  <2> QED
    BY <2>1, NoneIsNoFile
<1> QED
  BY <1>1, <1>2 DEF Inv, PromisedInv

\* What a step of stash may do to the file it works on: put it in the store
\* and take it from its path.  That disturbs neither the store's other files
\* nor a restore, and loses nothing.
LEMMA StashEffect ==
    ASSUME Inv, stash # Idle, UNCHANGED <<beside, manifest, cli, promised>>,
           \A k \in Ids : k # stash.id => body'[k] = body[k],
           body'[stash.id] # None,
           body[stash.id] # None =>
              body[stash.id].data \in {NoData, body'[stash.id].data},
           \A n \in Names : n # stash.name => at'[n] = at[n],
           \/ at'[stash.name] = at[stash.name]
           \/ /\ at'[stash.name] = None
              /\ at[stash.name] # None
                    => body'[stash.id].data = at[stash.name].data
    PROVE  StoreInv' /\ CliInv' /\ PromisedInv' /\ NoneLost
<1> DEFINE t == stash.id
<1>0. t \in Ids /\ manifest[t] = None /\ stash.name \in Names /\ t \notin promised
      /\ (cli # Idle => cli.id # t)
  BY IdsApart, StashFields DEF Inv
<1>1. StoreInv'
  BY <1>0 DEF Inv, StoreInv
<1>2. PromisedInv'
  BY <1>0 DEF Inv, PromisedInv, TypeOK
<1>3. \A id \in Ids : \A d : id # t /\ d # NoData /\ Elsewhere(id, d)
                                 => Elsewhere(id, d)'
  <2> SUFFICES ASSUME NEW id \in Ids, NEW d, id # t, d # NoData, Elsewhere(id, d)
               PROVE  Elsewhere(id, d)'
    OBVIOUS
  <2>1. CASE \E n \in Names : at[n] # None /\ at[n].data = d
    <3>1. PICK n \in Names : at[n] # None /\ at[n].data = d
      BY <2>1
    <3>2. CASE at'[n] = at[n]
      BY <3>1, <3>2 DEF Elsewhere
    <3>3. CASE at'[n] # at[n]
      <4>1. body'[t] # None /\ body'[t].data = d
        BY <3>1, <3>3
      <4> QED
        BY <1>0, <4>1 DEF Elsewhere
    <3> QED
      BY <3>2, <3>3
  <2>2. CASE \E k \in Ids : beside[k] # None /\ beside[k].data = d
    BY <2>2 DEF Elsewhere
  <2>3. CASE \E k \in Ids \ {id} : body[k] # None /\ body[k].data = d
    <3>1. PICK k \in Ids \ {id} : body[k] # None /\ body[k].data = d
      BY <2>3
    <3>2. body'[k] # None /\ body'[k].data = d
      BY <3>1
    <3> QED
      BY <3>1, <3>2 DEF Elsewhere
  <2> QED
    BY <2>1, <2>2, <2>3 DEF Elsewhere
<1>4. NoneLost
  <2> SUFFICES ASSUME NEW d, d # NoData, Holds(d) PROVE Holds(d)'
    BY DEF NoneLost
  <2>1. CASE \E n \in Names : at[n] # None /\ at[n].data = d
    <3>1. PICK n \in Names : at[n] # None /\ at[n].data = d
      BY <2>1
    <3>2. CASE at'[n] = at[n]
      BY <3>1, <3>2 DEF Holds
    <3>3. CASE at'[n] # at[n]
      <4>1. body'[t] # None /\ body'[t].data = d
        BY <3>1, <3>3
      <4> QED
        BY <1>0, <4>1 DEF Holds
    <3> QED
      BY <3>2, <3>3
  <2>2. CASE \E k \in Ids : beside[k] # None /\ beside[k].data = d
    BY <2>2 DEF Holds
  <2>3. CASE \E k \in Ids : body[k] # None /\ body[k].data = d
    <3>1. PICK k \in Ids : body[k] # None /\ body[k].data = d
      BY <2>3
    <3>2. body'[k] # None /\ body'[k].data = d
      BY <3>1
    <3> QED
      BY <3>1, <3>2 DEF Holds
  <2> QED
    BY <2>1, <2>2, <2>3 DEF Holds
<1>5. CliInv'
  <2>1. CASE cli = Idle
    BY <2>1 DEF CliInv
  <2>2. CASE cli # Idle
    <3>1. /\ cli.id \in Ids /\ cli.id[1] \in Names /\ cli.id # t
          /\ cli.m.blocked # NoData
      <4>1. cli.m \in Manifests /\ cli.id \in Ids
        BY <2>2, CliFields DEF Inv
      <4> QED
        BY <1>0, <2>2, <4>1, IdsOfNames, QuarantineAssumption DEF Manifests, NoData
    <3>2. Dest' = None \/ Dest' = Dest
      BY <3>1 DEF Dest
    <3>3. ~cli.beside /\ at[cli.id[1]] = None => at'[cli.id[1]] = None
      BY <3>1
    <3>4. Elsewhere(cli.id, cli.m.blocked) => Elsewhere(cli.id, cli.m.blocked)'
      BY <1>3, <3>1 DEF Elsewhere
    <3>5. body'[cli.id] = body[cli.id]
      BY <3>1
    <3> QED
      BY <2>2, <3>2, <3>3, <3>4, <3>5 DEF Inv, CliInv
  <2> QED
    BY <2>1, <2>2
<1> QED
  BY <1>1, <1>2, <1>4, <1>5

\* Where no file moves, none is lost.
LEMMA SameFiles ==
    ASSUME UNCHANGED <<at, beside, body>>
    PROVE  NoneLost
  BY DEF NoneLost, Holds

\* Steps of the daemon that leave the files, the table and the command alone.
LEMMA StashFrame ==
    ASSUME Inv, UNCHANGED <<disk, alloc, blocks, cli, promised>>, TypeOK', StashInv'
    PROVE  Inv' /\ NoneLost
<1> USE DEF Inv, disk, alloc
<1>1. InoInv' /\ NoneLost
  BY SameFiles DEF InoInv, Owned
<1>2. PlaceInv' /\ StoreInv' /\ PromisedInv'
  BY DEF PlaceInv, StoreInv, PromisedInv
<1>3. CliInv'
  BY DEF CliInv, Dest, Elsewhere
<1> QED
  BY <1>1, <1>2, <1>3

\* An answer that is an error, at any point of a request.
LEMMA ErrStep ==
    ASSUME Inv, UNCHANGED <<disk, clock, alloc, ring, blocks, cli, promised>>,
           NEW answer \in {"ERR", "TAMPER"}, Err(answer)
    PROVE  Inv' /\ NoneLost
<1>1. TypeOK'
  BY DEF Inv, TypeOK, Err, disk, alloc
<1>2. StashInv'
  BY DEF StashInv, Err
<1> QED
  BY <1>1, <1>2, StashFrame

\* The request: the file it goes on with is the recorded one, at its path,
\* under an id that nothing has in its name.
LEMMA QuarantineStep ==
    ASSUME Inv, Quiet, NEW n \in Names, Quarantine(n)
    PROVE  Inv' /\ NoneLost
<1>0. /\ blocks[n] # None /\ Unused(<<n, clock>>)
      /\ UNCHANGED <<disk, clock, alloc, ring, blocks, cli, promised>>
  BY QuietFacts DEF Quarantine
<1>1. CASE at[n] = None \/ ~IsBlocked(at[n], blocks[n])
  <2>1. Err("ERR") \/ Err("TAMPER")
    BY <1>1 DEF Quarantine
  <2> QED
    BY <1>0, <2>1, ErrStep
<1>2. CASE at[n] # None /\ at[n].ino = blocks[n].ino
  <2> DEFINE id == <<n, clock>>
             f == [at[n] EXCEPT !.mark = at[n].mark /\ TRUE]
  <2>1. /\ stash' = [pc |-> "move", name |-> n, id |-> id, fd |-> f]
        /\ reply' = "none"
    <3>1. /\ \E read \in Result("soft") :
                stash' = [pc |-> "move", name |-> n, id |-> <<n, clock>>,
                          fd |-> [at[n] EXCEPT !.mark = at[n].mark /\ read]]
          /\ reply' = "none"
      BY <1>2 DEF Quarantine, IsBlocked
    <3>2. PICK read \in Result("soft") :
             stash' = [pc |-> "move", name |-> n, id |-> <<n, clock>>,
                       fd |-> [at[n] EXCEPT !.mark = at[n].mark /\ read]]
      BY <3>1
    <3>3. read = TRUE
      BY QuietFacts
    <3> QED
      BY <3>1, <3>2, <3>3
  <2>2. /\ f \in Files /\ f.ino = at[n].ino /\ f.data = at[n].data
        /\ f.mark = at[n].mark
    <3>1. at[n] \in Files
      BY <1>2, Places DEF Inv
    <3> QED
      BY <3>1 DEF Files
  <2>3. id \in Ids /\ id[1] = n
    BY IdsOfNames DEF Inv, TypeOK
  <2> HIDE DEF f, id
  <2>4. /\ stash' \in [pc : StashPcs, name : Names, fd : Files, id : Ids]
        /\ stash'.pc = "move" /\ stash'.name = n /\ stash'.id = id
        /\ stash'.fd = f
    BY <2>1, <2>2, <2>3 DEF StashPcs
  <2>5. TypeOK'
    BY <1>0, <2>1, <2>4 DEF Inv, TypeOK, disk, alloc, StashPcs
  <2>6. at[n].ino # 0 /\ at[n].data # 0 /\ at[n].data = blocks[n].data
    BY <1>0, <1>2, InoFacts DEF Inv, PlaceInv
  <2>7. body[id] = None /\ manifest[id] = None /\ beside[id] = None
    BY <1>0 DEF Unused, id
  <2>8. StashInv'
    BY <1>0, <1>2, <2>2, <2>3, <2>4, <2>6, <2>7 DEF StashInv, disk
  <2> QED
    BY <1>0, <2>5, <2>8, StashFrame
<1> QED
  BY <1>1, <1>2 DEF IsBlocked

\* The daemon dies: whatever it was at, the files are where they were.
LEMMA DaemonCrashStep ==
    ASSUME Inv, DaemonCrash
    PROVE  Inv' /\ NoneLost
<1> USE DEF Inv
<1>1. /\ UNCHANGED <<at, beside, body, manifest, clock, created, lastIno, cli,
                     promised>>
      /\ \A n \in Names : blocks'[n] = None
      /\ stash' = Idle
  BY DEF DaemonCrash, disk, alloc
<1>2. TypeOK'
  BY <1>1 DEF DaemonCrash, TypeOK
<1>3. lastIno' >= lastIno /\ created' >= created
  BY <1>1, QuarantineAssumption DEF TypeOK
<1>4. \A n \in Names : \A i, d : Owned(n, i, d)' => Owned(n, i, d)
  BY <1>1 DEF Owned
<1>5. InoInv'
  BY <1>2, <1>3, <1>4, OwnedLess
<1>6. PlaceInv' /\ StoreInv' /\ StashInv' /\ PromisedInv' /\ NoneLost
  BY <1>1, SameFiles DEF PlaceInv, StoreInv, StashInv, PromisedInv
<1>7. CliInv'
  BY <1>1 DEF CliInv, Dest, Elsewhere
<1> QED
  BY <1>2, <1>5, <1>6, <1>7

\* A new body under the id of the request.
LEMMA PutBody ==
    ASSUME Inv, stash # Idle, NEW f \in Files,
           body' = [body EXCEPT ![stash.id] = f]
    PROVE  /\ body' \in [Ids -> Files \cup {None}]
           /\ body'[stash.id] = f /\ body'[stash.id] # None
           /\ \A k \in Ids : k # stash.id => body'[k] = body[k]
<1>1. stash.id \in Ids
  BY StashFields DEF Inv
<1> QED
  BY <1>1, NoneIsNoFile DEF Inv, TypeOK

\* A path that has been emptied.
LEMMA TakeAt ==
    ASSUME Inv, stash # Idle, at' = [at EXCEPT ![stash.name] = None]
    PROVE  /\ at' \in [Names -> Files \cup {None}]
           /\ at'[stash.name] = None
           /\ \A n \in Names : n # stash.name => at'[n] = at[n]
<1>1. stash.name \in Names
  BY StashFields DEF Inv
<1> QED
  BY <1>1 DEF Inv, TypeOK

\* renameat on the store's filesystem.
LEMMA RenameStep ==
    ASSUME Inv, stash.pc = "move",
           stash.name \notin OtherFs, at[stash.name] # None,
           body' = [body EXCEPT ![stash.id] = at[stash.name]],
           at' = [at EXCEPT ![stash.name] = None], Goto("chmod"),
           UNCHANGED <<beside, manifest, clock, alloc, ring, blocks, cli, promised>>
    PROVE  Inv' /\ NoneLost
<1> DEFINE t == stash.id
           n == stash.name
<1>0. /\ stash # Idle /\ t \in Ids /\ n \in Names /\ t[1] = n
      /\ stash.fd \in Files /\ at[n] \in Files
  BY NotIdle, StashFields, Places DEF Inv, StashInv, StashPcs
<1>1. /\ stash' \in [pc : StashPcs, name : Names, fd : Files, id : Ids]
      /\ stash' # Idle /\ stash'.pc = "chmod" /\ stash'.name = n
      /\ stash'.fd = stash.fd /\ stash'.id = t
  BY <1>0, GotoFields DEF Goto, Inv, StashPcs
<1>2. /\ body' \in [Ids -> Files \cup {None}]
      /\ body'[t] = at[n] /\ body'[t] # None
      /\ \A k \in Ids : k # t => body'[k] = body[k]
  BY <1>0, PutBody
<1>3. /\ at' \in [Names -> Files \cup {None}] /\ at'[n] = None
      /\ \A m \in Names : m # n => at'[m] = at[m]
  BY <1>0, TakeAt
<1>4. StashInv
  BY DEF Inv
<1>5. /\ at[n].ino = stash.fd.ino /\ at[n].data = stash.fd.data
      /\ body[t] = None /\ at[n].mark = stash.fd.mark
      /\ stash.fd.ino # 0 /\ stash.fd.data # 0
  BY <1>0, <1>4 DEF StashInv
<1>6. TypeOK'
  BY <1>1, <1>2, <1>3 DEF Inv, TypeOK, Goto, alloc, StashPcs
<1>7. InoInv'
  <2>1. \A m \in Names : \A i, d : Owned(m, i, d)' => Owned(m, i, d)
    BY <1>0, <1>2, <1>3 DEF Owned
  <2>2. lastIno' >= lastIno /\ created' >= created
    BY QuarantineAssumption DEF Inv, TypeOK, alloc
  <2> QED
    BY <1>6, <2>1, <2>2, OwnedLess DEF Inv
<1> HIDE DEF t, n
<1>8. PlaceInv'
  <2>1. \A m \in Names : at'[m] # None => at'[m] = at[m]
    BY <1>3
  <2>2. \A k \in Ids : k # t /\ k[1] = n /\ body[k] # None => body[k].ino # at[n].ino
    BY <1>0 DEF Inv, PlaceInv, n
  <2>3. \A k \in Ids : k # t => body'[k] = body[k]
    BY <1>2
  <2>4. n \notin OtherFs
    BY DEF n
  <2>5. PlaceInv
    BY DEF Inv
  <2>6. ASSUME NEW m \in Names, at'[m] # None
        PROVE  at'[m].ino # 0 /\ at'[m].data # 0
    BY <2>1, <2>5, <2>6 DEF PlaceInv
  <2>7. ASSUME NEW id \in Ids, body'[id] # None
        PROVE  IF id[1] \in OtherFs THEN body'[id].ino = 0
               ELSE /\ body'[id].ino # 0 /\ body'[id].data # 0
                    /\ at'[id[1]] # None => at'[id[1]].ino # body'[id].ino
                    /\ \A k \in Ids : k # id /\ k[1] = id[1] /\ body'[k] # None
                          => body'[k].ino # body'[id].ino
    <3>1. CASE id = t
      BY <1>0, <1>2, <1>3, <1>5, <2>2, <2>3, <2>4, <3>1
    <3>2. CASE id # t
      <4>1. body'[id] = body[id] /\ id[1] \in Names
        BY <2>3, <3>2, IdsOfNames
      <4>2. \A k \in Ids : k # id /\ k[1] = id[1] /\ body'[k] # None
                              /\ id[1] \notin OtherFs
                          => body'[k].ino # body'[id].ino
        BY <1>0, <1>2, <2>2, <2>3, <2>5, <2>7, <3>2, <4>1 DEF PlaceInv
      <4> QED
        BY <2>1, <2>5, <2>7, <4>1, <4>2 DEF PlaceInv
    <3> QED
      BY <3>1, <3>2
  <2> QED
    BY <2>6, <2>7 DEF PlaceInv
<1>9. StashInv'
  BY <1>0, <1>1, <1>2, <1>3, <1>4, <1>5 DEF StashInv, n, t
<1>10. StoreInv' /\ CliInv' /\ PromisedInv' /\ NoneLost
  BY <1>0, <1>2, <1>3, <1>5, StashEffect DEF n, t
<1> QED
  BY <1>6, <1>7, <1>8, <1>9, <1>10 DEF Inv

\* A step of stash that changes the body under its id, in place: the copy of
\* a file on another filesystem, or the mode of a moved one.
LEMMA BodyStep ==
    ASSUME Inv, stash # Idle, NEW p \in StashPcs, Goto(p),
           UNCHANGED <<at, beside, manifest, clock, alloc, ring, blocks, cli,
                       promised>>,
           body' \in [Ids -> Files \cup {None}],
           body'[stash.id] # None,
           \A k \in Ids : k # stash.id => body'[k] = body[k],
           \/ /\ stash.name \in OtherFs
              /\ body'[stash.id].ino = 0
              /\ body'[stash.id].data <= created
              /\ body[stash.id] # None => body[stash.id].data = NoData
           \/ /\ body[stash.id] # None
              /\ body'[stash.id].ino = body[stash.id].ino
              /\ body'[stash.id].data = body[stash.id].data,
           StashInv'
    PROVE  Inv' /\ NoneLost
<1> DEFINE t == stash.id
           n == stash.name
<1>0. /\ t \in Ids /\ n \in Names /\ t[1] = n /\ body'[t] \in Files
  BY StashFields, NoneIsNoFile DEF Inv, StashInv
<1>1. stash' \in [pc : StashPcs, name : Names, fd : Files, id : Ids]
  BY GotoFields DEF Goto, Inv
<1>2. TypeOK'
  BY <1>1 DEF Inv, TypeOK, Goto, alloc, StashPcs
<1>3. /\ lastIno' = lastIno /\ created' = created
      /\ lastIno \in Nat /\ created \in Nat
  BY QuarantineAssumption DEF Inv, TypeOK, alloc
<1>4. CASE /\ n \in OtherFs /\ body'[t].ino = 0
           /\ body'[t].data <= created
           /\ body[t] # None => body[t].data = NoData
  <2> DEFINE d0 == body'[t].data
  <2>1. \A m \in Names : \A i, d :
           Owned(m, i, d)' => Owned(m, i, d) \/ (m = n /\ i = 0 /\ d = d0)
    BY <1>0, <1>4 DEF Owned
  <2>2. d0 \in Nat /\ d0 <= created
    BY <1>0, <1>4 DEF Files
  <2> HIDE DEF d0
  <2>3. InoInv'
    BY <1>0, <1>2, <1>3, <1>4, <2>1, <2>2, OwnedFrame DEF Inv
  <2>4. PlaceInv'
    BY <1>0, <1>4 DEF Inv, PlaceInv
  <2>5. StoreInv' /\ CliInv' /\ PromisedInv' /\ NoneLost
    BY <1>0, <1>4, StashEffect
  <2> QED
    BY <1>2, <2>3, <2>4, <2>5 DEF Inv
<1>5. CASE /\ body[t] # None /\ body'[t].ino = body[t].ino
           /\ body'[t].data = body[t].data
  <2>0. \A k \in Ids : /\ body'[k] # None <=> body[k] # None
                       /\ body'[k] # None => /\ body'[k].ino = body[k].ino
                                             /\ body'[k].data = body[k].data
    BY <1>5
  <2>1. \A m \in Names : \A i, d : Owned(m, i, d)' => Owned(m, i, d)
    BY <2>0 DEF Owned
  <2>2. InoInv'
    BY <1>2, <1>3, <2>1, OwnedLess DEF Inv
  <2>3. PlaceInv'
    BY <2>0 DEF Inv, PlaceInv
  <2>4. StoreInv' /\ CliInv' /\ PromisedInv' /\ NoneLost
    BY <1>0, <1>5, StashEffect
  <2> QED
    BY <1>2, <2>2, <2>3, <2>4 DEF Inv
<1> QED
  BY <1>4, <1>5

\* Across filesystems the rename fails and an empty body is created.
LEMMA MoveBodyStep ==
    ASSUME Inv, MoveBody
    PROVE  Inv' /\ NoneLost
<1>0. /\ stash # Idle /\ stash.pc = "move"
      /\ UNCHANGED <<beside, manifest, clock, alloc, ring, blocks, cli, promised>>
  BY NotIdle DEF MoveBody, StashPcs
<1>1. CASE /\ stash.name \notin OtherFs /\ at[stash.name] # None
           /\ body' = [body EXCEPT ![stash.id] = at[stash.name]]
           /\ at' = [at EXCEPT ![stash.name] = None]
           /\ Goto("chmod")
  BY <1>0, <1>1, RenameStep
<1>2. CASE /\ stash.name \in OtherFs /\ body[stash.id] = None
           /\ body' = [body EXCEPT ![stash.id] =
                          [ino |-> NoIno, data |-> NoData, mark |-> FALSE,
                           mode |-> "root", owner |-> "root"]]
           /\ Goto("copy")
           /\ UNCHANGED at
  <2> DEFINE f == [ino |-> NoIno, data |-> NoData, mark |-> FALSE,
                   mode |-> "root", owner |-> "root"]
  <2>1. f \in Files /\ f.ino = 0 /\ f.data = 0
    BY QuarantineAssumption DEF Files, NoIno, NoData
  <2> HIDE DEF f
  <2>2. body' = [body EXCEPT ![stash.id] = f]
    BY <1>2 DEF f
  <2>3. /\ body' \in [Ids -> Files \cup {None}]
        /\ body'[stash.id] = f /\ body'[stash.id] # None
        /\ \A k \in Ids : k # stash.id => body'[k] = body[k]
    BY <1>0, <2>1, <2>2, PutBody
  <2>4. /\ stash' # Idle /\ stash'.pc = "copy" /\ stash'.name = stash.name
        /\ stash'.fd = stash.fd /\ stash'.id = stash.id
    BY <1>0, <1>2, GotoFields DEF Goto, Inv, StashPcs
  <2>5. StashInv'
    BY <1>0, <1>2, <2>1, <2>3, <2>4 DEF Inv, StashInv, NoData
  <2>6. 0 <= created
    BY QuarantineAssumption DEF Inv, TypeOK
  <2>7. "copy" \in StashPcs
    BY DEF StashPcs
  <2> QED
    BY <1>0, <1>2, <2>1, <2>3, <2>5, <2>6, <2>7, BodyStep
<1>3. CASE Err("ERR") /\ UNCHANGED <<at, body>>
  BY <1>0, <1>3, ErrStep DEF disk
<1> QED
  BY <1>1, <1>2, <1>3 DEF MoveBody

\* The mode of the moved file.
LEMMA ChmodBodyStep ==
    ASSUME Inv, Quiet, ChmodBody
    PROVE  Inv' /\ NoneLost
<1> DEFINE f == [body[stash.id] EXCEPT !.mode = "zero"]
<1>0. /\ stash # Idle /\ stash.pc = "chmod" /\ Goto("manifest")
      /\ UNCHANGED <<at, beside, manifest, clock, alloc, ring, blocks, cli,
                     promised>>
  BY NotIdle DEF ChmodBody, StashPcs
<1>1. body' = [body EXCEPT ![stash.id].mode = "zero"]
  <2>1. PICK ok \in Result("soft") :
           body' = IF ok THEN [body EXCEPT ![stash.id].mode = "zero"] ELSE body
    BY DEF ChmodBody
  <2>2. ok = TRUE
    BY QuietFacts
  <2> QED
    BY <2>1, <2>2
<1>2. /\ body[stash.id] # None /\ body[stash.id] \in Files /\ stash.id \in Ids
      /\ body[stash.id].data = stash.fd.data /\ body[stash.id].mark = stash.fd.mark
      /\ body[stash.id].ino = stash.fd.ino
  BY <1>0, StashFields, Places DEF Inv, StashInv
<1>3. /\ f \in Files /\ f.ino = body[stash.id].ino
      /\ f.data = body[stash.id].data /\ f.mark = body[stash.id].mark
      /\ f.mode = "zero"
  BY <1>2 DEF Files
<1>4. body' = [body EXCEPT ![stash.id] = f]
  BY <1>1
<1> HIDE DEF f
<1>5. /\ body' \in [Ids -> Files \cup {None}]
      /\ body'[stash.id] = f /\ body'[stash.id] # None
      /\ \A k \in Ids : k # stash.id => body'[k] = body[k]
  BY <1>0, <1>3, <1>4, PutBody
<1>6. /\ stash' # Idle /\ stash'.pc = "manifest" /\ stash'.name = stash.name
      /\ stash'.fd = stash.fd /\ stash'.id = stash.id
  BY <1>0, GotoFields DEF Goto, Inv, StashPcs
<1>7. StashInv'
  BY <1>0, <1>2, <1>3, <1>5, <1>6 DEF Inv, StashInv
<1>8. "manifest" \in StashPcs
  BY DEF StashPcs
<1> QED
  BY <1>0, <1>2, <1>3, <1>5, <1>7, <1>8, BodyStep

\* The content, the mark and the mode of the copy.
LEMMA CopyBodyStep ==
    ASSUME Inv, Quiet, CopyBody
    PROVE  Inv' /\ NoneLost
<1>0. /\ stash # Idle /\ stash.pc = "copy"
      /\ UNCHANGED <<at, beside, manifest, clock, alloc, ring, blocks, cli,
                     promised>>
  BY NotIdle DEF CopyBody, StashPcs
<1>1. CASE /\ \E marked, locked \in Result("soft") :
                 body' = [body EXCEPT
                            ![stash.id].data = stash.fd.data,
                            ![stash.id].mark = marked /\ stash.fd.mark,
                            ![stash.id].mode = IF locked THEN "zero" ELSE "root"]
           /\ Goto("compare")
  <2>1. PICK marked, locked \in Result("soft") :
           body' = [body EXCEPT
                      ![stash.id].data = stash.fd.data,
                      ![stash.id].mark = marked /\ stash.fd.mark,
                      ![stash.id].mode = IF locked THEN "zero" ELSE "root"]
    BY <1>1
  <2>2. marked = TRUE /\ locked = TRUE
    BY QuietFacts
  <2>3. body' = [body EXCEPT ![stash.id].data = stash.fd.data,
                             ![stash.id].mark = TRUE /\ stash.fd.mark,
                             ![stash.id].mode = "zero"]
    BY <2>1, <2>2
  <2>4. /\ stash.id \in Ids /\ body[stash.id] # None /\ body[stash.id] \in Files
        /\ stash.fd \in Files /\ stash.name \in Names /\ stash.name \in OtherFs
        /\ body[stash.id].data = NoData /\ body[stash.id].ino = 0
        /\ stash.fd.data <= created /\ stash.id[1] = stash.name
    <3>1. /\ stash.id \in Ids /\ stash.fd \in Files /\ stash.name \in Names
      BY <1>0, StashFields DEF Inv
    <3>2. /\ body[stash.id] # None /\ stash.id[1] = stash.name
          /\ stash.name \in OtherFs
          /\ body[stash.id].data = NoData
          /\ at[stash.name] # None /\ at[stash.name].data = stash.fd.data
      BY <1>0 DEF Inv, StashInv
    <3>3. body[stash.id] \in Files /\ body[stash.id].ino = 0
      BY <3>1, <3>2, Places DEF Inv, PlaceInv
    <3>4. stash.fd.data <= created
      BY <3>1, <3>2, InoFacts DEF Inv
    <3> QED
      BY <3>1, <3>2, <3>3, <3>4
  <2>5. /\ body' \in [Ids -> Files \cup {None}]
        /\ \A k \in Ids : k # stash.id => body'[k] = body[k]
        /\ body'[stash.id] \in Files
        /\ body'[stash.id].ino = 0 /\ body'[stash.id].data = stash.fd.data
        /\ body'[stash.id].mark = stash.fd.mark
        /\ body'[stash.id].mode = "zero"
    <3> DEFINE f == [[[body[stash.id] EXCEPT !.data = stash.fd.data]
                          EXCEPT !.mark = TRUE /\ stash.fd.mark]
                          EXCEPT !.mode = "zero"]
    <3>1. /\ f \in Files /\ f.ino = 0 /\ f.data = stash.fd.data
          /\ f.mark = stash.fd.mark /\ f.mode = "zero"
      BY <2>4 DEF Files
    <3>2. body' = [body EXCEPT ![stash.id] = f]
      BY <2>3, <2>4 DEF Inv, TypeOK
    <3> HIDE DEF f
    <3> QED
      BY <1>0, <3>1, <3>2, PutBody
  <2>6. body'[stash.id] # None
    BY <2>5, NoneIsNoFile
  <2>7. /\ stash' # Idle /\ stash'.pc = "compare" /\ stash'.name = stash.name
        /\ stash'.fd = stash.fd /\ stash'.id = stash.id
    BY <1>0, <1>1, GotoFields DEF Goto, Inv, StashPcs
  <2>8. StashInv'
    BY <1>0, <2>4, <2>5, <2>6, <2>7 DEF Inv, StashInv
  <2>9. "compare" \in StashPcs
    BY DEF StashPcs
  <2> QED
    BY <1>0, <1>1, <2>4, <2>5, <2>6, <2>8, <2>9, BodyStep
<1>2. CASE Err("ERR") /\ UNCHANGED body
  BY <1>0, <1>2, ErrStep DEF disk
<1> QED
  BY <1>1, <1>2 DEF CopyBody

\* The original is still the verified file, for nobody else touches it.
LEMMA CompareStep ==
    ASSUME Inv, CompareOriginal
    PROVE  Inv' /\ NoneLost
<1>0. /\ stash # Idle /\ stash.pc = "compare"
      /\ UNCHANGED <<disk, clock, alloc, ring, blocks, cli, promised>>
  BY NotIdle DEF CompareOriginal, StashPcs
<1>1. at[stash.name] # None /\ IsBlocked(at[stash.name], stash.fd)
  BY <1>0 DEF Inv, StashInv, IsBlocked
<1>2. Goto("unlink")
  BY <1>1 DEF CompareOriginal
<1>3. /\ stash' \in [pc : StashPcs, name : Names, fd : Files, id : Ids]
      /\ stash' # Idle /\ stash'.pc = "unlink" /\ stash'.name = stash.name
      /\ stash'.fd = stash.fd /\ stash'.id = stash.id
  BY <1>0, <1>2, GotoFields DEF Goto, Inv, StashPcs
<1>4. TypeOK'
  BY <1>0, <1>2, <1>3 DEF Inv, TypeOK, Goto, disk, alloc, StashPcs
<1>5. StashInv'
  BY <1>0, <1>3 DEF Inv, StashInv, disk
<1> QED
  BY <1>0, <1>4, <1>5, StashFrame

\* The original goes; its copy is in the store.
LEMMA UnlinkStep ==
    ASSUME Inv, Quiet, UnlinkOriginal
    PROVE  Inv' /\ NoneLost
<1> DEFINE t == stash.id
           n == stash.name
<1>0. /\ stash # Idle /\ stash.pc = "unlink" /\ Goto("manifest")
      /\ UNCHANGED <<beside, body, manifest, clock, alloc, ring, blocks, cli,
                     promised>>
  BY NotIdle DEF UnlinkOriginal, StashPcs
<1>1. at' = [at EXCEPT ![n] = None]
  <2>1. PICK ok \in Result("soft") :
           at' = IF ok THEN [at EXCEPT ![stash.name] = None] ELSE at
    BY DEF UnlinkOriginal
  <2>2. ok = TRUE
    BY QuietFacts
  <2> QED
    BY <2>1, <2>2
<1>2. /\ at' \in [Names -> Files \cup {None}] /\ at'[n] = None
      /\ \A m \in Names : m # n => at'[m] = at[m]
  BY <1>0, <1>1, TakeAt
<1>3. /\ stash' \in [pc : StashPcs, name : Names, fd : Files, id : Ids]
      /\ stash' # Idle /\ stash'.pc = "manifest" /\ stash'.name = n
      /\ stash'.fd = stash.fd /\ stash'.id = t
  BY <1>0, GotoFields DEF Goto, Inv, StashPcs
<1>4. TypeOK'
  BY <1>0, <1>2, <1>3 DEF Inv, TypeOK, Goto, alloc, StashPcs
<1>5. StashInv'
  BY <1>0, <1>2, <1>3 DEF Inv, StashInv
<1>6. InoInv'
  <2>1. \A m \in Names : \A i, d : Owned(m, i, d)' => Owned(m, i, d)
    BY <1>0, <1>2 DEF Owned
  <2>2. lastIno' >= lastIno /\ created' >= created
    BY <1>0, QuarantineAssumption DEF Inv, TypeOK, alloc
  <2> QED
    BY <1>4, <2>1, <2>2, OwnedLess DEF Inv
<1>7. PlaceInv'
  BY <1>0, <1>2, IdsOfNames DEF Inv, PlaceInv
<1>8. /\ body[t] # None /\ at[n] # None /\ body[t].data = at[n].data
  BY <1>0 DEF Inv, StashInv
<1>9. StoreInv' /\ CliInv' /\ PromisedInv' /\ NoneLost
  BY <1>0, <1>2, <1>8, StashEffect
<1> QED
  BY <1>4, <1>5, <1>6, <1>7, <1>9 DEF Inv

\* The manifest: from now on the id is promised.
LEMMA WriteManifestStep ==
    ASSUME Inv, WriteManifest
    PROVE  Inv' /\ NoneLost
<1>0. /\ stash # Idle /\ stash.pc = "manifest"
      /\ UNCHANGED <<at, beside, body, clock, alloc, ring, cli>>
  BY NotIdle DEF WriteManifest, StashPcs
<1>1. CASE Err("ERR") /\ UNCHANGED <<manifest, blocks, promised>>
  BY <1>0, <1>1, ErrStep DEF disk
<1>2. CASE /\ manifest' = [manifest EXCEPT ![stash.id] =
                              [mark |-> stash.fd.mark, owner |-> stash.fd.owner,
                               blocked |-> blocks[stash.name].data]]
           /\ blocks' = [blocks EXCEPT ![stash.name] = None]
           /\ promised' = promised \cup {stash.id}
           /\ reply' = "OK" /\ stash' = Idle
  <2> DEFINE t == stash.id
             n == stash.name
             m == [mark |-> stash.fd.mark, owner |-> stash.fd.owner,
                   blocked |-> blocks[n].data]
  <2>0. /\ t \in Ids /\ n \in Names /\ stash.fd \in Files /\ t \notin promised
        /\ cli # Idle => cli.id # t
    BY <1>0, IdsApart, StashFields DEF Inv
  <2>1. /\ blocks[n] # None /\ blocks[n].data = stash.fd.data
        /\ stash.fd.data # 0 /\ body[t] # None /\ beside[t] = None
        /\ body[t].data = stash.fd.data /\ body[t].mark = stash.fd.mark
        /\ body[t].mode = "zero"
    BY <1>0 DEF Inv, StashInv
  <2>2. /\ m \in Manifests /\ m.mark = stash.fd.mark
        /\ m.blocked = stash.fd.data
    BY <2>0, <2>1, QuarantineAssumption DEF Manifests, Files
  <2>3. manifest' = [manifest EXCEPT ![t] = m]
    BY <1>2
  <2> HIDE DEF m
  <2>4. /\ manifest' \in [Ids -> Manifests \cup {None}] /\ manifest'[t] = m
        /\ \A k \in Ids : k # t => manifest'[k] = manifest[k]
    BY <2>0, <2>2, <2>3 DEF Inv, TypeOK
  <2>5. /\ blocks' \in [Names -> Blocked \cup {None}] /\ blocks'[n] = None
        /\ \A k \in Names : k # n => blocks'[k] = blocks[k]
    BY <1>2, <2>0 DEF Inv, TypeOK
  <2>6. m # None
    BY <2>2, NoneIsNoFile
  <2>7. TypeOK'
    BY <1>0, <1>2, <2>0, <2>4, <2>5 DEF Inv, TypeOK, alloc
  <2>8. InoInv'
    <3>1. \A k \in Names : \A i, d : Owned(k, i, d)' => Owned(k, i, d)
      BY <1>0, <2>5 DEF Owned
    <3>2. lastIno' >= lastIno /\ created' >= created
      BY <1>0, QuarantineAssumption DEF Inv, TypeOK, alloc
    <3> QED
      BY <2>7, <3>1, <3>2, OwnedLess DEF Inv
  <2>9. PlaceInv' /\ StashInv' /\ NoneLost
    BY <1>0, <1>2, SameFiles DEF Inv, PlaceInv, StashInv
  <2>10. StoreInv'
    BY <1>0, <2>1, <2>2, <2>4 DEF Inv, StoreInv
  <2>11. PromisedInv'
    BY <1>0, <1>2, <2>0, <2>1, <2>4, <2>6 DEF Inv, TypeOK, PromisedInv
  <2>12. CliInv'
    <3>1. cli # Idle => cli.id \in Ids /\ manifest'[cli.id] = manifest[cli.id]
      BY <2>0, <2>4, CliFields DEF Inv
    <3> QED
      BY <1>0, <3>1 DEF Inv, CliInv, Dest, Elsewhere
  <2> QED
    BY <2>7, <2>8, <2>9, <2>10, <2>11, <2>12 DEF Inv
<1> QED
  BY <1>1, <1>2 DEF WriteManifest

\* Every step of the daemon's request.
LEMMA StashStepInv ==
    ASSUME Inv, Quiet, StashStep
    PROVE  Inv' /\ NoneLost
  BY MoveBodyStep, ChmodBodyStep, CopyBodyStep, CompareStep, UnlinkStep,
     WriteManifestStep DEF StashStep

-----------------------------------------------------------------------------
(* The command.                                                            *)

\* Steps of the command that leave the files and the daemon alone.
LEMMA CliFrame ==
    ASSUME Inv, UNCHANGED <<disk, alloc, blocks, stash>>, TypeOK', CliInv',
           PromisedInv'
    PROVE  Inv' /\ NoneLost
<1> USE DEF Inv, disk, alloc
<1>1. InoInv' /\ NoneLost
  BY SameFiles DEF InoInv, Owned
<1>2. PlaceInv' /\ StoreInv' /\ StashInv'
  BY DEF PlaceInv, StoreInv, StashInv
<1> QED
  BY <1>1, <1>2

\* The command ends, by an error or by dying.
LEMMA CliEndStep ==
    ASSUME Inv, cli' = Idle,
           UNCHANGED <<disk, clock, alloc, ring, blocks, stash, reply, promised>>
    PROVE  Inv' /\ NoneLost
<1>1. TypeOK'
  BY DEF Inv, TypeOK, disk, alloc
<1>2. CliInv' /\ PromisedInv'
  BY DEF Inv, CliInv, PromisedInv, disk
<1> QED
  BY <1>1, <1>2, CliFrame

\* The command starts: from then on its id is no longer promised.
LEMMA RestoreInv ==
    ASSUME Inv, NEW id \in Ids, Restore(id)
    PROVE  Inv' /\ NoneLost
<1> DEFINE c == [pc |-> "move", id |-> id, m |-> manifest[id],
                 beside |-> at[id[1]] # None]
<1>0. /\ manifest[id] # None /\ body[id] # None /\ cli' = c
      /\ promised' = promised \ {id}
      /\ UNCHANGED <<disk, clock, alloc, ring, blocks, stash, reply>>
  BY DEF Restore, list
<1>1. /\ c \in [pc : CliPcs, id : Ids, m : Manifests, beside : BOOLEAN]
      /\ c.pc = "move" /\ c.id = id /\ c.m = manifest[id]
      /\ c.beside = (at[id[1]] # None)
  <2>1. manifest[id] \in Manifests
    BY <1>0, Places DEF Inv
  <2> QED
    BY <2>1 DEF CliPcs
<1> HIDE DEF c
<1>2. TypeOK'
  BY <1>0, <1>1 DEF Inv, TypeOK, disk, alloc, CliPcs
<1>3. CliInv'
  BY <1>0, <1>1 DEF CliInv, disk
<1>4. PromisedInv'
  BY <1>0, <1>1 DEF Inv, PromisedInv, disk
<1> QED
  BY <1>0, <1>2, <1>3, <1>4, CliFrame

\* What a file at the destination must be once the command is at p.
Fits(f, p) ==
    /\ f.data = cli.m.blocked
    /\ f.mark => cli.m.mark
    /\ cli.id[1] \notin OtherFs => f.mark = cli.m.mark
    /\ p \in {"chown", "setxattr", "forget"} => f.mode = "run"
    /\ p \in {"setxattr", "forget"} => f.owner = cli.m.owner
    /\ p = "forget" => f.mark = cli.m.mark

\* What the invariant says of the command, its id and what it has stored.
LEMMA CliFacts ==
    ASSUME Inv, cli # Idle
    PROVE  /\ cli.id \in Ids /\ cli.id[1] \in Names /\ cli.m \in Manifests
           /\ cli.m.blocked # 0 /\ manifest[cli.id] = cli.m
           /\ manifest[cli.id] # None /\ cli.id \notin promised
           /\ stash # Idle => stash.id # cli.id
           /\ body[cli.id] # None => /\ body[cli.id].data = cli.m.blocked
                                     /\ body[cli.id].mark = cli.m.mark
           /\ beside[cli.id] # None => /\ beside[cli.id].data = cli.m.blocked
                                       /\ beside[cli.id].mark => cli.m.mark
<1>1. /\ cli.id \in Ids /\ cli.id[1] \in Names /\ cli.m \in Manifests
      /\ manifest[cli.id] = cli.m
  BY CliFields, IdsOfNames DEF Inv, CliInv
<1>2. cli.m # None /\ cli.m.blocked # 0
  BY <1>1, NoneIsNoFile, QuarantineAssumption DEF Manifests
<1>3. cli.id \notin promised /\ (stash # Idle => stash.id # cli.id)
  BY IdsApart DEF Inv, PromisedInv
<1> QED
  BY <1>1, <1>2, <1>3 DEF Inv, StoreInv

\* The command writes the file beside the path.
LEMMA BesideStep ==
    ASSUME Inv, cli # Idle, cli.beside, NEW f \in Files,
           NEW p \in CliPcs \ {"move"}, Step(p), Fits(f, p),
           p = "remove" => cli.id[1] \in OtherFs,
           beside' = [beside EXCEPT ![cli.id] = f],
           body' \in [Ids -> Files \cup {None}],
           \A k \in Ids : k # cli.id => body'[k] = body[k],
           body'[cli.id] \in {None, body[cli.id]},
           lastIno' \in 0 .. INODES, lastIno' >= lastIno,
           UNCHANGED <<at, manifest, clock, created, ring, blocks, stash, reply,
                       promised>>
    PROVE  Inv' /\ NoneLost
<1> DEFINE c == cli.id
<1>0. /\ c \in Ids /\ c[1] \in Names /\ cli.m \in Manifests
      /\ cli.m.blocked # 0 /\ manifest[c] = cli.m
      /\ manifest[c] # None /\ c \notin promised
      /\ stash # Idle => stash.id # c
      /\ body[c] # None => body[c].data = cli.m.blocked
      /\ beside[c] # None => beside[c].data = cli.m.blocked
  BY CliFacts
<1>1. /\ cli' \in [pc : CliPcs, id : Ids, m : Manifests, beside : BOOLEAN]
      /\ cli' # Idle /\ cli'.pc = p /\ cli'.id = c
      /\ cli'.m = cli.m /\ cli'.beside = cli.beside
  BY StepFields DEF Step, Inv
<1>2. /\ beside' \in [Ids -> Files \cup {None}] /\ beside'[c] = f /\ f # None
      /\ \A k \in Ids : k # c => beside'[k] = beside[k]
  BY <1>0, NoneIsNoFile DEF Inv, TypeOK
<1>3. \A k \in Ids : body'[k] # None => body'[k] = body[k]
  OBVIOUS
<1>4. TypeOK'
  BY <1>1, <1>2 DEF Inv, TypeOK, CliPcs
<1>5. InoInv'
  <2>1. \A m \in Names : \A i, d : Owned(m, i, d)' => Owned(m, i, d)
    BY <1>3 DEF Owned
  <2>2. created' >= created
    BY QuarantineAssumption DEF Inv, TypeOK
  <2> QED
    BY <1>4, <2>1, <2>2, OwnedLess DEF Inv
<1>6. PlaceInv'
  BY <1>3 DEF Inv, PlaceInv
<1>7. StoreInv'
  BY <1>0, <1>2, <1>3 DEF Inv, StoreInv, Fits
<1>8. StashInv'
  <2>1. stash # Idle => /\ stash.id \in Ids /\ body'[stash.id] = body[stash.id]
                        /\ beside'[stash.id] = beside[stash.id]
    BY <1>0, <1>2, StashFields DEF Inv
  <2> QED
    BY <2>1 DEF Inv, StashInv
<1>9. CliInv'
  <2>1. Dest' = f
    BY <1>1, <1>2 DEF Dest
  <2>2. Elsewhere(c, cli.m.blocked)'
    BY <1>0, <1>1, <1>2 DEF Elsewhere, Fits
  <2> QED
    BY <1>0, <1>1, <2>1, <2>2 DEF CliInv, Fits
<1>10. PromisedInv'
  BY <1>0, <1>1 DEF Inv, TypeOK, PromisedInv
<1>11. NoneLost
  <2> SUFFICES ASSUME NEW d, d # NoData, Holds(d) PROVE Holds(d)'
    BY DEF NoneLost
  <2>1. CASE \E n \in Names : at[n] # None /\ at[n].data = d
    BY <2>1 DEF Holds
  <2>2. CASE d = cli.m.blocked
    <3>1. beside'[c] # None /\ beside'[c].data = d
      BY <1>2, <2>2 DEF Fits
    <3> QED
      BY <1>0, <3>1 DEF Holds
  <2>3. CASE /\ d # cli.m.blocked
             /\ \E k \in Ids : beside[k] # None /\ beside[k].data = d
    <3>1. PICK k \in Ids : beside[k] # None /\ beside[k].data = d
      BY <2>3
    <3>2. beside'[k] = beside[k]
      BY <1>0, <1>2, <2>3, <3>1
    <3> QED
      BY <3>1, <3>2 DEF Holds
  <2>4. CASE /\ d # cli.m.blocked
             /\ \E k \in Ids : body[k] # None /\ body[k].data = d
    <3>1. PICK k \in Ids : body[k] # None /\ body[k].data = d
      BY <2>4
    <3>2. body'[k] = body[k]
      BY <1>0, <2>4, <3>1
    <3> QED
      BY <3>1, <3>2 DEF Holds
  <2> QED
    BY <2>1, <2>2, <2>3, <2>4 DEF Holds
<1> QED
  BY <1>4, <1>5, <1>6, <1>7, <1>8, <1>9, <1>10, <1>11 DEF Inv

\* The command writes the file at the path: at most what the file there
\* already was is replaced.  How it stands to inode numbers and to a stash
\* of the same path is shown for each step.
LEMMA PathStep ==
    ASSUME Inv, cli # Idle, ~cli.beside, NEW f \in Files,
           NEW p \in CliPcs \ {"move"}, Step(p), Fits(f, p),
           p = "remove" => cli.id[1] \in OtherFs,
           at' = [at EXCEPT ![cli.id[1]] = f],
           at[cli.id[1]] # None => at[cli.id[1]].data = f.data,
           body' \in [Ids -> Files \cup {None}],
           \A k \in Ids : k # cli.id => body'[k] = body[k],
           body'[cli.id] \in {None, body[cli.id]},
           lastIno' \in 0 .. INODES, lastIno' >= lastIno,
           UNCHANGED <<beside, manifest, clock, created, ring, blocks, stash,
                       reply, promised>>
    PROVE  TypeOK' /\ StoreInv' /\ CliInv' /\ PromisedInv' /\ NoneLost
<1> DEFINE c == cli.id
<1>0. /\ c \in Ids /\ c[1] \in Names /\ cli.m \in Manifests
      /\ cli.m.blocked # 0 /\ manifest[c] = cli.m
      /\ manifest[c] # None /\ c \notin promised
      /\ body[c] # None => body[c].data = cli.m.blocked
  BY CliFacts
<1>1. /\ cli' \in [pc : CliPcs, id : Ids, m : Manifests, beside : BOOLEAN]
      /\ cli' # Idle /\ cli'.pc = p /\ cli'.id = c
      /\ cli'.m = cli.m /\ cli'.beside = cli.beside
  BY StepFields DEF Step, Inv
<1>2. /\ at' \in [Names -> Files \cup {None}] /\ at'[c[1]] = f /\ f # None
      /\ \A n \in Names : n # c[1] => at'[n] = at[n]
  BY <1>0, NoneIsNoFile DEF Inv, TypeOK
<1>3. \A k \in Ids : body'[k] # None => body'[k] = body[k]
  OBVIOUS
<1>4. TypeOK'
  BY <1>1, <1>2 DEF Inv, TypeOK, CliPcs
<1>5. StoreInv'
  BY <1>3 DEF Inv, StoreInv
<1>6. CliInv'
  <2>1. Dest' = f
    BY <1>1, <1>2 DEF Dest
  <2>2. Elsewhere(c, cli.m.blocked)'
    BY <1>0, <1>1, <1>2 DEF Elsewhere, Fits
  <2> QED
    BY <1>0, <1>1, <2>1, <2>2 DEF CliInv, Fits
<1>7. PromisedInv'
  BY <1>0, <1>1 DEF Inv, TypeOK, PromisedInv
<1>8. NoneLost
  <2> SUFFICES ASSUME NEW d, d # NoData, Holds(d) PROVE Holds(d)'
    BY DEF NoneLost
  <2>1. CASE d = cli.m.blocked
    <3>1. at'[c[1]] # None /\ at'[c[1]].data = d
      BY <1>2, <2>1 DEF Fits
    <3> QED
      BY <1>0, <3>1 DEF Holds
  <2>2. CASE \E k \in Ids : beside[k] # None /\ beside[k].data = d
    BY <2>2 DEF Holds
  <2>3. CASE /\ d # cli.m.blocked
             /\ \E n \in Names : at[n] # None /\ at[n].data = d
    <3>1. PICK n \in Names : at[n] # None /\ at[n].data = d
      BY <2>3
    <3>2. at'[n] = at[n]
      BY <1>0, <1>2, <2>3, <3>1 DEF Fits
    <3> QED
      BY <3>1, <3>2 DEF Holds
  <2>4. CASE /\ d # cli.m.blocked
             /\ \E k \in Ids : body[k] # None /\ body[k].data = d
    <3>1. PICK k \in Ids : body[k] # None /\ body[k].data = d
      BY <2>4
    <3>2. body'[k] = body[k]
      BY <1>0, <2>4, <3>1
    <3> QED
      BY <3>1, <3>2 DEF Holds
  <2> QED
    BY <2>1, <2>2, <2>3, <2>4 DEF Holds
<1> QED
  BY <1>4, <1>5, <1>6, <1>7, <1>8

\* rename back to the path.
LEMMA RenameBack ==
    ASSUME Inv, cli.pc = "move", ~cli.beside, cli.id[1] \notin OtherFs,
           at' = [at EXCEPT ![cli.id[1]] = body[cli.id]],
           body' = [body EXCEPT ![cli.id] = None], Step("chmod"),
           UNCHANGED <<beside, manifest, clock, created, lastIno, ring, blocks,
                       stash, reply, promised>>
    PROVE  Inv' /\ NoneLost
<1> DEFINE c == cli.id
           n == cli.id[1]
           f == body[cli.id]
<1>0. /\ cli # Idle /\ c \in Ids /\ n \in Names /\ c \notin promised
      /\ stash # Idle => stash.id # c
  BY NotIdle, CliFacts DEF CliPcs
<1>1. f # None /\ at[n] = None /\ f \in Files
  BY <1>0, Places DEF Inv, CliInv
<1>2. f.data = cli.m.blocked /\ f.mark = cli.m.mark
  BY <1>0, <1>1, CliFacts
<1>3. /\ body' \in [Ids -> Files \cup {None}] /\ body'[c] = None
      /\ \A k \in Ids : k # c => body'[k] = body[k]
  BY <1>0 DEF Inv, TypeOK
<1>4. /\ at' \in [Names -> Files \cup {None}] /\ at'[n] = f
      /\ \A m \in Names : m # n => at'[m] = at[m]
  BY <1>0, <1>1 DEF Inv, TypeOK
<1>5. /\ f.ino # 0 /\ f.data # 0
      /\ \A k \in Ids : k # c /\ k[1] = n /\ body[k] # None => body[k].ino # f.ino
  BY <1>0, <1>1 DEF Inv, PlaceInv
<1>6. TypeOK' /\ StoreInv' /\ CliInv' /\ PromisedInv' /\ NoneLost
  <2>1. Fits(f, "chmod")
    BY <1>2 DEF Fits
  <2>2. lastIno' \in 0 .. INODES /\ lastIno' >= lastIno
    BY QuarantineAssumption DEF Inv, TypeOK
  <2>3. "chmod" \in CliPcs \ {"move"}
    BY DEF CliPcs
  <2> QED
    BY <1>0, <1>1, <1>3, <2>1, <2>2, <2>3, PathStep
<1> HIDE DEF f
<1>7. InoInv'
  <2>1. \A m \in Names : \A i, d : Owned(m, i, d)' => Owned(m, i, d)
    BY <1>0, <1>1, <1>3, <1>4 DEF Owned, f
  <2>2. created' >= created /\ lastIno' >= lastIno
    BY QuarantineAssumption DEF Inv, TypeOK
  <2> QED
    BY <1>6, <2>1, <2>2, OwnedLess DEF Inv
<1>8. PlaceInv'
  <2>1. \A k \in Ids : body'[k] # None => body'[k] = body[k] /\ k # c
    BY <1>3
  <2>2. \A m \in Names : at'[m] # None => at'[m].ino # 0 /\ at'[m].data # 0
    BY <1>4, <1>5 DEF Inv, PlaceInv
  <2>3. ASSUME NEW id \in Ids, body'[id] # None, id[1] \notin OtherFs,
               at'[id[1]] # None
        PROVE  at'[id[1]].ino # body'[id].ino
    BY <1>4, <1>5, <2>1, <2>3, IdsOfNames DEF Inv, PlaceInv
  <2> QED
    BY <2>1, <2>2, <2>3 DEF Inv, PlaceInv
<1>9. StashInv'
  <2> SUFFICES ASSUME stash # Idle PROVE StashInv'
    BY DEF StashInv
  <2>1. /\ stash.id \in Ids /\ stash.name \in Names /\ stash.id # c
        /\ body'[stash.id] = body[stash.id] /\ stash.pc \in StashPcs
        /\ stash.id[1] = stash.name
    BY <1>0, <1>3, StashFields DEF Inv, StashInv
  <2>2. CASE stash.name # n
    <3>1. at'[stash.name] = at[stash.name]
      BY <1>4, <2>1, <2>2
    <3> QED
      BY <2>1, <3>1 DEF Inv, StashInv
  <2>3. CASE stash.name = n
    <3>1. stash.pc \in {"chmod", "manifest"}
      BY <1>1, <2>1, <2>3 DEF Inv, StashInv, StashPcs
    <3>2. body[stash.id] # None /\ body[stash.id].ino = stash.fd.ino
      BY <2>3, <3>1 DEF Inv, StashInv
    <3>3. at'[stash.name].ino # stash.fd.ino
      BY <1>4, <1>5, <2>1, <2>3, <3>2
    <3> QED
      BY <2>1, <3>1, <3>3 DEF Inv, StashInv
  <2> QED
    BY <2>2, <2>3
<1> QED
  BY <1>6, <1>7, <1>8, <1>9 DEF Inv

\* fs::copy back to the path, into a new file.
LEMMA CopyBack ==
    ASSUME Inv, cli.pc = "move", ~cli.beside, cli.id[1] \in OtherFs,
           lastIno + 1 <= INODES, lastIno' = lastIno + 1,
           at' = [at EXCEPT ![cli.id[1]] =
                     [body[cli.id] EXCEPT !.ino = lastIno + 1, !.mark = FALSE,
                                          !.owner = "root"]],
           Step("remove"),
           UNCHANGED <<beside, body, manifest, clock, created, ring, blocks,
                       stash, reply, promised>>
    PROVE  Inv' /\ NoneLost
<1> DEFINE c == cli.id
           n == cli.id[1]
           i0 == lastIno + 1
           f == [body[cli.id] EXCEPT !.ino = i0, !.mark = FALSE, !.owner = "root"]
           d0 == f.data
<1>0. /\ cli # Idle /\ c \in Ids /\ n \in Names
  BY NotIdle, CliFacts DEF CliPcs
<1>1. body[c] # None /\ at[n] = None /\ body[c] \in Files
  BY <1>0, Places DEF Inv, CliInv
<1>2. body[c].data = cli.m.blocked /\ cli.m.blocked # 0 /\ body[c].data <= created
  BY <1>0, <1>1, CliFacts, InoFacts DEF Inv
<1>3. i0 \in 0 .. INODES /\ i0 > lastIno /\ i0 # 0 /\ lastIno \in Nat
      /\ created \in Nat
  BY QuarantineAssumption DEF Inv, TypeOK
<1>4. /\ f \in Files /\ f.ino = i0 /\ f.data = body[c].data /\ f.mark = FALSE
  BY <1>1, <1>3 DEF Files
<1>5. d0 \in Nat /\ d0 <= created /\ d0 # 0 /\ d0 = body[c].data
  BY <1>1, <1>2, <1>4 DEF Files
<1>6. at' = [at EXCEPT ![n] = f]
  OBVIOUS
<1> HIDE DEF f, d0, i0
<1>7. /\ at' \in [Names -> Files \cup {None}] /\ at'[n] = f
      /\ \A m \in Names : m # n => at'[m] = at[m]
  BY <1>0, <1>4, <1>6 DEF Inv, TypeOK
<1>8. TypeOK' /\ StoreInv' /\ CliInv' /\ PromisedInv' /\ NoneLost
  <2>1. Fits(f, "remove")
    BY <1>2, <1>4 DEF Fits
  <2>2. lastIno' \in 0 .. INODES /\ lastIno' >= lastIno
    BY <1>3 DEF i0
  <2>3. "remove" \in CliPcs \ {"move"}
    BY DEF CliPcs
  <2>4. body' \in [Ids -> Files \cup {None}]
    BY DEF Inv, TypeOK
  <2> QED
    BY <1>0, <1>1, <1>4, <1>6, <2>1, <2>2, <2>3, <2>4, PathStep
<1>9. InoInv'
  <2>1. \A m \in Names : \A i, d :
           Owned(m, i, d)' => Owned(m, i, d) \/ (m = n /\ i = i0 /\ d = d0)
    BY <1>0, <1>4, <1>7 DEF Owned, d0
  <2>2. /\ lastIno' = i0 /\ created' = created
    BY DEF i0
  <2> QED
    BY <1>0, <1>3, <1>5, <1>8, <2>1, <2>2, OwnedFrame DEF Inv
<1>10. PlaceInv'
  <2>1. \A m \in Names : at'[m] # None => at'[m].ino # 0 /\ at'[m].data # 0
    BY <1>3, <1>4, <1>5, <1>7 DEF Inv, PlaceInv
  <2>2. \A id \in Ids : id[1] \notin OtherFs => at'[id[1]] = at[id[1]]
    BY <1>7, IdsOfNames
  <2> QED
    BY <2>1, <2>2 DEF Inv, PlaceInv
<1>11. StashInv'
  <2> SUFFICES ASSUME stash # Idle PROVE StashInv'
    BY DEF StashInv
  <2>1. stash.name \in Names /\ stash.pc \in StashPcs
    BY StashFields DEF Inv
  <2>2. CASE stash.name # n
    <3>1. at'[stash.name] = at[stash.name]
      BY <1>7, <2>1, <2>2
    <3> QED
      BY <3>1 DEF Inv, StashInv
  <2>3. CASE stash.name = n
    <3>1. stash.pc \in {"chmod", "manifest"}
      BY <1>1, <2>1, <2>3 DEF Inv, StashInv, StashPcs
    <3>2. /\ blocks[n] # None /\ blocks[n].ino = stash.fd.ino
      BY <2>3 DEF Inv, StashInv
    <3>3. /\ stash.fd.ino <= lastIno /\ stash.fd.ino \in Int
      BY <1>0, <3>2, InoFacts, Places DEF Inv, Blocked
    <3>4. i0 # stash.fd.ino
      BY <1>3, <3>3
    <3> QED
      BY <1>4, <1>7, <2>3, <3>1, <3>4 DEF Inv, StashInv
  <2> QED
    BY <2>2, <2>3
<1> QED
  BY <1>8, <1>9, <1>10, <1>11 DEF Inv

\* The file goes back, whichever way.
LEMMA MoveBackStep ==
    ASSUME Inv, Quiet, MoveBack
    PROVE  Inv' /\ NoneLost
<1> DEFINE c == cli.id
<1>0. /\ cli # Idle /\ cli.pc = "move"
      /\ UNCHANGED <<manifest, clock, created, ring, blocks, stash, reply,
                     promised>>
  BY NotIdle DEF MoveBack, CliPcs
<1>1. /\ c \in Ids /\ cli.beside \in BOOLEAN /\ cli.m.mark \in BOOLEAN
      /\ body[c] # None /\ body[c] \in Files
      /\ ~cli.beside => at[c[1]] = None
      /\ body[c].data = cli.m.blocked /\ body[c].mark = cli.m.mark
  <2>1. c \in Ids /\ cli.beside \in BOOLEAN /\ cli.m \in Manifests
    BY <1>0, CliFields DEF Inv
  <2>2. body[c] # None /\ (~cli.beside => at[c[1]] = None)
    BY <1>0 DEF Inv, CliInv
  <2>3. body[c].data = cli.m.blocked /\ body[c].mark = cli.m.mark
    BY <1>0, <2>2, CliFacts
  <2> QED
    BY <2>1, <2>2, <2>3, Places DEF Inv, Manifests
<1>2. lastIno \in 0 .. INODES /\ lastIno \in Nat /\ lastIno >= lastIno
  BY QuarantineAssumption DEF Inv, TypeOK
<1>3. /\ "chmod" \in CliPcs \ {"move"} /\ "remove" \in CliPcs \ {"move"}
  BY DEF CliPcs
<1>4. CASE /\ c[1] \notin OtherFs /\ Put(body[c])
           /\ body' = [body EXCEPT ![c] = None] /\ Step("chmod")
           /\ UNCHANGED lastIno
  <2>1. CASE ~cli.beside
    <3>1. at' = [at EXCEPT ![c[1]] = body[c]] /\ UNCHANGED beside
      BY <1>4, <2>1 DEF Put
    <3> QED
      BY <1>0, <1>4, <2>1, <3>1, RenameBack
  <2>2. CASE cli.beside
    <3>1. beside' = [beside EXCEPT ![c] = body[c]] /\ UNCHANGED at
      BY <1>4, <2>2 DEF Put
    <3>2. /\ body' \in [Ids -> Files \cup {None}] /\ body'[c] = None
          /\ \A k \in Ids : k # c => body'[k] = body[k]
      BY <1>1, <1>4 DEF Inv, TypeOK
    <3>3. Fits(body[c], "chmod")
      BY <1>1 DEF Fits
    <3> QED
      BY <1>0, <1>1, <1>2, <1>3, <1>4, <2>2, <3>1, <3>2, <3>3, BesideStep
  <2> QED
    BY <2>1, <2>2
<1>5. CASE /\ c[1] \in OtherFs /\ Dest # None
           /\ Put([Dest EXCEPT !.data = body[c].data, !.mode = body[c].mode])
           /\ Step("remove") /\ UNCHANGED <<lastIno, body>>
  <2> DEFINE f == [Dest EXCEPT !.data = body[c].data, !.mode = body[c].mode]
  <2>1. cli.beside /\ Dest = beside[c] /\ Dest \in Files
    BY <1>0, <1>1, <1>5, DestType DEF Dest, Inv
  <2>2. f \in Files /\ f.data = body[c].data /\ f.mark = Dest.mark
    BY <1>1, <2>1 DEF Files
  <2>3. Put(f)
    BY <1>5
  <2> HIDE DEF f
  <2>4. beside' = [beside EXCEPT ![c] = f] /\ UNCHANGED at
    BY <2>1, <2>3 DEF Put
  <2>5. beside[c].mark => cli.m.mark
    BY <1>0, <1>5, <2>1, CliFacts
  <2>6. Fits(f, "remove")
    BY <1>1, <1>5, <2>1, <2>2, <2>5 DEF Fits
  <2>7. /\ body' \in [Ids -> Files \cup {None}] /\ body'[c] \in {None, body[c]}
        /\ \A k \in Ids : k # c => body'[k] = body[k]
    BY <1>5 DEF Inv, TypeOK
  <2> QED
    BY <1>0, <1>2, <1>3, <1>5, <2>1, <2>2, <2>4, <2>6, <2>7, BesideStep
<1>6. CASE /\ c[1] \in OtherFs /\ Dest = None
           /\ \E i \in FreshInos :
                 /\ Put([body[c] EXCEPT !.ino = i, !.mark = FALSE,
                                        !.owner = "root"])
                 /\ lastIno' = IF i > lastIno THEN i ELSE lastIno
           /\ Step("remove") /\ UNCHANGED body
  <2>1. PICK i \in FreshInos :
           /\ Put([body[c] EXCEPT !.ino = i, !.mark = FALSE, !.owner = "root"])
           /\ lastIno' = IF i > lastIno THEN i ELSE lastIno
    BY <1>6
  <2>2. i = lastIno + 1 /\ i <= INODES
    BY QuietFacts
  <2>3. lastIno + 1 > lastIno
    BY <1>2
  <2>4. lastIno' = lastIno + 1 /\ lastIno + 1 <= INODES
    BY <2>1, <2>2, <2>3
  <2>5. lastIno' \in 0 .. INODES /\ lastIno' >= lastIno
    BY <1>2, <2>4, QuarantineAssumption
  <2> DEFINE f == [body[c] EXCEPT !.ino = lastIno + 1, !.mark = FALSE,
                                  !.owner = "root"]
  <2>6. Put(f)
    BY <2>1, <2>2
  <2>7. CASE ~cli.beside
    <3>1. at' = [at EXCEPT ![c[1]] = f] /\ UNCHANGED beside
      BY <2>6, <2>7 DEF Put
    <3> QED
      BY <1>0, <1>6, <2>4, <2>7, <3>1, CopyBack
  <2>8. CASE cli.beside
    <3>0. lastIno + 1 \in 0 .. INODES
      BY <2>4, <2>5
    <3>1. f \in Files /\ f.data = body[c].data /\ f.mark = FALSE
      BY <1>1, <3>0 DEF Files
    <3> HIDE DEF f
    <3>2. beside' = [beside EXCEPT ![c] = f] /\ UNCHANGED at
      BY <2>6, <2>8 DEF Put
    <3>3. Fits(f, "remove")
      BY <1>1, <1>6, <3>1 DEF Fits
    <3>4. /\ body' \in [Ids -> Files \cup {None}] /\ body'[c] \in {None, body[c]}
          /\ \A k \in Ids : k # c => body'[k] = body[k]
      BY <1>6 DEF Inv, TypeOK
    <3> QED
      BY <1>0, <1>3, <1>6, <2>5, <2>8, <3>1, <3>2, <3>3, <3>4, BesideStep
  <2> QED
    BY <2>7, <2>8
<1>7. CASE cli' = Idle /\ UNCHANGED <<at, beside, body, lastIno>>
  BY <1>0, <1>7, CliEndStep DEF disk, alloc
<1> QED
  BY <1>4, <1>5, <1>6, <1>7 DEF MoveBack

\* The copied body goes: its content is elsewhere by then.
LEMMA RemoveBodyStep ==
    ASSUME Inv, Quiet, RemoveBody
    PROVE  Inv' /\ NoneLost
<1> DEFINE c == cli.id
<1>0. /\ cli # Idle /\ cli.pc = "remove" /\ Step("chmod")
      /\ UNCHANGED <<at, beside, manifest, clock, created, lastIno, ring, blocks,
                     stash, reply, promised>>
  BY NotIdle DEF RemoveBody, CliPcs, alloc
<1>1. body' = [body EXCEPT ![c] = None]
  <2>1. PICK ok \in Result("soft") :
           body' = IF ok THEN [body EXCEPT ![cli.id] = None] ELSE body
    BY DEF RemoveBody
  <2>2. ok = TRUE
    BY QuietFacts
  <2> QED
    BY <2>1, <2>2
<1>2. /\ c \in Ids /\ c \notin promised /\ (stash # Idle => stash.id # c)
      /\ manifest[c] = cli.m
      /\ body[c] # None => body[c].data = cli.m.blocked
  BY <1>0, CliFacts
<1>3. /\ body' \in [Ids -> Files \cup {None}] /\ body'[c] = None
      /\ \A k \in Ids : k # c => body'[k] = body[k]
  BY <1>1, <1>2 DEF Inv, TypeOK
<1>4. /\ cli' \in [pc : CliPcs, id : Ids, m : Manifests, beside : BOOLEAN]
      /\ cli' # Idle /\ cli'.pc = "chmod" /\ cli'.id = c
      /\ cli'.m = cli.m /\ cli'.beside = cli.beside
  BY <1>0, StepFields DEF Step, Inv, CliPcs
<1>5. TypeOK'
  BY <1>0, <1>3, <1>4 DEF Inv, TypeOK, CliPcs
<1>6. InoInv'
  <2>1. \A m \in Names : \A i, d : Owned(m, i, d)' => Owned(m, i, d)
    BY <1>0, <1>3 DEF Owned
  <2>2. created' >= created /\ lastIno' >= lastIno
    BY <1>0, QuarantineAssumption DEF Inv, TypeOK
  <2> QED
    BY <1>5, <2>1, <2>2, OwnedLess DEF Inv
<1>7. PlaceInv' /\ StoreInv'
  BY <1>0, <1>3 DEF Inv, PlaceInv, StoreInv
<1>8. StashInv'
  <2>1. stash # Idle => stash.id \in Ids /\ body'[stash.id] = body[stash.id]
    BY <1>2, <1>3, StashFields DEF Inv
  <2> QED
    BY <1>0, <2>1 DEF Inv, StashInv
<1>9. CliInv'
  <2>1. Dest' = Dest
    BY <1>0, <1>4 DEF Dest
  <2> QED
    BY <1>0, <1>2, <1>4, <2>1 DEF Inv, CliInv
<1>10. PromisedInv'
  BY <1>0, <1>2, <1>3, <1>4 DEF Inv, TypeOK, PromisedInv
<1>11. NoneLost
  <2> SUFFICES ASSUME NEW d, d # NoData, Holds(d) PROVE Holds(d)'
    BY DEF NoneLost
  <2>1. ASSUME Elsewhere(c, d) PROVE Holds(d)'
    BY <1>0, <1>3, <2>1 DEF Elsewhere, Holds
  <2>2. Elsewhere(c, cli.m.blocked)
    BY <1>0 DEF Inv, CliInv
  <2>3. Elsewhere(c, d)
    BY <1>2, <2>2 DEF Holds, Elsewhere
  <2> QED
    BY <2>1, <2>3
<1> QED
  BY <1>5, <1>6, <1>7, <1>8, <1>9, <1>10, <1>11 DEF Inv

\* A call that changes the mode, the owner or the mark of the restored file.
LEMMA AmendStep ==
    ASSUME Inv, cli # Idle, Dest # None, NEW f \in Files,
           NEW p \in CliPcs \ {"move", "remove"}, Step(p), Fits(f, p), Put(f),
           f.ino = Dest.ino, f.data = Dest.data,
           cli.id[1] \notin OtherFs => f.mark = Dest.mark,
           UNCHANGED <<body, manifest, clock, alloc, ring, blocks, stash, reply,
                       promised>>
    PROVE  Inv' /\ NoneLost
<1> DEFINE n == cli.id[1]
<1>0. /\ cli.id \in Ids /\ n \in Names /\ cli.beside \in BOOLEAN
  BY CliFields, IdsOfNames DEF Inv
<1>1. /\ lastIno' \in 0 .. INODES /\ lastIno' >= lastIno /\ created' >= created
      /\ created' = created /\ lastIno' = lastIno
      /\ body' \in [Ids -> Files \cup {None}]
  BY QuarantineAssumption DEF Inv, TypeOK, alloc
<1>2. CASE cli.beside
  <2>1. beside' = [beside EXCEPT ![cli.id] = f] /\ UNCHANGED at
    BY <1>2 DEF Put
  <2> QED
    BY <1>1, <1>2, <2>1, BesideStep
<1>3. CASE ~cli.beside
  <2>1. at' = [at EXCEPT ![n] = f] /\ UNCHANGED beside
    BY <1>3 DEF Put
  <2>2. /\ at[n] # None /\ f.ino = at[n].ino /\ f.data = at[n].data
        /\ n \notin OtherFs => f.mark = at[n].mark
    BY <1>3 DEF Dest
  <2>3. TypeOK' /\ StoreInv' /\ CliInv' /\ PromisedInv' /\ NoneLost
    BY <1>1, <1>3, <2>1, <2>2, PathStep
  <2>4. \A m \in Names : /\ at'[m] # None <=> at[m] # None
                         /\ at'[m] # None => /\ at'[m].ino = at[m].ino
                                             /\ at'[m].data = at[m].data
                         /\ m \notin OtherFs /\ at[m] # None
                               => at'[m].mark = at[m].mark
    BY <1>0, <2>1, <2>2, NoneIsNoFile DEF Inv, TypeOK
  <2>5. InoInv'
    <3>1. \A m \in Names : \A i, d : Owned(m, i, d)' => Owned(m, i, d)
      BY <2>4 DEF Owned
    <3> QED
      BY <1>1, <2>3, <3>1, OwnedLess DEF Inv
  <2>6. PlaceInv'
    BY <2>4, IdsOfNames DEF Inv, PlaceInv
  <2>7. StashInv'
    <3>1. stash # Idle => stash.name \in Names
      BY StashFields DEF Inv
    <3> QED
      BY <2>1, <2>4, <3>1 DEF Inv, StashInv
  <2> QED
    BY <2>3, <2>5, <2>6, <2>7 DEF Inv
<1> QED
  BY <1>0, <1>2, <1>3

\* A call that changes nothing: what is at the destination, if anything is,
\* already fits.
LEMMA PassStep ==
    ASSUME Inv, cli # Idle, cli.pc # "move",
           NEW p \in CliPcs \ {"move", "remove"}, Step(p),
           Dest = None \/ Fits(Dest, p),
           UNCHANGED <<at, beside, body, manifest, clock, alloc, ring, blocks,
                       stash, reply, promised>>
    PROVE  Inv' /\ NoneLost
<1>1. /\ cli' \in [pc : CliPcs, id : Ids, m : Manifests, beside : BOOLEAN]
      /\ cli' # Idle /\ cli'.pc = p /\ cli'.id = cli.id
      /\ cli'.m = cli.m /\ cli'.beside = cli.beside
  BY StepFields DEF Step, Inv
<1>2. TypeOK'
  BY <1>1 DEF Inv, TypeOK, alloc, CliPcs
<1>3. Dest' = Dest
  BY <1>1 DEF Dest
<1>4. CliInv'
  BY <1>1, <1>3 DEF Inv, CliInv, Fits
<1>5. PromisedInv'
  BY <1>1 DEF Inv, PromisedInv
<1> QED
  BY <1>2, <1>4, <1>5, CliFrame DEF disk

\* set_permissions.
LEMMA ChmodDestStep ==
    ASSUME Inv, Quiet, ChmodDest
    PROVE  Inv' /\ NoneLost
<1> DEFINE f == [Dest EXCEPT !.mode = "run"]
<1>0. /\ cli # Idle /\ cli.pc = "chmod" /\ Step("chown")
      /\ UNCHANGED <<body, manifest, clock, alloc, ring, blocks, stash, reply,
                     promised>>
      /\ "chown" \in CliPcs \ {"move", "remove"}
  BY NotIdle DEF ChmodDest, CliPcs
<1>1. Amend(TRUE, f)
  <2>1. PICK ok \in Result("soft") : Amend(ok, f)
    BY DEF ChmodDest
  <2>2. ok = TRUE
    BY QuietFacts
  <2> QED
    BY <2>1, <2>2
<1>2. CASE Dest = None
  <2>1. UNCHANGED <<at, beside>>
    BY <1>1, <1>2 DEF Amend
  <2> QED
    BY <1>0, <1>2, <2>1, PassStep
<1>3. CASE Dest # None
  <2>1. Dest \in Files
    BY <1>0, <1>3, DestType DEF Inv
  <2>2. /\ f \in Files /\ f.ino = Dest.ino /\ f.data = Dest.data
        /\ f.mark = Dest.mark /\ f.mode = "run"
    BY <2>1 DEF Files
  <2>3. Put(f)
    BY <1>1, <1>3 DEF Amend
  <2> HIDE DEF f
  <2>4. Fits(f, "chown")
    BY <1>0, <1>3, <2>2 DEF Inv, CliInv, Fits
  <2> QED
    BY <1>0, <1>3, <2>2, <2>3, <2>4, AmendStep
<1> QED
  BY <1>2, <1>3

\* chown, or the end of the command if it fails.
LEMMA ChownDestStep ==
    ASSUME Inv, ChownDest
    PROVE  Inv' /\ NoneLost
<1> DEFINE f == [Dest EXCEPT !.owner = cli.m.owner]
<1>0. /\ cli # Idle /\ cli.pc = "chown"
      /\ UNCHANGED <<body, manifest, clock, alloc, ring, blocks, stash, reply,
                     promised>>
      /\ "setxattr" \in CliPcs \ {"move", "remove"}
  BY NotIdle DEF ChownDest, CliPcs
<1>1. CASE Dest # None /\ Amend(TRUE, f) /\ Step("setxattr")
  <2>1. Dest \in Files /\ cli.m \in Manifests
    BY <1>0, <1>1, DestType, CliFields DEF Inv
  <2>2. /\ f \in Files /\ f.ino = Dest.ino /\ f.data = Dest.data
        /\ f.mark = Dest.mark /\ f.mode = Dest.mode /\ f.owner = cli.m.owner
    BY <2>1 DEF Files, Manifests
  <2>3. Put(f)
    BY <1>1 DEF Amend
  <2> HIDE DEF f
  <2>4. Fits(f, "setxattr")
    BY <1>0, <1>1, <2>2 DEF Inv, CliInv, Fits
  <2> QED
    BY <1>0, <1>1, <2>2, <2>3, <2>4, AmendStep
<1>2. CASE cli' = Idle /\ UNCHANGED <<at, beside>>
  BY <1>0, <1>2, CliEndStep DEF disk
<1> QED
  BY <1>1, <1>2 DEF ChownDest

\* The mark, put back where copying lost it.
LEMMA MarkDestStep ==
    ASSUME Inv, Quiet, MarkDest
    PROVE  Inv' /\ NoneLost
<1> DEFINE f == [Dest EXCEPT !.mark = TRUE]
<1>0. /\ cli # Idle /\ cli.pc = "setxattr" /\ Step("forget")
      /\ UNCHANGED <<body, manifest, clock, alloc, ring, blocks, stash, reply,
                     promised>>
      /\ "forget" \in CliPcs \ {"move", "remove"}
  BY NotIdle DEF MarkDest, CliPcs
<1>1. Amend(cli.m.mark, f)
  <2>1. PICK ok \in Result("soft") : Amend(ok /\ cli.m.mark, f)
    BY DEF MarkDest
  <2>2. ok = TRUE
    BY QuietFacts
  <2> QED
    BY <2>1, <2>2 DEF Amend
<1>2. cli.m \in Manifests
  BY <1>0, CliFields DEF Inv
<1>3. CASE Dest = None
  <2>1. UNCHANGED <<at, beside>>
    BY <1>1, <1>3 DEF Amend
  <2> QED
    BY <1>0, <1>3, <2>1, PassStep
<1>4. CASE Dest # None /\ ~cli.m.mark
  <2>1. UNCHANGED <<at, beside>>
    BY <1>1, <1>4 DEF Amend
  <2>2. Dest \in Files
    BY <1>0, <1>4, DestType DEF Inv
  <2>3. Dest.mark \in BOOLEAN /\ cli.m.mark \in BOOLEAN
    BY <1>2, <2>2 DEF Files, Manifests
  <2>4. Fits(Dest, "forget")
    BY <1>0, <1>4, <2>3 DEF Inv, CliInv, Fits
  <2> QED
    BY <1>0, <2>1, <2>4, PassStep
<1>5. CASE Dest # None /\ cli.m.mark
  <2>1. Dest \in Files
    BY <1>0, <1>5, DestType DEF Inv
  <2>2. /\ f \in Files /\ f.ino = Dest.ino /\ f.data = Dest.data
        /\ f.mark = TRUE /\ f.mode = Dest.mode /\ f.owner = Dest.owner
    BY <2>1 DEF Files
  <2>3. Put(f)
    BY <1>1, <1>5 DEF Amend
  <2> HIDE DEF f
  <2>4. cli.m.mark = TRUE
    BY <1>2, <1>5 DEF Manifests
  <2>5. Fits(f, "forget") /\ (cli.id[1] \notin OtherFs => f.mark = Dest.mark)
    BY <1>0, <1>5, <2>2, <2>4 DEF Inv, CliInv, Fits
  <2> QED
    BY <1>0, <1>5, <2>2, <2>3, <2>5, AmendStep
<1> QED
  BY <1>3, <1>4, <1>5

\* The manifest goes.
LEMMA ForgetStep ==
    ASSUME Inv, Quiet, Forget
    PROVE  Inv' /\ NoneLost
<1> DEFINE c == cli.id
<1>0. /\ cli # Idle /\ cli' = Idle
      /\ UNCHANGED <<at, beside, body, clock, created, lastIno, ring, blocks,
                     stash, reply, promised>>
  BY NotIdle DEF Forget, CliPcs, alloc
<1>1. manifest' = [manifest EXCEPT ![c] = None]
  <2>1. PICK ok \in Result("soft") :
           manifest' = IF ok THEN [manifest EXCEPT ![cli.id] = None] ELSE manifest
    BY DEF Forget
  <2>2. ok = TRUE
    BY QuietFacts
  <2> QED
    BY <2>1, <2>2
<1>2. c \in Ids /\ c \notin promised /\ (stash # Idle => stash.id # c)
  BY <1>0, CliFacts
<1>3. /\ manifest' \in [Ids -> Manifests \cup {None}] /\ manifest'[c] = None
      /\ \A k \in Ids : k # c => manifest'[k] = manifest[k]
  BY <1>1, <1>2 DEF Inv, TypeOK
<1>4. TypeOK'
  BY <1>0, <1>3 DEF Inv, TypeOK
<1>5. InoInv' /\ PlaceInv' /\ NoneLost
  BY <1>0, SameFiles DEF Inv, InoInv, Owned, PlaceInv
<1>6. StoreInv' /\ CliInv'
  BY <1>0, <1>3 DEF Inv, StoreInv, CliInv
<1>7. StashInv'
  <2>1. stash # Idle => stash.id \in Ids /\ manifest'[stash.id] = manifest[stash.id]
    BY <1>2, <1>3, StashFields DEF Inv
  <2> QED
    BY <1>0, <2>1 DEF Inv, StashInv
<1>8. PromisedInv'
  BY <1>0, <1>2, <1>3 DEF Inv, TypeOK, PromisedInv
<1> QED
  BY <1>4, <1>5, <1>6, <1>7, <1>8 DEF Inv

\* Every step of the command.
LEMMA RestoreStepInv ==
    ASSUME Inv, Quiet, RestoreStep \/ CliCrash
    PROVE  Inv' /\ NoneLost
<1>1. CASE CliCrash
  BY <1>1, CliEndStep DEF CliCrash
<1> QED
  BY <1>1, MoveBackStep, RemoveBodyStep, ChmodDestStep, ChownDestStep,
     MarkDestStep, ForgetStep DEF RestoreStep

-----------------------------------------------------------------------------
(* The theorems.                                                           *)

\* Every step keeps the invariant, and one of the daemon or the command
\* loses no content.
LEMMA NextInv ==
    ASSUME Inv, Quiet, [Next]_vars
    PROVE  Inv' /\ (stash' # stash \/ cli' # cli => NoneLost)
<1>1. CASE \E n \in Names : \E mark \in BOOLEAN : Create(n, mark)
  BY <1>1, CreateStep DEF Create
<1>2. CASE \E n \in Names : Remove(n)
  BY <1>2, RemoveStep DEF Remove
<1>3. CASE Tick \/ \E n \in Names : Exec(n)
  BY <1>3, KernelStep DEF Tick, Exec
<1>4. CASE RecordBlock \/ \E n \in Names : Drop(n)
  BY <1>4, RecordStep DEF RecordBlock, Drop
<1>5. CASE \E n \in Names : Quarantine(n)
  BY <1>5, QuarantineStep
<1>6. CASE StashStep
  BY <1>6, StashStepInv
<1>7. CASE DaemonCrash
  BY <1>7, DaemonCrashStep
<1>8. CASE \E id \in Ids : Restore(id)
  BY <1>8, RestoreInv
<1>9. CASE RestoreStep \/ CliCrash
  BY <1>9, RestoreStepInv
<1>10. CASE UNCHANGED vars
  <2>1. /\ UNCHANGED <<disk, alloc, blocks, stash, cli, promised>>
        /\ UNCHANGED <<clock, ring, reply>>
    BY <1>10 DEF vars, disk, alloc
  <2>2. TypeOK'
    BY <2>1 DEF Inv, TypeOK, disk, alloc
  <2> QED
    BY <2>1, <2>2, FrameStep
<1> QED
  BY <1>1, <1>2, <1>3, <1>4, <1>5, <1>6, <1>7, <1>8, <1>9, <1>10 DEF Next

\* The invariant holds in every reachable state.
THEOREM Invariance ==
    ASSUME Quiet
    PROVE  Spec => []Inv
<1>1. Init => Inv
  BY InitInv
<1>2. Inv /\ [Next]_vars => Inv'
  BY NextInv
<1> QED
  BY <1>1, <1>2, PTL DEF Spec

\* Every variable keeps its type: in particular a manifest always names real
\* content, whatever died or failed while it was made.
THEOREM TypeCorrect ==
    ASSUME Quiet
    PROVE  Spec => []TypeOK
<1>1. Inv => TypeOK
  BY DEF Inv
<1> QED
  BY <1>1, Invariance, PTL

\* An id answered OK can be restored, whatever crashed or failed since, for
\* any number of paths, files and seconds.
THEOREM RestorableTheorem ==
    ASSUME Quiet
    PROVE  Spec => []Restorable
<1>1. Inv => Restorable
  BY DEF Inv, TypeOK, PromisedInv, StoreInv, Restorable
<1> QED
  BY <1>1, Invariance, PTL

\* What is stored is what some file holds.
LEMMA StoredHolds ==
    ASSUME TypeOK
    PROVE  \A d : d \in Stored <=> Holds(d)
<1>1. DOMAIN at = Names /\ DOMAIN beside = Ids /\ DOMAIN body = Ids
  BY DEF TypeOK
<1>2. /\ \A f : f \in Present(at) <=> \E n \in Names : at[n] # None /\ f = at[n]
      /\ \A f : f \in Present(beside)
                   <=> \E k \in Ids : beside[k] # None /\ f = beside[k]
      /\ \A f : f \in Present(body)
                   <=> \E k \in Ids : body[k] # None /\ f = body[k]
  BY <1>1 DEF Present
<1> QED
  BY <1>2 DEF Stored, Holds

\* No step of the daemon or the command destroys the last copy of a file.
THEOREM LostTheorem ==
    ASSUME Quiet
    PROVE  Spec => NothingLost
<1>1. Inv /\ Inv' /\ [Next]_vars =>
         [stash' # stash \/ cli' # cli
            => Stored \ {NoData} \subseteq Stored']_vars
  <2> SUFFICES ASSUME Inv, Inv', [Next]_vars, stash' # stash \/ cli' # cli,
                      NEW d \in Stored, d # NoData
               PROVE  d \in Stored'
    OBVIOUS
  <2>1. NoneLost
    BY NextInv
  <2>2. Holds(d)
    BY StoredHolds DEF Inv
  <2>3. Holds(d)'
    BY <2>1, <2>2 DEF NoneLost
  <2>4. TypeOK'
    BY DEF Inv
  <2>5. \A e : e \in Stored' <=> Holds(e)'
    <3>1. DOMAIN at' = Names /\ DOMAIN beside' = Ids /\ DOMAIN body' = Ids
      BY <2>4 DEF TypeOK
    <3>2. /\ \A f : f \in Present(at')
                      <=> \E n \in Names : at'[n] # None /\ f = at'[n]
          /\ \A f : f \in Present(beside')
                      <=> \E k \in Ids : beside'[k] # None /\ f = beside'[k]
          /\ \A f : f \in Present(body')
                      <=> \E k \in Ids : body'[k] # None /\ f = body'[k]
      BY <3>1 DEF Present
    <3> QED
      BY <3>2 DEF Stored, Holds
  <2> QED
    BY <2>3, <2>5
<1> QED
  BY <1>1, Invariance, PTL DEF Spec, NothingLost

\* A restore that comes to its end has put back what was blocked, with its
\* mark, mode and owner, whichever filesystem it went to.
THEOREM RoundTripTheorem ==
    ASSUME Quiet
    PROVE  Spec => RoundTrip
<1>1. Inv => (cli.pc = "forget" /\ Dest # None =>
                /\ Dest.data = cli.m.blocked /\ Dest.mark = cli.m.mark
                /\ Dest.mode = "run" /\ Dest.owner = cli.m.owner)
  BY NotIdle DEF Inv, CliInv, CliPcs
<1> QED
  BY <1>1, Invariance, PTL DEF Spec, RoundTrip

\* A refusal as possible tampering is never about the file that was recorded.
THEOREM TamperTheorem ==
    ASSUME Quiet
    PROVE  Spec => TamperTrue
<1>1. Inv => [\A n \in Names \ OtherFs :
                 /\ at[n] # None /\ blocks[n] # None
                 /\ at[n].data = blocks[n].data
                 /\ Quarantine(n)
                 => reply' # "TAMPER"]_vars
  <2> SUFFICES ASSUME Inv, NEW n \in Names \ OtherFs,
                      at[n] # None, blocks[n] # None,
                      at[n].data = blocks[n].data, Quarantine(n)
               PROVE  reply' # "TAMPER"
    OBVIOUS
  <2>1. at[n].data # 0
    BY DEF Inv, PlaceInv
  <2>2. at[n].ino = blocks[n].ino
    BY <2>1, InoFacts DEF Inv
  <2>3. reply' = "none"
    BY <2>2 DEF Quarantine, IsBlocked
  <2> QED
    BY <2>3
<1> QED
  BY <1>1, Invariance, PTL DEF Spec, TamperTrue

\* While a request is under way there is no answer yet.
Unanswered == stash # Idle => reply = "none"

\* Whatever happens, an answer ends the request.
LEMMA UnansweredInv == Spec => []Unanswered
<1>1. Init => Unanswered
  BY DEF Init, Unanswered
<1>2. Unanswered /\ [Next]_vars => Unanswered'
  <2> SUFFICES ASSUME Unanswered, [Next]_vars PROVE Unanswered'
    OBVIOUS
  <2>1. CASE \E n \in Names : Quarantine(n)
    BY <2>1 DEF Unanswered, Quarantine, Err
  <2>2. CASE StashStep
    <3>1. stash # Idle
      BY <2>2, NotIdle DEF StashStep, MoveBody, ChmodBody, CopyBody,
         CompareOriginal, UnlinkOriginal, WriteManifest, StashPcs
    <3>2. stash' = Idle \/ reply' = reply
      BY <2>2 DEF StashStep, MoveBody, ChmodBody, CopyBody, CompareOriginal,
         UnlinkOriginal, WriteManifest, Goto, Err
    <3> QED
      BY <3>1, <3>2 DEF Unanswered
  <2>3. CASE DaemonCrash
    BY <2>3 DEF DaemonCrash, Unanswered
  <2>4. CASE UNCHANGED <<stash, reply>>
    BY <2>4 DEF Unanswered
  <2>5. CASE \/ \E n \in Names : \/ \E mark \in BOOLEAN : Create(n, mark)
                                 \/ Remove(n) \/ Exec(n) \/ Drop(n)
             \/ \E id \in Ids : Restore(id)
             \/ RecordBlock \/ Tick \/ CliCrash
    BY <2>4, <2>5 DEF Create, Remove, Exec, Drop, Restore, RecordBlock, Tick,
       CliCrash
  <2>6. CASE RestoreStep
    BY <2>4, <2>6 DEF RestoreStep, MoveBack, RemoveBody, ChmodDest, ChownDest,
       MarkDest, Forget
  <2>7. CASE UNCHANGED vars
    BY <2>4, <2>7 DEF vars
  <2> QED
    BY <2>1, <2>2, <2>3, <2>5, <2>6, <2>7 DEF Next
<1> QED
  BY <1>1, <1>2, PTL DEF Spec

\* When the daemon answers OK, the blocked file is no longer at its path.
THEOREM NeutralisedTheorem ==
    ASSUME Quiet
    PROVE  Spec => Neutralised
<1>1. Inv /\ Unanswered /\ [Next]_vars =>
         [stash # Idle /\ reply' = "OK" =>
            at[stash.name] = None \/ at[stash.name].ino # stash.fd.ino]_vars
  <2> SUFFICES ASSUME Inv, Unanswered, [Next]_vars, stash # Idle, reply' = "OK"
               PROVE  at[stash.name] = None \/ at[stash.name].ino # stash.fd.ino
    OBVIOUS
  <2>1. reply # "OK"
    BY DEF Unanswered
  <2>2. WriteManifest
    <3>1. ~(\E n \in Names : Quarantine(n))
      BY DEF Quarantine
    <3>2. ~(MoveBody \/ ChmodBody \/ CopyBody \/ CompareOriginal
              \/ UnlinkOriginal \/ DaemonCrash)
      BY <2>1 DEF MoveBody, ChmodBody, CopyBody, CompareOriginal, UnlinkOriginal,
         DaemonCrash, Goto, Err
    <3>3. ~(\/ \E n \in Names : \/ \E mark \in BOOLEAN : Create(n, mark)
                                \/ Remove(n) \/ Exec(n) \/ Drop(n)
            \/ \E id \in Ids : Restore(id)
            \/ RecordBlock \/ Tick \/ CliCrash)
      BY <2>1 DEF Create, Remove, Exec, Drop, Restore, RecordBlock, Tick, CliCrash
    <3>4. ~RestoreStep /\ ~(UNCHANGED vars)
      BY <2>1 DEF RestoreStep, MoveBack, RemoveBody, ChmodDest, ChownDest,
         MarkDest, Forget, vars
    <3> QED
      BY <3>1, <3>2, <3>3, <3>4 DEF Next, StashStep
  <2>3. stash.pc = "manifest"
    BY <2>2 DEF WriteManifest
  <2> QED
    BY <2>3 DEF Inv, StashInv
<1> QED
  BY <1>1, Invariance, UnansweredInv, PTL DEF Spec, Neutralised
=============================================================================
