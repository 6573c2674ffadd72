--------------------------- MODULE PathWalkProofs ---------------------------
(***************************************************************************)
(* Theorems about PathWalk: whatever paths there are, however deep, and    *)
(* however many tasks share the CPU, a finished hook went by the record of *)
(* its own file and, unless the CPU changes hands in the middle of a walk, *)
(* by the hashes of its own path.                                          *)
(***************************************************************************)
EXTENDS PathWalk, TLAPS

-----------------------------------------------------------------------------
(* Remainders.                                                             *)

N == MAX_FOLDER_ANCESTORS

\* A masked index is an index of the array.
LEMMA ModRange ==
    ASSUME NEW k \in Nat
    PROVE  k % N \in Index
  BY AncestorsAssumption DEF N, Index

\* The only multiple of N between -N and N is zero.
LEMMA Multiple ==
    ASSUME NEW q \in Int, -N < N * q, N * q < N
    PROVE  q = 0
  <1>1. N \in Nat /\ N > 0
    BY AncestorsAssumption DEF N
  <1> HIDE DEF N
  <1>2. CASE q >= 1
    <2>1. PICK r \in Nat : q = r + 1
      BY <1>2
    <2>2. N * q = N * r + N /\ N * r >= 0
      BY <1>1, <2>1
    <2> QED BY <1>1, <2>2
  <1>3. CASE q <= -1
    <2>1. PICK r \in Nat : q = -1 - r
      BY <1>3
    <2>2. N * q = -N - N * r /\ N * r >= 0
      BY <1>1, <2>1
    <2> QED BY <1>1, <2>2
  <1> QED BY <1>2, <1>3

\* A remainder differs from the number by a multiple of N.
LEMMA Division ==
    ASSUME NEW k \in Nat
    PROVE  \E q \in Int : k % N = k - N * q
  <1>1. N \in Nat \ {0}
    BY AncestorsAssumption DEF N
  <1> HIDE DEF N
  <1>2. k \div N \in Int /\ k % N = k - N * (k \div N)
    BY <1>1
  <1> QED BY <1>2

\* Indices a whole array apart fall on the same slot.
LEMMA ModAdd ==
    ASSUME NEW k \in Nat
    PROVE  (k + N) % N = k % N
  <1> DEFINE r == k % N
             s == (k + N) % N
  <1>1. N \in Nat /\ N > 0 /\ k + N \in Nat
    BY AncestorsAssumption DEF N
  <1>2. PICK a \in Int : r = k - N * a
    BY <1>1, Division
  <1>3. PICK b \in Int : s = k + N - N * b
    BY <1>1, Division
  <1>0. r \in 0 .. N - 1 /\ s \in 0 .. N - 1
    BY <1>1, ModRange DEF Index, N
  <1> HIDE DEF N, r, s
  <1>4. N * (b - a - 1) = r - s
    <2>1. N * (b - a - 1) = N * b - N * a - N
      BY <1>1, <1>2, <1>3
    <2>2. N * b \in Int /\ N * a \in Int
      BY <1>1, <1>2, <1>3
    <2> QED BY <1>0, <1>1, <1>2, <1>3, <2>1, <2>2
  <1>5. b - a - 1 = 0
    BY <1>0, <1>1, <1>2, <1>3, <1>4, Multiple
  <1>6. N * (b - a - 1) = 0
    BY <1>1, <1>5
  <1>7. r = s
    BY <1>0, <1>1, <1>4, <1>6
  <1> QED BY <1>7 DEF r, s

\* Indices less than an array apart fall on different slots.
LEMMA ModUnique ==
    ASSUME NEW k \in Nat, NEW m \in Nat, k <= m, m < k + N, k % N = m % N
    PROVE  k = m
  <1> DEFINE r == k % N
  <1>1. N \in Nat /\ N > 0
    BY AncestorsAssumption DEF N
  <1>2. PICK a \in Int : r = k - N * a
    BY <1>1, Division
  <1>3. PICK b \in Int : r = m - N * b
    BY <1>1, Division
  <1>0. r \in 0 .. N - 1
    BY ModRange DEF Index, N
  <1> HIDE DEF N, r
  <1>4. N * (b - a) = m - k
    <2>1. N * (b - a) = N * b - N * a
      BY <1>1, <1>2, <1>3
    <2>2. N * b \in Int /\ N * a \in Int
      BY <1>1, <1>2, <1>3
    <2> QED BY <1>0, <1>1, <1>2, <1>3, <2>1, <2>2
  <1>5. b - a = 0
    BY <1>1, <1>2, <1>3, <1>4, Multiple
  <1>6. N * (b - a) = 0
    BY <1>1, <1>5
  <1> QED BY <1>4, <1>6

-----------------------------------------------------------------------------
(* Prefixes.                                                               *)

\* The components of all paths.
Comps == UNION {{path[k] : k \in DOMAIN path} : path \in Paths}

\* A path is a non-empty sequence of components, none of them a slash, and
\* no prefix of it is the zero hash.
LEMMA PathSeq ==
    ASSUME NEW path \in Paths
    PROVE  /\ path \in Seq(Comps) /\ Len(path) \in Nat \ {0}
           /\ \A k \in 1 .. Len(path) : path[k] \in Comps /\ path[k] # Slash
           /\ \A k \in 0 .. Len(path) - 1 : SubSeq(path, 1, k) # NoHash
  <1>1. path \in Seq({path[k] : k \in DOMAIN path}) /\ path # <<>>
    BY PathsAssumption
  <1>2. {path[k] : k \in DOMAIN path} \subseteq Comps
    BY DEF Comps
  <1>3. path \in Seq(Comps)
    BY <1>1, <1>2
  <1>4. \A k \in 0 .. Len(path) - 1 : SubSeq(path, 1, k) # NoHash
    BY PathsAssumption DEF Ancestors
  <1> QED BY <1>1, <1>3, <1>4, PathsAssumption

\* A prefix and the next component make the next prefix.
LEMMA PrefixStep ==
    ASSUME NEW path \in Paths, NEW k \in 0 .. Len(path) - 1
    PROVE  /\ SubSeq(path, 1, k) \in Seq(Comps)
           /\ Append(SubSeq(path, 1, k), path[k + 1]) = SubSeq(path, 1, k + 1)
  <1>1. path \in Seq(Comps) /\ Len(path) \in Nat \ {0}
    BY PathSeq
  <1> QED BY <1>1

\* The shortest prefix is the root, the longest the path.
LEMMA PrefixEnds ==
    ASSUME NEW path \in Paths
    PROVE  SubSeq(path, 1, 0) = <<>> /\ SubSeq(path, 1, Len(path)) = path
  <1>1. path \in Seq(Comps) /\ Len(path) \in Nat \ {0}
    BY PathSeq
  <1> QED BY <1>1

-----------------------------------------------------------------------------
(* Type correctness.                                                       *)

Hashes == Seq(Comps) \cup {NoHash}
HookStates ==
    [prog : Progs \cup {"none"}, at : {"idle", "xattr", "path", "walk", "rules"},
     file : Paths \cup {NoFile}, src : Paths \cup {NoFile},
     have_storage : BOOLEAN, i : Nat \ {0}, full : Seq(Comps),
     comp : Comps \cup {NoHash}, folder : Hashes, count : Nat]

\* Every variable but the ghost keeps its type, and a hook that is under way
\* has a program and a file.
TypeInv ==
    /\ SCRATCH \in [{0, 1} -> Paths \cup {NoFile}]
    /\ PATH_SCRATCH \in Paths \cup {NoFile}
    /\ WALK_ANC \in [Index -> Hashes]
    /\ TARGET_ANCESTORS \in [Index -> Hashes]
    /\ hook \in [Tasks -> HookStates]
    /\ \A t \in Tasks : hook[t].at # "idle" => hook[t].prog \in Progs /\ hook[t].file \in Paths
    /\ cpu \in Tasks \cup {Nobody}

\* Each program has one of two record slots.
LEMMA SlotType ==
    ASSUME NEW prog
    PROVE  Slot(prog) \in {0, 1}
  BY DEF Slot

\* A task in no hook has a state of the right type.
LEMMA IdleType == Idle \in HookStates
  <1>1. <<>> \in Seq(Comps)
    OBVIOUS
  <1> QED BY <1>1 DEF Idle, HookStates, NoFile, Hashes

\* The record a hook starts with.
Entered(prog, file, stored) ==
    [Idle EXCEPT !.prog = prog, !.file = file, !.have_storage = stored # "none",
                 !.at = IF stored = "full" THEN "path" ELSE "xattr"]

\* The state of a hook that has just begun.
LEMMA EnteredType ==
    ASSUME NEW prog \in Progs, NEW file \in Paths,
           NEW stored \in {"none", "partial", "full"}
    PROVE  LET h == Entered(prog, file, stored)
           IN  /\ h \in HookStates /\ h.prog = prog /\ h.file = file
               /\ h.at = (IF stored = "full" THEN "path" ELSE "xattr")
               /\ h.have_storage = (stored # "none")
               /\ h.i = 1 /\ h.full = <<>> /\ h.comp = NoHash
               /\ h.folder = NoHash /\ h.count = 0
  <1> DEFINE at == IF stored = "full" THEN "path" ELSE "xattr"
             have == stored # "none"
  <1>1. at \in {"path", "xattr"} /\ have \in BOOLEAN
    OBVIOUS
  <1>5. Entered(prog, file, stored) =
           [Idle EXCEPT !.prog = prog, !.file = file, !.have_storage = have,
                        !.at = at]
    BY DEF Entered
  <1> HIDE DEF at, have
  <1>2. Entered(prog, file, stored) =
           [prog |-> prog, at |-> at, file |-> file, src |-> NoFile,
            have_storage |-> have, i |-> 1, full |-> <<>>, comp |-> NoHash,
            folder |-> NoHash, count |-> 0]
    BY <1>5 DEF Idle
  <1>3. <<>> \in Seq(Comps)
    OBVIOUS
  <1>4. Entered(prog, file, stored) \in HookStates
    BY <1>1, <1>2, <1>3 DEF HookStates, Hashes, NoFile
  <1> QED BY <1>2, <1>4 DEF at, have

\* A token of the path under a walk is a slash or one of its components.
LEMMA TokenType ==
    ASSUME NEW path \in Paths \cup {NoFile}, NEW k \in Nat, k >= 1,
           k <= Tokens(path)
    PROVE  /\ path \in Paths
           /\ Token(path, k) \in Comps \cup {Slash}
  <1>1. path \in Paths
    BY DEF Tokens, NoFile
  <1>2. Len(path) \in Nat /\ \A n \in 1 .. Len(path) : path[n] \in Comps
    BY <1>1, PathSeq
  <1>3. k % 2 # 1 => k \div 2 \in 1 .. Len(path)
    BY <1>2 DEF Tokens
  <1> QED BY <1>1, <1>2, <1>3 DEF Token

\* What landing_step makes of the walk.
Stepped(t) ==
    LET h == hook[t]
        token == Token(Source(t), h.i)
    IN  IF token = Slash
        THEN [h EXCEPT !.i = h.i + 1, !.folder = h.full, !.count = h.count + 1,
                       !.comp = NoHash]
        ELSE [h EXCEPT !.i = h.i + 1, !.comp = token, !.full = Append(h.full, token)]

\* The state of a hook after one token of the walk.
LEMMA SteppedType ==
    ASSUME TypeInv, NEW t \in Tasks, landing_step(t)
    PROVE  /\ Stepped(t) \in HookStates
           /\ hook' = [hook EXCEPT ![t] = Stepped(t)]
           /\ WALK_ANC' \in [Index -> Hashes]
           /\ LET h == hook[t] IN
              LET k == Stepped(t) IN
              LET token == Token(Source(t), h.i) IN
              /\ k.at = h.at /\ k.prog = h.prog /\ k.file = h.file
              /\ k.src = h.src /\ k.have_storage = h.have_storage
              /\ k.i = h.i + 1
              /\ token = Slash => /\ k.full = h.full /\ k.folder = h.full
                                  /\ k.count = h.count + 1 /\ k.comp = NoHash
              /\ token # Slash => /\ k.full = Append(h.full, token)
                                  /\ k.folder = h.folder
                                  /\ k.count = h.count /\ k.comp = token
  <1> DEFINE h == hook[t]
             token == Token(Source(t), h.i)
  <1>1. h \in HookStates /\ h.i \in Nat \ {0} /\ h.i + 1 \in Nat \ {0}
        /\ h.count + 1 \in Nat /\ h.full \in Hashes
    BY DEF TypeInv, HookStates, Hashes
  <1>2. Source(t) \in Paths \cup {NoFile}
    BY <1>1 DEF Source, HookStates, TypeInv
  <1>3. token \in Comps \cup {Slash}
    BY <1>1, <1>2, TokenType DEF landing_step
  <1>4. hook' = [hook EXCEPT ![t] = Stepped(t)]
    BY DEF landing_step, Stepped
  <1>5. WALK_ANC' \in [Index -> Hashes]
    BY <1>1 DEF landing_step, TypeInv, HookStates, Hashes
  <1>6. CASE token = Slash
    <2>1. Stepped(t) = [h EXCEPT !.i = h.i + 1, !.folder = h.full,
                                 !.count = h.count + 1, !.comp = NoHash]
      BY <1>6 DEF Stepped
    <2> DEFINE i == h.i + 1
               n == h.count + 1
               f == h.full
    <2>3. /\ i \in Nat \ {0} /\ n \in Nat /\ f \in Hashes
          /\ Stepped(t) = [h EXCEPT !.i = i, !.folder = f, !.count = n,
                                    !.comp = NoHash]
      BY <1>1, <2>1
    <2> HIDE DEF h, token, i, n, f
    <2>2. Stepped(t) \in HookStates
      BY <1>1, <2>3 DEF HookStates
    <2> QED BY <1>1, <1>4, <1>5, <1>6, <2>2, <2>3 DEF HookStates, h, token, i, n, f
  <1>7. CASE token # Slash
    <2>1. Stepped(t) = [h EXCEPT !.i = h.i + 1, !.comp = token,
                                 !.full = Append(h.full, token)]
      BY <1>7 DEF Stepped
    <2>2. h.full \in Seq(Comps) /\ token \in Comps
      BY <1>1, <1>3, <1>7 DEF HookStates
    <2>3. Append(h.full, token) \in Seq(Comps)
      BY <2>2
    <2> DEFINE i == h.i + 1
               f == Append(h.full, token)
    <2>5. /\ i \in Nat \ {0} /\ f \in Seq(Comps) /\ token \in Comps \cup {NoHash}
          /\ Stepped(t) = [h EXCEPT !.i = i, !.comp = token, !.full = f]
      BY <1>1, <2>1, <2>2, <2>3
    <2> HIDE DEF h, token, i, f
    <2>4. Stepped(t) \in HookStates
      BY <1>1, <2>5 DEF HookStates
    <2> QED BY <1>1, <1>4, <1>5, <1>7, <2>4, <2>5 DEF HookStates, h, token, i, f
  <1> QED BY <1>6, <1>7

\* Every step keeps every type.
LEMMA TypeStep == TypeInv /\ Next => TypeInv'
  <1> SUFFICES ASSUME TypeInv, NEW t \in Tasks,
                      \/ \E prog \in Progs, file \in Paths,
                            stored \in {"none", "partial", "full"} :
                            Enter(t, prog, file, stored)
                      \/ read_origin_xattr(t) \/ Begin(t) \/ landing_step(t)
                      \/ Finish(t) \/ Judge(t)
               PROVE  TypeInv'
    BY DEF Next
  <1>0. /\ hook[t] \in HookStates /\ hook \in [Tasks -> HookStates] /\ cpu \in Tasks \cup {Nobody}
        /\ SCRATCH \in [{0, 1} -> Paths \cup {NoFile}]
    BY DEF TypeInv
  \* A step that leaves the hook of t idle or changes its place only.
  <1>1. ASSUME NEW h \in HookStates, hook' = [hook EXCEPT ![t] = h],
               h.at # "idle" => h.prog \in Progs /\ h.file \in Paths
        PROVE  /\ hook' \in [Tasks -> HookStates]
               /\ \A u \in Tasks : hook'[u].at # "idle"
                                     => hook'[u].prog \in Progs /\ hook'[u].file \in Paths
    BY <1>0, <1>1 DEF TypeInv
  <1>2. ASSUME NEW at \in {"xattr", "path", "walk", "rules"},
               hook' = [hook EXCEPT ![t].at = at], hook[t].at # "idle"
        PROVE  /\ hook' \in [Tasks -> HookStates]
               /\ \A u \in Tasks : hook'[u].at # "idle"
                                     => hook'[u].prog \in Progs /\ hook'[u].file \in Paths
    <2> DEFINE h == [hook[t] EXCEPT !.at = at]
    <2>1. h \in HookStates /\ h.prog = hook[t].prog /\ h.file = hook[t].file
      BY <1>0 DEF HookStates
    <2>2. hook' = [hook EXCEPT ![t] = h]
      BY <1>0, <1>2
    <2> HIDE DEF h
    <2> QED BY <1>1, <1>2, <2>1, <2>2 DEF TypeInv
  <1>3. ASSUME hook' = [hook EXCEPT ![t] = Idle]
        PROVE  /\ hook' \in [Tasks -> HookStates]
               /\ \A u \in Tasks : hook'[u].at # "idle"
                                     => hook'[u].prog \in Progs /\ hook'[u].file \in Paths
    <2>1. Idle.at = "idle"
      BY DEF Idle
    <2> QED BY <1>1, <1>3, <2>1, IdleType
  <1>4. ASSUME NEW prog \in Progs, NEW file \in Paths,
               NEW stored \in {"none", "partial", "full"},
               Enter(t, prog, file, stored)
        PROVE  TypeInv'
    <2> DEFINE h == Entered(prog, file, stored)
    <2>1. hook' = [hook EXCEPT ![t] = h]
      BY <1>4 DEF Enter, Entered
    <2>2. h \in HookStates /\ h.prog = prog /\ h.file = file
      BY EnteredType
    <2> HIDE DEF h
    <2>3. SCRATCH' \in [{0, 1} -> Paths \cup {NoFile}]
      BY <1>4, SlotType DEF Enter, TypeInv
    <2>4. cpu' \in Tasks \cup {Nobody}
      BY <1>4 DEF Enter
    <2> QED BY <1>1, <1>4, <2>1, <2>2, <2>3, <2>4 DEF Enter, TypeInv
  <1>5. CASE read_origin_xattr(t)
    <2>1. SCRATCH' \in [{0, 1} -> Paths \cup {NoFile}]
      BY <1>0, <1>5, SlotType DEF read_origin_xattr, TypeInv, HookStates
    <2>2. \/ hook' = [hook EXCEPT ![t].at = "path"]
          \/ hook' = [hook EXCEPT ![t] = Idle]
      BY <1>5 DEF read_origin_xattr
    <2>3. cpu' \in Tasks \cup {Nobody} /\ hook[t].at # "idle"
      BY <1>5 DEF read_origin_xattr
    <2> QED BY <1>2, <1>3, <1>5, <2>1, <2>2, <2>3 DEF read_origin_xattr, TypeInv
  <1>6. CASE Begin(t)
    <2> DEFINE h == [hook[t] EXCEPT !.at = "walk", !.src = hook[t].file]
    <2>1. h \in HookStates /\ h.prog = hook[t].prog /\ h.file = hook[t].file
      BY <1>0 DEF HookStates
    <2>2. hook' = [hook EXCEPT ![t] = h]
      BY <1>0, <1>6 DEF Begin
    <2> HIDE DEF h
    <2>3. hook[t].prog \in Progs /\ hook[t].file \in Paths
      BY <1>6 DEF Begin, TypeInv
    <2>4. WALK_ANC' \in [Index -> Hashes]
      BY <1>6 DEF Begin, walk_anc_clear, Zero, Hashes
    <2>5. PATH_SCRATCH' \in Paths \cup {NoFile}
      BY <1>6, <2>3 DEF Begin, TypeInv
    <2> QED BY <1>1, <1>6, <2>1, <2>2, <2>3, <2>4, <2>5 DEF Begin, TypeInv
  <1>7. CASE landing_step(t)
    <2>1. /\ Stepped(t) \in HookStates /\ hook' = [hook EXCEPT ![t] = Stepped(t)]
          /\ WALK_ANC' \in [Index -> Hashes]
          /\ Stepped(t).prog = hook[t].prog /\ Stepped(t).file = hook[t].file
      BY <1>7, SteppedType
    <2>2. hook[t].prog \in Progs /\ hook[t].file \in Paths
      BY <1>7 DEF landing_step, TypeInv
    <2> QED BY <1>1, <1>7, <2>1, <2>2 DEF landing_step, TypeInv
  <1>8. CASE Finish(t)
    <2>1. \/ hook' = [hook EXCEPT ![t] = Idle]
          \/ hook' = [hook EXCEPT ![t].at = "rules"]
      BY <1>8 DEF Finish
    <2>2. hook[t].at # "idle" /\ TARGET_ANCESTORS' \in [Index -> Hashes]
      BY <1>8 DEF Finish, TypeInv
    <2> QED BY <1>2, <1>3, <1>8, <2>1, <2>2 DEF Finish, TypeInv
  <1>9. CASE Judge(t)
    BY <1>3, <1>9 DEF Judge, TypeInv
  <1> QED BY <1>4, <1>5, <1>6, <1>7, <1>8, <1>9

\* The initial state has the right types.
LEMMA TypeInit == Init => TypeInv
  <1>1. Zero \in [Index -> Hashes] /\ Idle.at = "idle"
    BY DEF Zero, Hashes, Idle
  <1> QED BY <1>1, IdleType DEF Init, TypeInv

-----------------------------------------------------------------------------
(* The record.                                                             *)

\* The hook of t relies on its slot of SCRATCH.
HasRecord(t) ==
    hook[t].at \in {"path", "walk", "rules"} \/ (hook[t].at = "xattr" /\ hook[t].have_storage)

\* OwnRecord, and why: no two hooks under way are of the same program, so no
\* other hook writes to the slot in between.
OwnInv ==
    /\ OwnRecord
    /\ \A t \in Tasks : HasRecord(t) => SCRATCH[Slot(hook[t].prog)] = hook[t].file
    /\ \A t, u \in Tasks :
          t # u /\ hook[t].at # "idle" /\ hook[u].at # "idle"
             => ~SameProgram(hook[t].prog, hook[u].prog)

\* Hooks of different programs have different slots.
LEMMA SlotsApart ==
    ASSUME NEW a, NEW b, ~SameProgram(a, b)
    PROVE  Slot(a) # Slot(b)
  BY DEF SameProgram, Slot

\* A step of t that keeps its program, its file and the other tasks' hooks.
LEMMA SameOwn ==
    ASSUME TypeInv, OwnInv, NEW t \in Tasks, NEW h,
           hook' = [hook EXCEPT ![t] = h],
           \/ h.at = "idle"
           \/ hook[t].at # "idle" /\ h.prog = hook[t].prog /\ h.file = hook[t].file,
           \/ SCRATCH' = SCRATCH /\ (HasRecord(t)' => HasRecord(t))
           \/ /\ hook[t].at # "idle"
              /\ SCRATCH' = [SCRATCH EXCEPT ![Slot(hook[t].prog)] = hook[t].file],
           OwnRecord'
    PROVE  OwnInv'
  <1>1. hook \in [Tasks -> HookStates] /\ hook'[t] = h
        /\ \A u \in Tasks \ {t} : hook'[u] = hook[u]
    BY DEF TypeInv
  <1>2. SCRATCH \in [{0, 1} -> Paths \cup {NoFile}]
    BY DEF TypeInv
  <1>3. ASSUME NEW u \in Tasks, HasRecord(u)'
        PROVE  SCRATCH'[Slot(hook'[u].prog)] = hook'[u].file
    <2>1. CASE u = t
      <3>1. h.at # "idle" /\ h.prog = hook[t].prog /\ h.file = hook[t].file
        BY <1>1, <1>3, <2>1 DEF HasRecord
      <3>2. CASE SCRATCH' = SCRATCH /\ (HasRecord(t)' => HasRecord(t))
        BY <1>1, <1>3, <2>1, <3>1, <3>2 DEF OwnInv
      <3>3. CASE SCRATCH' = [SCRATCH EXCEPT ![Slot(hook[t].prog)] = hook[t].file]
        BY <1>1, <1>2, <2>1, <3>1, <3>3, SlotType
      <3> QED BY <3>2, <3>3
    <2>2. CASE u # t
      <3>1. hook'[u] = hook[u] /\ HasRecord(u)
        BY <1>1, <1>3, <2>2 DEF HasRecord
      <3>2. SCRATCH[Slot(hook[u].prog)] = hook[u].file /\ hook[u].at # "idle"
        BY <3>1 DEF OwnInv, HasRecord
      <3>3. CASE SCRATCH' = SCRATCH
        BY <3>1, <3>2, <3>3
      <3>4. CASE /\ hook[t].at # "idle"
                 /\ SCRATCH' = [SCRATCH EXCEPT ![Slot(hook[t].prog)] = hook[t].file]
        <4>1. Slot(hook[u].prog) # Slot(hook[t].prog)
          BY <2>2, <3>2, <3>4, SlotsApart DEF OwnInv
        <4> QED BY <1>2, <3>1, <3>2, <3>4, <4>1, SlotType
      <3> QED BY <3>3, <3>4
    <2> QED BY <2>1, <2>2
  <1>4. ASSUME NEW u \in Tasks, NEW v \in Tasks, u # v, hook'[u].at # "idle",
               hook'[v].at # "idle"
        PROVE  ~SameProgram(hook'[u].prog, hook'[v].prog)
    <2>1. \A x \in {u, v} : hook'[x].prog = hook[x].prog /\ hook[x].at # "idle"
      BY <1>1, <1>4
    <2> QED BY <1>4, <2>1 DEF OwnInv
  <1> QED BY <1>3, <1>4 DEF OwnInv

\* Every step leaves each hook its own record.
LEMMA OwnStep == TypeInv /\ OwnInv /\ Next => OwnInv'
  <1> SUFFICES ASSUME TypeInv, OwnInv, NEW t \in Tasks,
                      \/ \E prog \in Progs, file \in Paths,
                            stored \in {"none", "partial", "full"} :
                            Enter(t, prog, file, stored)
                      \/ read_origin_xattr(t) \/ Begin(t) \/ landing_step(t)
                      \/ Finish(t) \/ Judge(t)
               PROVE  OwnInv'
    BY DEF Next
  <1>0. hook[t] \in HookStates /\ hook \in [Tasks -> HookStates]
    BY DEF TypeInv
  <1>1. ASSUME NEW prog \in Progs, NEW file \in Paths,
               NEW stored \in {"none", "partial", "full"},
               Enter(t, prog, file, stored)
        PROVE  OwnInv'
    <2> DEFINE h == Entered(prog, file, stored)
    <2>1. hook' = [hook EXCEPT ![t] = h]
      BY <1>1 DEF Enter, Entered
    <2>2. /\ h.prog = prog /\ h.file = file
          /\ h.have_storage = (stored # "none")
          /\ h.at = IF stored = "full" THEN "path" ELSE "xattr"
      BY EnteredType
    <2> HIDE DEF h
    <2>3. hook'[t] = h /\ \A u \in Tasks \ {t} : hook'[u] = hook[u]
      BY <1>0, <2>1
    <2>4. \A u \in Tasks : hook[u].at # "idle" => ~SameProgram(hook[u].prog, prog)
      BY <1>1 DEF Enter
    <2>5. ASSUME NEW u \in Tasks, HasRecord(u)'
          PROVE  SCRATCH'[Slot(hook'[u].prog)] = hook'[u].file
      <3>1. CASE u = t
        <4>1. stored # "none"
          BY <2>2, <2>3, <2>5, <3>1 DEF HasRecord
        <4> QED BY <1>1, <2>2, <2>3, <3>1, <4>1, SlotType DEF Enter, TypeInv
      <3>2. CASE u # t
        <4>1. hook'[u] = hook[u] /\ HasRecord(u) /\ hook[u].at # "idle"
          BY <2>3, <2>5, <3>2 DEF HasRecord
        <4>2. SCRATCH[Slot(hook[u].prog)] = hook[u].file
          BY <4>1 DEF OwnInv
        <4>3. Slot(hook[u].prog) # Slot(prog)
          BY <2>4, <4>1, SlotsApart
        <4> QED BY <1>1, <4>1, <4>2, <4>3, SlotType DEF Enter, TypeInv
      <3> QED BY <3>1, <3>2
    <2>6. ASSUME NEW u \in Tasks, NEW v \in Tasks, u # v, hook'[u].at # "idle",
                 hook'[v].at # "idle"
          PROVE  ~SameProgram(hook'[u].prog, hook'[v].prog)
      <3>1. CASE u = t
        BY <2>2, <2>3, <2>4, <2>6, <3>1 DEF SameProgram
      <3>2. CASE v = t
        BY <2>2, <2>3, <2>4, <2>6, <3>2
      <3>3. CASE u # t /\ v # t
        BY <2>3, <2>6, <3>3 DEF OwnInv
      <3> QED BY <3>1, <3>2, <3>3
    <2>7. OwnRecord'
      BY <1>1 DEF Enter, OwnInv, OwnRecord
    <2> QED BY <2>5, <2>6, <2>7 DEF OwnInv
  <1>2. ASSUME NEW at, hook' = [hook EXCEPT ![t].at = at]
        PROVE  \E h : /\ hook' = [hook EXCEPT ![t] = h] /\ h.at = at
                      /\ h.prog = hook[t].prog /\ h.file = hook[t].file
                      /\ h.have_storage = hook[t].have_storage
    <2> DEFINE h == [hook[t] EXCEPT !.at = at]
    <2>1. /\ h.at = at /\ h.prog = hook[t].prog /\ h.file = hook[t].file
          /\ h.have_storage = hook[t].have_storage
      BY <1>0 DEF HookStates
    <2>2. hook' = [hook EXCEPT ![t] = h]
      BY <1>0, <1>2
    <2> QED BY <2>1, <2>2
  <1>4. ASSUME hook' = [hook EXCEPT ![t] = Idle], SCRATCH' = SCRATCH, OwnRecord'
        PROVE  OwnInv'
    <2>1. hook'[t] = Idle /\ Idle.at = "idle"
      BY <1>0, <1>4 DEF Idle
    <2>2. ~HasRecord(t)'
      BY <2>1 DEF HasRecord
    <2> QED BY <1>4, <2>1, <2>2, SameOwn
  <1>5. CASE read_origin_xattr(t)
    <2>1. OwnRecord'
      BY <1>5 DEF read_origin_xattr, OwnInv, OwnRecord
    <2>2. CASE hook' = [hook EXCEPT ![t] = Idle] /\ SCRATCH' = SCRATCH
      BY <1>4, <2>1, <2>2
    <2>3. CASE /\ hook' = [hook EXCEPT ![t].at = "path"]
               /\ \/ SCRATCH' = [SCRATCH EXCEPT ![Slot(hook[t].prog)] = hook[t].file]
                  \/ SCRATCH' = SCRATCH /\ hook[t].have_storage
      <3>1. PICK h : /\ hook' = [hook EXCEPT ![t] = h]
                     /\ h.prog = hook[t].prog /\ h.file = hook[t].file
        BY <1>2, <2>3
      <3>2. hook[t].at = "xattr"
        BY <1>5 DEF read_origin_xattr
      <3>3. hook[t].have_storage => HasRecord(t)
        BY <3>2 DEF HasRecord
      <3> QED BY <2>1, <2>3, <3>1, <3>2, <3>3, SameOwn
    <2> QED BY <1>5, <2>2, <2>3 DEF read_origin_xattr
  <1>6. CASE Begin(t)
    <2> DEFINE h == [hook[t] EXCEPT !.at = "walk", !.src = hook[t].file]
    <2>1. h.prog = hook[t].prog /\ h.file = hook[t].file
      BY <1>0 DEF HookStates
    <2>2. hook' = [hook EXCEPT ![t] = h]
      BY <1>0, <1>6 DEF Begin
    <2> HIDE DEF h
    <2>3. HasRecord(t) /\ SCRATCH' = SCRATCH /\ OwnRecord' /\ hook[t].at # "idle"
      BY <1>6 DEF Begin, HasRecord, OwnInv, OwnRecord
    <2> QED BY <2>1, <2>2, <2>3, SameOwn
  <1>7. CASE landing_step(t)
    <2>1. /\ hook' = [hook EXCEPT ![t] = Stepped(t)]
          /\ Stepped(t).prog = hook[t].prog /\ Stepped(t).file = hook[t].file
      BY <1>7, SteppedType
    <2>2. HasRecord(t) /\ SCRATCH' = SCRATCH /\ OwnRecord' /\ hook[t].at # "idle"
      BY <1>7 DEF landing_step, HasRecord, OwnInv, OwnRecord
    <2> QED BY <2>1, <2>2, SameOwn
  <1>8. CASE Finish(t)
    <2>1. HasRecord(t) /\ SCRATCH' = SCRATCH /\ hook[t].at # "idle"
      BY <1>8 DEF Finish, HasRecord
    <2>2. OwnRecord'
      <3>1. CASE out' = out
        BY <3>1 DEF OwnInv, OwnRecord
      <3>2. CASE out'.record = SCRATCH[Slot(hook[t].prog)] /\ out'.file = hook[t].file
        BY <2>1, <3>2 DEF OwnInv, OwnRecord
      <3> QED BY <1>8, <3>1, <3>2 DEF Finish
    <2>3. CASE hook' = [hook EXCEPT ![t] = Idle]
      BY <1>4, <2>1, <2>2, <2>3
    <2>4. CASE hook' = [hook EXCEPT ![t].at = "rules"]
      <3>1. PICK h : /\ hook' = [hook EXCEPT ![t] = h]
                     /\ h.prog = hook[t].prog /\ h.file = hook[t].file
        BY <1>2, <2>4
      <3> QED BY <2>1, <2>2, <3>1, SameOwn
    <2> QED BY <1>8, <2>3, <2>4 DEF Finish
  <1>9. CASE Judge(t)
    <2>1. HasRecord(t) /\ SCRATCH' = SCRATCH
      BY <1>9 DEF Judge, HasRecord
    <2>2. out'.record = SCRATCH[Slot(hook[t].prog)] /\ out'.file = hook[t].file
      BY <1>9 DEF Judge
    <2>3. OwnRecord'
      BY <2>1, <2>2 DEF OwnInv, OwnRecord
    <2> QED BY <1>4, <1>9, <2>1, <2>3 DEF Judge
  <1> QED BY <1>1, <1>5, <1>6, <1>7, <1>8, <1>9

\* Every variable keeps its type, for any set of paths and tasks and even when
\* the CPU changes hands at any step.
THEOREM TypeCorrect == Spec => []TypeInv
  <1>1. TypeInv /\ UNCHANGED vars => TypeInv'
    BY DEF TypeInv, vars
  <1> QED BY <1>1, TypeInit, TypeStep, PTL DEF Spec

\* However many tasks share the CPU, and even when it changes hands at any
\* step, a finished hook went by the record of its own file: the two slots of
\* SCRATCH are enough because the kernel never runs one program twice on a CPU.
THEOREM OwnRecordTheorem == Spec => []OwnRecord
  <1>1. Init => OwnInv
    BY DEF Init, OwnInv, OwnRecord, HasRecord, Idle
  <1>2. TypeInv /\ OwnInv /\ UNCHANGED vars => OwnInv'
    BY DEF OwnInv, OwnRecord, HasRecord, NoOut, vars
  <1>3. OwnInv => OwnRecord
    BY DEF OwnInv
  <1> QED BY <1>1, <1>2, <1>3, TypeCorrect, OwnStep, PTL DEF Spec

-----------------------------------------------------------------------------
(* The walk.                                                               *)

\* What slot j holds after n slashes: nothing, or the prefix of the last of
\* them that falls on it.
Entry(path, n, j, v) ==
    \/ v = NoHash /\ \A k \in 0 .. n - 1 : k % N # j
    \/ \E k \in 0 .. n - 1 : /\ k % N = j /\ v = SubSeq(path, 1, k)
                             /\ \A m \in 0 .. n - 1 : m % N = j => m <= k

Entries(path, n, array) == \A j \in Index : Entry(path, n, j, array[j])

\* A slash puts the next prefix where landing_step does.
LEMMA EntryStep ==
    ASSUME NEW path \in Paths, NEW n \in 0 .. Len(path) - 1, NEW a, NEW b,
           a \in [Index -> Hashes], Entries(path, n, a),
           b = [a EXCEPT ![n % N] = SubSeq(path, 1, n)]
    PROVE  Entries(path, n + 1, b)
  <1>0. n \in Nat /\ Len(path) \in Nat
    BY PathSeq
  <1>1. n % N \in Index
    BY <1>0, ModRange
  <1> SUFFICES ASSUME NEW j \in Index PROVE Entry(path, n + 1, j, b[j])
    BY DEF Entries
  <1>2. CASE j = n % N
    <2>1. b[j] = SubSeq(path, 1, n)
      BY <1>1, <1>2
    <2>2. n \in 0 .. (n + 1) - 1 /\ \A m \in 0 .. (n + 1) - 1 : m <= n
      BY <1>0
    <2> QED BY <1>2, <2>1, <2>2 DEF Entry
  <1>3. CASE j # n % N
    <2>1. b[j] = a[j] /\ Entry(path, n, j, a[j])
      BY <1>1, <1>3 DEF Entries
    <2>2. 0 .. (n + 1) - 1 = (0 .. n - 1) \cup {n}
      BY <1>0
    <2>3. CASE a[j] = NoHash /\ \A k \in 0 .. n - 1 : k % N # j
      BY <1>3, <2>1, <2>2, <2>3 DEF Entry
    <2>4. CASE \E k \in 0 .. n - 1 : /\ k % N = j /\ a[j] = SubSeq(path, 1, k)
                                     /\ \A m \in 0 .. n - 1 : m % N = j => m <= k
      <3>1. PICK k \in 0 .. n - 1 : /\ k % N = j /\ a[j] = SubSeq(path, 1, k)
                                    /\ \A m \in 0 .. n - 1 : m % N = j => m <= k
        BY <2>4
      <3>2. k \in 0 .. (n + 1) - 1 /\ \A m \in 0 .. (n + 1) - 1 : m % N = j => m <= k
        BY <1>3, <2>2, <3>1
      <3> QED BY <2>1, <3>1, <3>2 DEF Entry
    <2> QED BY <2>1, <2>3, <2>4 DEF Entry
  <1> QED BY <1>2, <1>3

\* The array of a whole path is the one userspace computes.
LEMMA EntriesUser ==
    ASSUME NEW path \in Paths, NEW a \in [Index -> Hashes],
           Entries(path, Len(path), a)
    PROVE  a = MaskedAncestors(path)
  <1>0. Len(path) \in Nat
    BY PathSeq
  <1>1. ASSUME NEW j \in Index PROVE a[j] = MaskedAncestors(path)[j]
    <2> DEFINE here == {k \in 0 .. Len(path) - 1 : k % MAX_FOLDER_ANCESTORS = j}
               top == CHOOSE k \in here : \A m \in here : m <= k
    <2>1. MaskedAncestors(path)[j] = IF here = {} THEN NoHash ELSE SubSeq(path, 1, top)
      BY <1>1 DEF MaskedAncestors
    <2>2. Entry(path, Len(path), j, a[j])
      BY <1>1 DEF Entries
    <2>3. CASE a[j] = NoHash /\ here = {}
      BY <2>1, <2>3
    <2>4. ASSUME NEW k \in here, a[j] = SubSeq(path, 1, k), \A m \in here : m <= k
          PROVE  a[j] = MaskedAncestors(path)[j]
      <3>1. top \in here /\ \A m \in here : m <= top
        BY <2>4
      <3>2. top <= k /\ k <= top
        BY <2>4, <3>1
      <3>3. top = k
        <4>1. here \subseteq Int
          BY <1>0
        <4> HIDE DEF top, here
        <4>2. top \in Int /\ k \in Int
          BY <2>4, <3>1, <4>1
        <4> QED BY <3>2, <4>2
      <3> HIDE DEF top
      <3> QED BY <2>1, <2>4, <3>3
    <2>5. (a[j] = NoHash /\ here = {})
          \/ \E k \in here : a[j] = SubSeq(path, 1, k) /\ \A m \in here : m <= k
      BY <2>2 DEF Entry, N
    <2> QED BY <2>3, <2>4, <2>5
  <1>2. DOMAIN MaskedAncestors(path) = Index /\ MaskedAncestors(path) = [j \in Index |-> MaskedAncestors(path)[j]]
    BY DEF MaskedAncestors
  <1> QED BY <1>1, <1>2

\* It holds the deepest MAX_FOLDER_ANCESTORS prefixes and nothing else.
LEMMA EntriesStored ==
    ASSUME NEW path \in Paths, NEW a \in [Index -> Hashes],
           Entries(path, Len(path), a)
    PROVE  Range(a) \ {NoHash} = StoredAncestors(path)
  <1> DEFINE L == Len(path)
  <1>0. L \in Nat /\ N \in Nat /\ N > 0
        /\ \A k \in 0 .. L - 1 : SubSeq(path, 1, k) # NoHash
    BY PathSeq, AncestorsAssumption DEF N
  <1>1. ASSUME NEW v \in Range(a), v # NoHash PROVE v \in StoredAncestors(path)
    <2>1. PICK j \in Index : v = a[j]
      BY <1>1 DEF Range
    <2>2. PICK k \in 0 .. L - 1 : /\ k % N = j /\ v = SubSeq(path, 1, k)
                                  /\ \A m \in 0 .. L - 1 : m % N = j => m <= k
      BY <1>1, <2>1 DEF Entries, Entry
    <2>3. (k + N) % N = j
      BY <1>0, <2>2, ModAdd
    <2>4. k + N >= L
      <3> HIDE DEF N, L
      <3>1. SUFFICES ASSUME k + N <= L - 1 PROVE FALSE
        BY <1>0, <2>2
      <3>2. k + N \in 0 .. L - 1
        BY <1>0, <2>2, <3>1
      <3>3. k + N <= k
        BY <2>2, <2>3, <3>2
      <3> QED BY <1>0, <2>2, <3>3
    <2> QED BY <2>2, <2>4 DEF StoredAncestors, N
  <1>2. ASSUME NEW v \in StoredAncestors(path) PROVE v \in Range(a) /\ v # NoHash
    <2>1. PICK k \in 0 .. L - 1 : v = SubSeq(path, 1, k) /\ k + N >= L
      BY <1>2 DEF StoredAncestors, N
    <2>2. k \in Nat /\ k % N \in Index
      BY <1>0, <2>1, ModRange
    <2>3. Entry(path, L, k % N, a[k % N])
      BY <2>2 DEF Entries
    <2>4. PICK m \in 0 .. L - 1 : /\ m % N = k % N /\ a[k % N] = SubSeq(path, 1, m)
                                  /\ \A x \in 0 .. L - 1 : x % N = k % N => x <= m
      BY <2>1, <2>3 DEF Entry
    <2>5. k <= m
      BY <2>1, <2>4
    <2>6. m = k
      <3>1. m \in Nat /\ m < k + N
        BY <1>0, <2>1, <2>2, <2>4
      <3> QED BY <2>2, <2>4, <2>5, <3>1, ModUnique
    <2>7. v = a[k % N]
      BY <2>1, <2>4, <2>6
    <2> QED BY <1>0, <2>1, <2>2, <2>7 DEF Range
  <1> QED BY <1>1, <1>2

\* Where a walk is: h.count slashes are closed, and either the component after
\* the last of them has been read too or it comes next.
Walked(h) ==
    /\ h.count \in 0 .. Len(h.file)
    /\ \/ /\ h.i = 2 * h.count + 1
          /\ h.full = SubSeq(h.file, 1, h.count)
          /\ h.count > 0 => /\ h.comp = h.file[h.count]
                            /\ h.folder = SubSeq(h.file, 1, h.count - 1)
       \/ /\ h.i = 2 * h.count /\ h.count > 0
          /\ h.full = SubSeq(h.file, 1, h.count - 1)
          /\ h.folder = h.full

\* What a finished walk has computed.
Complete(h, array) ==
    /\ h.folder = Parent(h.file) /\ h.comp = Basename(h.file) /\ h.full = h.file
    /\ array \in [Index -> Hashes] /\ Entries(h.file, Len(h.file), array)

\* The last finished hook left the whole masked array of its file.
KernelArray ==
    out # NoOut =>
        /\ out.file \in Paths /\ out.ancestors = MaskedAncestors(out.file)
        /\ Entries(out.file, Len(out.file), out.ancestors)

\* WalkCorrect and KernelArray, and why: the task in the middle of a walk
\* or of the rules has the CPU, so nobody else touches the per-CPU arrays.
WalkInv ==
    /\ WalkCorrect /\ KernelArray
    /\ \A t \in Tasks :
          /\ hook[t].at \in {"path", "walk", "rules"} => cpu = t
          /\ hook[t].at \in {"xattr", "path"} =>
                hook[t].i = 1 /\ hook[t].full = <<>> /\ hook[t].count = 0
          /\ hook[t].at = "walk" =>
                /\ Source(t) = hook[t].file
                /\ Walked(hook[t]) /\ Entries(hook[t].file, hook[t].count, WALK_ANC)
          /\ hook[t].at = "rules" => Complete(hook[t], TARGET_ANCESTORS)

\* One token further.
LEMMA WalkedStep ==
    ASSUME TypeInv, WalkInv, NEW t \in Tasks, landing_step(t)
    PROVE  Walked(Stepped(t)) /\ Entries(Stepped(t).file, Stepped(t).count, WALK_ANC')
  <1> DEFINE h == hook[t]
             k == Stepped(t)
             path == h.file
             token == Token(Source(t), h.i)
  <1>1. /\ h \in HookStates /\ path \in Paths /\ h.at = "walk" /\ Source(t) = path
        /\ Walked(h) /\ Entries(path, h.count, WALK_ANC)
        /\ WALK_ANC \in [Index -> Hashes] /\ h.i <= Tokens(path)
    BY DEF TypeInv, WalkInv, landing_step
  <1>2. /\ k.file = path /\ k.i = h.i + 1
        /\ token = Slash => /\ k.full = h.full /\ k.folder = h.full
                            /\ k.count = h.count + 1 /\ k.comp = NoHash
        /\ token # Slash => /\ k.full = Append(h.full, token)
                            /\ k.folder = h.folder
                            /\ k.count = h.count /\ k.comp = token
    BY SteppedType
  <1>3. /\ token = Slash => WALK_ANC' = [WALK_ANC EXCEPT ![h.count % N] = h.full]
        /\ token # Slash => WALK_ANC' = WALK_ANC
    BY DEF landing_step, MaskedIndex, N
  <1>4. /\ Len(path) \in Nat \ {0} /\ h.count \in 0 .. Len(path)
        /\ \A n \in 1 .. Len(path) : path[n] # Slash
    BY <1>1, PathSeq DEF Walked
  <1>5. token = Token(path, h.i) /\ h.i <= 2 * Len(path)
    BY <1>1 DEF Tokens
  <1> HIDE DEF k, token
  <1>6. CASE /\ h.i = 2 * h.count + 1
             /\ h.full = SubSeq(path, 1, h.count)
    <2>1. token = Slash /\ h.count \in 0 .. Len(path) - 1
      BY <1>4, <1>5, <1>6 DEF Token
    <2>2. Entries(path, h.count + 1, WALK_ANC')
      BY <1>1, <1>3, <1>6, <2>1, EntryStep
    <2>3. k.count = h.count + 1 /\ k.i = 2 * k.count /\ k.count > 0
          /\ k.count \in 0 .. Len(path) /\ k.count - 1 = h.count
      BY <1>2, <1>4, <1>6, <2>1
    <2>4. Walked(k)
      BY <1>2, <1>6, <2>1, <2>3 DEF Walked
    <2> QED BY <1>2, <2>1, <2>2, <2>4 DEF k
  <1>7. CASE /\ h.i = 2 * h.count /\ h.count > 0
             /\ h.full = SubSeq(path, 1, h.count - 1)
             /\ h.folder = h.full
    <2>1. token = path[h.count] /\ token # Slash
      <3>1. h.count \in 1 .. Len(path)
        BY <1>4, <1>7
      <3>2. ASSUME NEW c \in Nat PROVE (2 * c) % 2 # 1 /\ (2 * c) \div 2 = c
        OBVIOUS
      <3>3. h.i % 2 # 1 /\ h.i \div 2 = h.count
        BY <1>4, <1>7, <3>1, <3>2
      <3> QED BY <1>4, <1>5, <3>1, <3>3 DEF Token
    <2>2. Append(h.full, token) = SubSeq(path, 1, h.count)
      <3>1. h.count - 1 \in 0 .. Len(path) - 1 /\ (h.count - 1) + 1 = h.count
        BY <1>4, <1>7
      <3> QED BY <1>1, <1>7, <2>1, <3>1, PrefixStep
    <2>3. k.count = h.count /\ k.i = 2 * k.count + 1 /\ k.count \in 0 .. Len(path)
      BY <1>2, <1>4, <1>7, <2>1
    <2>4. Walked(k)
      BY <1>2, <1>7, <2>1, <2>2, <2>3 DEF Walked
    <2> QED BY <1>1, <1>2, <1>3, <2>1, <2>4 DEF k
  <1> QED BY <1>1, <1>6, <1>7 DEF Walked

\* A walk at the end of its path is complete.
LEMMA WalkedEnd ==
    ASSUME TypeInv, WalkInv, NEW t \in Tasks, Finish(t)
    PROVE  Complete(hook[t], WALK_ANC) /\ hook[t].file \in Paths
  <1> DEFINE h == hook[t]
             path == h.file
  <1>1. /\ h \in HookStates /\ path \in Paths
        /\ Walked(h) /\ Entries(path, h.count, WALK_ANC)
        /\ WALK_ANC \in [Index -> Hashes] /\ h.i > 2 * Len(path)
    BY DEF TypeInv, WalkInv, Finish, Tokens
  <1>2. Len(path) \in Nat \ {0} /\ h.count \in 0 .. Len(path)
    BY <1>1, PathSeq DEF Walked
  <1>3. h.count = Len(path) /\ h.count > 0 /\ h.i # 2 * h.count
    BY <1>1, <1>2 DEF Walked
  <1>4. /\ h.full = SubSeq(path, 1, Len(path)) /\ h.comp = path[Len(path)]
        /\ h.folder = SubSeq(path, 1, Len(path) - 1)
    BY <1>1, <1>3 DEF Walked
  <1>5. h.full = path
    BY <1>1, <1>4, PrefixEnds
  <1> QED BY <1>1, <1>3, <1>4, <1>5 DEF Complete, Parent, Basename

\* What a complete walk says of its path.
LEMMA CompleteOut ==
    ASSUME NEW h, h.file \in Paths, NEW array, Complete(h, array)
    PROVE  /\ h.folder = Parent(h.file) /\ h.comp = Basename(h.file)
           /\ h.full = h.file
           /\ Range(array) \ {NoHash} = StoredAncestors(h.file)
           /\ array = MaskedAncestors(h.file)
           /\ Entries(h.file, Len(h.file), array)
  BY EntriesUser, EntriesStored DEF Complete

\* A step of t on the CPU, when all the others wait or are idle.
LEMMA SameWalk ==
    ASSUME TypeInv, WalkInv, "preempt" \notin Faults, NEW t \in Tasks, OnCpu(t),
           NEW h, hook' = [hook EXCEPT ![t] = h],
           h.at \in {"path", "walk", "rules"} => cpu' = t,
           h.at \in {"xattr", "path"} => h.i = 1 /\ h.full = <<>> /\ h.count = 0,
           h.at = "walk" => /\ Source(t)' = h.file
                            /\ Walked(h) /\ Entries(h.file, h.count, WALK_ANC'),
           h.at = "rules" => Complete(h, TARGET_ANCESTORS'),
           WalkCorrect', KernelArray'
    PROVE  WalkInv'
  <1>1. hook'[t] = h /\ \A u \in Tasks \ {t} : hook'[u] = hook[u]
    BY DEF TypeInv
  <1>2. \A u \in Tasks \ {t} : hook[u].at \notin {"path", "walk", "rules"}
    BY PathWalkAssumption DEF OnCpu, WalkInv
  <1>3. ASSUME NEW u \in Tasks
        PROVE  /\ hook'[u].at \in {"path", "walk", "rules"} => cpu' = u
               /\ hook'[u].at \in {"xattr", "path"} =>
                     hook'[u].i = 1 /\ hook'[u].full = <<>> /\ hook'[u].count = 0
               /\ hook'[u].at = "walk" =>
                     /\ Source(u)' = hook'[u].file
                     /\ Walked(hook'[u])
                     /\ Entries(hook'[u].file, hook'[u].count, WALK_ANC')
               /\ hook'[u].at = "rules" => Complete(hook'[u], TARGET_ANCESTORS')
    <2>1. CASE u = t
      BY <1>1, <2>1
    <2>2. CASE u # t
      BY <1>1, <1>2, <2>2 DEF WalkInv
    <2> QED BY <2>1, <2>2
  <1> QED BY <1>3 DEF WalkInv, Walked, Complete, Entries, Entry

\* Without preemption every step keeps the walk and its arrays in step.
LEMMA WalkStep ==
    ASSUME "preempt" \notin Faults
    PROVE  TypeInv /\ WalkInv /\ Next => WalkInv'
  <1> SUFFICES ASSUME TypeInv, WalkInv, NEW t \in Tasks,
                      \/ \E prog \in Progs, file \in Paths,
                            stored \in {"none", "partial", "full"} :
                            Enter(t, prog, file, stored)
                      \/ read_origin_xattr(t) \/ Begin(t) \/ landing_step(t)
                      \/ Finish(t) \/ Judge(t)
               PROVE  WalkInv'
    BY DEF Next
  <1>0. hook[t] \in HookStates /\ hook \in [Tasks -> HookStates]
    BY DEF TypeInv
  <1>1. ASSUME out' = out PROVE WalkCorrect' /\ KernelArray'
    BY <1>1 DEF WalkInv, WalkCorrect, KernelArray
  <1>2. ASSUME NEW at, hook' = [hook EXCEPT ![t].at = at]
        PROVE  \E h : /\ hook' = [hook EXCEPT ![t] = h] /\ h.at = at
                      /\ h.file = hook[t].file /\ h.i = hook[t].i
                      /\ h.full = hook[t].full /\ h.count = hook[t].count
                      /\ h.comp = hook[t].comp /\ h.folder = hook[t].folder
    <2> DEFINE h == [hook[t] EXCEPT !.at = at]
    <2>1. /\ h.at = at /\ h.file = hook[t].file /\ h.i = hook[t].i
          /\ h.full = hook[t].full /\ h.count = hook[t].count
          /\ h.comp = hook[t].comp /\ h.folder = hook[t].folder
      BY <1>0 DEF HookStates
    <2>2. hook' = [hook EXCEPT ![t] = h]
      BY <1>0, <1>2
    <2> QED BY <2>1, <2>2
  <1>3. Idle.at = "idle"
    BY DEF Idle
  <1>4. ASSUME NEW prog \in Progs, NEW file \in Paths,
               NEW stored \in {"none", "partial", "full"},
               Enter(t, prog, file, stored)
        PROVE  WalkInv'
    <2> DEFINE h == Entered(prog, file, stored)
    <2>1. hook' = [hook EXCEPT ![t] = h]
      BY <1>4 DEF Enter, Entered
    <2>2. /\ h.at = (IF stored = "full" THEN "path" ELSE "xattr")
          /\ h.i = 1 /\ h.full = <<>> /\ h.count = 0
      BY EnteredType
    <2> HIDE DEF h
    <2>3. h.at \in {"path", "walk", "rules"} => cpu' = t
      BY <1>4, <2>2 DEF Enter
    <2>4. OnCpu(t) /\ out' = out
      BY <1>4 DEF Enter, OnCpu
    <2> QED BY <1>1, <2>1, <2>2, <2>3, <2>4, SameWalk
  <1>5. CASE read_origin_xattr(t)
    <2>1. OnCpu(t) /\ out' = out /\ hook[t].at = "xattr"
      BY <1>5 DEF read_origin_xattr
    <2>2. CASE hook' = [hook EXCEPT ![t] = Idle]
      BY <1>1, <1>3, <2>1, <2>2, SameWalk
    <2>3. CASE hook' = [hook EXCEPT ![t].at = "path"] /\ cpu' = t
      <3>1. PICK h : /\ hook' = [hook EXCEPT ![t] = h] /\ h.at = "path"
                     /\ h.file = hook[t].file /\ h.i = hook[t].i
                     /\ h.full = hook[t].full /\ h.count = hook[t].count
                     /\ h.comp = hook[t].comp /\ h.folder = hook[t].folder
        BY <1>2, <2>3
      <3>2. h.i = 1 /\ h.full = <<>> /\ h.count = 0
        BY <2>1, <3>1 DEF WalkInv
      <3> QED BY <1>1, <2>1, <2>3, <3>1, <3>2, SameWalk
    <2> QED BY <1>5, <2>2, <2>3 DEF read_origin_xattr
  <1>6. CASE Begin(t)
    <2> DEFINE h == [hook[t] EXCEPT !.at = "walk", !.src = hook[t].file]
    <2>1. /\ h.at = "walk" /\ h.file = hook[t].file /\ h.i = hook[t].i
          /\ h.full = hook[t].full /\ h.count = hook[t].count
          /\ h.src = hook[t].file /\ h.prog = hook[t].prog
      BY <1>0 DEF HookStates
    <2>2. hook' = [hook EXCEPT ![t] = h]
      BY <1>0, <1>6 DEF Begin
    <2> HIDE DEF h
    <2>3. hook[t].i = 1 /\ hook[t].full = <<>> /\ hook[t].count = 0
          /\ hook[t].file \in Paths
      BY <1>6 DEF Begin, WalkInv, TypeInv
    <2>4. hook'[t] = h /\ PATH_SCRATCH' = IF hook[t].prog = "bprm" THEN PATH_SCRATCH
                                          ELSE hook[t].file
      BY <1>0, <1>6, <2>2 DEF Begin
    <2>5. Source(t)' = h.file
      BY <2>1, <2>4 DEF Source
    <2>6. Len(hook[t].file) \in Nat \ {0} /\ SubSeq(hook[t].file, 1, 0) = <<>>
      BY <2>3, PathSeq, PrefixEnds
    <2>7. Walked(h)
      BY <2>1, <2>3, <2>6 DEF Walked
    <2>8. Entries(h.file, h.count, WALK_ANC')
      BY <1>6, <2>1, <2>3 DEF Begin, walk_anc_clear, Zero, Entries, Entry
    <2>9. OnCpu(t) /\ out' = out /\ cpu' = t
      BY <1>6 DEF Begin
    <2> QED BY <1>1, <2>1, <2>2, <2>5, <2>7, <2>8, <2>9, SameWalk
  <1>7. CASE landing_step(t)
    <2>1. /\ hook' = [hook EXCEPT ![t] = Stepped(t)]
          /\ Stepped(t).at = hook[t].at /\ Stepped(t).prog = hook[t].prog
          /\ Stepped(t).file = hook[t].file /\ Stepped(t).src = hook[t].src
      BY <1>7, SteppedType
    <2>2. /\ OnCpu(t) /\ out' = out /\ cpu' = t /\ hook[t].at = "walk"
          /\ PATH_SCRATCH' = PATH_SCRATCH
      BY <1>7 DEF landing_step
    <2>3. hook'[t] = Stepped(t)
      BY <1>0, <2>1
    <2>4. Source(t)' = Stepped(t).file
      BY <2>1, <2>2, <2>3 DEF Source, WalkInv
    <2> QED BY <1>1, <1>7, <2>1, <2>2, <2>4, WalkedStep, SameWalk
  <1>8. CASE Finish(t)
    <2>1. Complete(hook[t], WALK_ANC) /\ hook[t].file \in Paths /\ OnCpu(t)
      BY <1>8, WalkedEnd DEF Finish
    <2>2. CASE hook[t].prog = "write"
      <3>1. /\ out'.file = hook[t].file /\ out'.folder = hook[t].folder
            /\ out'.basename = hook[t].comp /\ out'.full = hook[t].full
            /\ out'.ancestors = WALK_ANC /\ hook' = [hook EXCEPT ![t] = Idle]
        BY <1>8, <2>2 DEF Finish
      <3>2. WalkCorrect' /\ KernelArray'
        BY <2>1, <3>1, CompleteOut DEF WalkCorrect, KernelArray
      <3> QED BY <1>3, <2>1, <3>1, <3>2, SameWalk
    <2>3. CASE hook[t].prog # "write"
      <3>1. /\ out' = out /\ TARGET_ANCESTORS' = WALK_ANC /\ cpu' = t
            /\ hook' = [hook EXCEPT ![t].at = "rules"]
        BY <1>8, <2>3 DEF Finish
      <3>2. PICK h : /\ hook' = [hook EXCEPT ![t] = h] /\ h.at = "rules"
                     /\ h.file = hook[t].file /\ h.i = hook[t].i
                     /\ h.full = hook[t].full /\ h.count = hook[t].count
                     /\ h.comp = hook[t].comp /\ h.folder = hook[t].folder
        BY <1>2, <3>1
      <3>3. Complete(h, TARGET_ANCESTORS')
        BY <2>1, <3>1, <3>2 DEF Complete
      <3> QED BY <1>1, <2>1, <3>1, <3>2, <3>3, SameWalk
    <2> QED BY <2>2, <2>3
  <1>9. CASE Judge(t)
    <2>1. Complete(hook[t], TARGET_ANCESTORS) /\ hook[t].file \in Paths /\ OnCpu(t)
      BY <1>9 DEF Judge, WalkInv, TypeInv
    <2>2. /\ out'.file = hook[t].file /\ out'.folder = hook[t].folder
          /\ out'.basename = hook[t].comp /\ out'.full = hook[t].full
          /\ out'.ancestors = TARGET_ANCESTORS /\ hook' = [hook EXCEPT ![t] = Idle]
      BY <1>9 DEF Judge
    <2>3. WalkCorrect' /\ KernelArray'
      BY <2>1, <2>2, CompleteOut DEF WalkCorrect, KernelArray
    <2> QED BY <1>3, <2>1, <2>2, <2>3, SameWalk
  <1> QED BY <1>4, <1>5, <1>6, <1>7, <1>8, <1>9

\* Without preemption the invariant of the walk always holds.
LEMMA WalkSafe ==
    ASSUME "preempt" \notin Faults
    PROVE  Spec => []WalkInv
  <1>1. Init => WalkInv
    BY DEF Init, WalkInv, WalkCorrect, KernelArray, Idle
  <1>2. TypeInv /\ WalkInv /\ UNCHANGED vars => WalkInv'
    BY DEF WalkInv, WalkCorrect, KernelArray, Source, vars
  <1> QED BY <1>1, <1>2, TypeCorrect, WalkStep, PTL DEF Spec

\* For paths of any depth and array of any length: when a walk is not
\* preempted, a finished hook went by the parent, the basename, the path and
\* the deepest MAX_FOLDER_ANCESTORS prefixes of its own file.
THEOREM WalkTheorem ==
    ASSUME "preempt" \notin Faults
    PROVE  Spec => []WalkCorrect
  <1>1. WalkInv => WalkCorrect
    BY DEF WalkInv
  <1> QED BY <1>1, WalkSafe, PTL

\* A prefix that conversion leaves alone is a prefix of the converted path.
LEMMA ProperPrefix ==
    ASSUME NEW path \in Seq(Names), NEW k \in 0 .. Len(path),
           lossy(SubSeq(path, 1, k)) = SubSeq(path, 1, k)
    PROVE  SubSeq(lossy(path), 1, k) = SubSeq(path, 1, k)
  <1>1. /\ lossy(path) \in Seq(Names) /\ Len(lossy(path)) = Len(path)
        /\ \A m \in 1 .. Len(path) : lossy(path)[m] = Lossy[path[m]]
    BY LossyAssumption DEF lossy
  <1>2. PICK pre : pre = SubSeq(path, 1, k)
    OBVIOUS
  <1>3. /\ pre \in Seq(Names) /\ DOMAIN pre = 1 .. k
        /\ \A m \in 1 .. k : pre[m] = path[m]
    BY <1>2
  <1>4. \A m \in 1 .. k : Lossy[pre[m]] = pre[m]
    <2>1. lossy(pre) = pre
      BY <1>2
    <2>2. \A m \in DOMAIN pre : lossy(pre)[m] = Lossy[pre[m]]
      BY DEF lossy
    <2> QED BY <1>3, <2>1, <2>2
  <1>5. PICK new : new = SubSeq(lossy(path), 1, k)
    OBVIOUS
  <1>6. /\ new \in Seq(Names) /\ DOMAIN new = 1 .. k
        /\ \A m \in 1 .. k : new[m] = lossy(path)[m]
    BY <1>1, <1>5
  <1>7. \A m \in 1 .. k : new[m] = pre[m]
    BY <1>1, <1>3, <1>4, <1>6
  <1>8. new = pre
    BY <1>3, <1>6, <1>7
  <1> QED BY <1>2, <1>5, <1>8

\* One slot of a masked array.
LEMMA MaskedAt ==
    ASSUME NEW path, NEW j \in Index
    PROVE  LET here == {k \in 0 .. Len(path) - 1 : k % MAX_FOLDER_ANCESTORS = j}
           IN  MaskedAncestors(path)[j] =
                  IF here = {} THEN NoHash
                  ELSE SubSeq(path, 1, CHOOSE k \in here : \A m \in here : m <= k)
  BY DEF MaskedAncestors

\* A slot whose prefix is UTF-8, or that is empty, is the same in userspace.
LEMMA ProperSlot ==
    ASSUME NEW path \in Seq(Names), path \in Paths, NEW j \in Index, NEW v,
           Entry(path, Len(path), j, v), Proper(v)
    PROVE  v = UserAncestors(path)[j]
  <1>0. Len(path) \in Nat /\ Len(lossy(path)) = Len(path)
    BY LossyAssumption DEF lossy
  <1>1. PICK here : here = {k \in 0 .. Len(path) - 1 :
                               k % MAX_FOLDER_ANCESTORS = j}
    OBVIOUS
  <1>2. PICK top : top = CHOOSE k \in here : \A m \in here : m <= k
    OBVIOUS
  <1>3. UserAncestors(path)[j] =
           IF here = {} THEN NoHash ELSE SubSeq(lossy(path), 1, top)
    <2>1. PICK new : new = lossy(path)
      OBVIOUS
    <2>2. here = {k \in 0 .. Len(new) - 1 : k % MAX_FOLDER_ANCESTORS = j}
      BY <1>0, <1>1, <2>1
    <2>3. MaskedAncestors(new)[j] =
             IF here = {} THEN NoHash
             ELSE SubSeq(new, 1, CHOOSE k \in here : \A m \in here : m <= k)
      BY <2>2, MaskedAt
    <2> QED BY <1>2, <2>1, <2>3 DEF UserAncestors
  <1>4. CASE v = NoHash /\ \A k \in 0 .. Len(path) - 1 : k % N # j
    BY <1>1, <1>3, <1>4 DEF N
  <1>5. ASSUME NEW k \in 0 .. Len(path) - 1, k % N = j,
               v = SubSeq(path, 1, k),
               \A m \in 0 .. Len(path) - 1 : m % N = j => m <= k
        PROVE  v = UserAncestors(path)[j]
    <2>1. k \in here /\ here \subseteq Int /\ \A m \in here : m <= k
      BY <1>0, <1>1, <1>5 DEF N
    <2>2. top \in here /\ \A m \in here : m <= top
      BY <1>2, <2>1
    <2>3. top = k
      BY <2>1, <2>2
    <2>4. v # NoHash
      BY <1>5, PathSeq
    <2>5. SubSeq(lossy(path), 1, k) = SubSeq(path, 1, k)
      BY <1>0, <1>5, <2>4, ProperPrefix DEF Proper
    <2> QED BY <1>3, <1>5, <2>1, <2>3, <2>5
  <1> QED BY <1>4, <1>5 DEF Entry

\* UserspaceAgrees, for paths of any depth and arrays of any length: when a
\* walk is not preempted, userspace's array for the xattr has every prefix that
\* is UTF-8 in the same slot as the kernel's, and no slot filled that the
\* kernel left empty.
THEOREM UserspaceTheorem ==
    ASSUME "preempt" \notin Faults
    PROVE  Spec => []UserspaceAgrees
  <1>1. WalkInv => UserspaceAgrees
    <2> SUFFICES ASSUME KernelArray, out # NoOut, NEW j \in Index,
                        Proper(out.ancestors[j])
                 PROVE  out.ancestors[j] = UserAncestors(out.file)[j]
      BY DEF WalkInv, UserspaceAgrees
    <2>1. PICK path \in Seq(Names) : path = out.file /\ path \in Paths
      BY LossyAssumption DEF KernelArray
    <2>2. PICK v : v = out.ancestors[j]
      OBVIOUS
    <2>3. Entry(path, Len(path), j, v) /\ Proper(v)
      BY <2>1, <2>2 DEF KernelArray, Entries
    <2> QED BY <2>1, <2>2, <2>3, ProperSlot
  <1> QED BY <1>1, WalkSafe, PTL
=============================================================================
