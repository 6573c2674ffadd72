---------------------------- MODULE PersistProofs ----------------------------
(***************************************************************************)
(* Theorems about Persist: for every number of processes, files, names and *)
(* ring entries, a record's creator is the one who fetched the content, a  *)
(* record is only on a file that was written, and storage and xattr agree  *)
(* once the events of the file are handled.                                *)
(*                                                                         *)
(* The arguments go by the set of events under way, in the ring or in the  *)
(* handler, and never by the order of the ring.                            *)
(***************************************************************************)
EXTENDS Persist, TLAPS

\* The events in the ring, and with the one the handler works on.
InRing == {EVENTS[k] : k \in DOMAIN EVENTS}
Pending == InRing \cup ({event} \ {None})

-----------------------------------------------------------------------------
(* The ring as a set.                                                      *)

\* emit_event adds the event or notes its inode as dropped.
LEMMA EmitRing ==
    ASSUME NEW ev \in Events, TypeOK, emit_event(ev)
    PROVE  /\ EVENTS' \in Seq(Events) /\ Len(EVENTS') <= RING
           /\ \/ InRing' = InRing \cup {ev} /\ dropped' = dropped
              \/ InRing' = InRing /\ dropped' = dropped \cup {ev.inode}
  <1>1. CASE Len(EVENTS) < RING
    <2>1. EVENTS' = Append(EVENTS, ev) /\ dropped' = dropped /\ EVENTS \in Seq(Events)
          /\ RING \in Nat
      BY <1>1, PersistAssumption DEF emit_event, TypeOK
    <2>2. EVENTS' \in Seq(Events) /\ Len(EVENTS') <= RING
      BY <1>1, <2>1
    <2>3. InRing' = InRing \cup {ev}
      <3>1. ASSUME NEW e \in InRing PROVE e \in InRing'
        BY <2>1, <3>1 DEF InRing
      <3>2. ev \in InRing'
        <4>1. Len(EVENTS) + 1 \in DOMAIN EVENTS' /\ EVENTS'[Len(EVENTS) + 1] = ev
          BY <2>1
        <4> QED BY <4>1 DEF InRing
      <3>3. ASSUME NEW e \in InRing' PROVE e \in InRing \cup {ev}
        <4>1. PICK k \in DOMAIN EVENTS' : e = EVENTS'[k]
          BY <3>3 DEF InRing
        <4>2. k \in DOMAIN EVENTS => EVENTS'[k] = EVENTS[k]
          BY <2>1
        <4>3. k \notin DOMAIN EVENTS => EVENTS'[k] = ev
          BY <2>1, <4>1
        <4> QED BY <4>1, <4>2, <4>3 DEF InRing
      <3> QED BY <3>1, <3>2, <3>3
    <2> QED BY <2>1, <2>2, <2>3
  <1>2. CASE ~(Len(EVENTS) < RING)
    BY <1>2 DEF emit_event, TypeOK, InRing
  <1> QED BY <1>1, <1>2

\* Take moves the oldest event from the ring to the handler.
LEMMA TakeRing ==
    ASSUME TypeOK, Take
    PROVE  /\ EVENTS' \in Seq(Events) /\ Len(EVENTS') <= RING
           /\ event' \in InRing /\ InRing = InRing' \cup {event'}
  <1>1. EVENTS \in Seq(Events) /\ EVENTS # <<>> /\ EVENTS' = Tail(EVENTS)
        /\ event' = EVENTS[1] /\ RING \in Nat /\ Len(EVENTS) <= RING
    BY PersistAssumption DEF Take, TypeOK
  <1>2. EVENTS' \in Seq(Events) /\ Len(EVENTS') = Len(EVENTS) - 1
    BY <1>1
  <1>3. 1 \in DOMAIN EVENTS
    BY <1>1
  <1>4. ASSUME NEW e \in InRing' PROVE e \in InRing
    <2>1. PICK k \in DOMAIN EVENTS' : e = EVENTS'[k]
      BY <1>4 DEF InRing
    <2>2. k + 1 \in DOMAIN EVENTS /\ EVENTS'[k] = EVENTS[k + 1]
      BY <1>1, <1>2, <2>1
    <2> QED BY <2>1, <2>2 DEF InRing
  <1>5. ASSUME NEW e \in InRing PROVE e \in InRing' \cup {event'}
    <2>1. PICK k \in DOMAIN EVENTS : e = EVENTS[k]
      BY <1>5 DEF InRing
    <2>2. k # 1 => k - 1 \in DOMAIN EVENTS' /\ EVENTS'[k - 1] = EVENTS[k]
      BY <1>1, <1>2, <2>1
    <2> QED BY <1>1, <2>1, <2>2 DEF InRing
  <1>6. event' \in InRing
    BY <1>1, <1>3 DEF InRing
  <1> QED BY <1>1, <1>2, <1>4, <1>5, <1>6

\* Everything in the ring is an event.
LEMMA RingType == TypeOK => InRing \subseteq Events
  BY DEF TypeOK, InRing

-----------------------------------------------------------------------------
(* Type correctness.                                                       *)

\* The events and records of a write, whoever writes.
LEMMA WriteTypes ==
    ASSUME TypeOK, NEW p \in Pids, NEW n \in Names, NEW rec \in Records,
           NEW derived \in BOOLEAN, at[n] \in Inodes, Mark(p, n, rec, derived)
    PROVE  TypeOK' /\ rec # NoRecord
  <1> DEFINE ev == [name |-> n, pid |-> p, rec |-> rec, derived |-> derived,
                    inode |-> at[n]]
  <1>1. ev \in Events
    BY DEF Events
  <1>2. emit_event(ev)
    BY DEF Mark
  <1> HIDE DEF ev
  <1>3. /\ EVENTS' \in Seq(Events) /\ Len(EVENTS') <= RING
        /\ dropped' = dropped \/ dropped' = dropped \cup {ev.inode}
    BY <1>1, <1>2, EmitRing
  <1>4. ev.inode \in Inodes
    BY <1>1 DEF Events
  <1>5. INODE_MARKS' \in [Inodes -> Records \cup {NoRecord}]
    BY DEF Mark, TypeOK
  <1> QED BY <1>3, <1>4, <1>5, PersistAssumption DEF TypeOK, Mark, handler

\* A writer's record: its own, or the one of the file it has read.
LEMMA DownloadRecord ==
    ASSUME TypeOK, NEW p \in Pids, NEW n \in Names, Download(p, n)
    PROVE  /\ [by |-> prog[p], exe |-> NoHash, name |-> n] \in Records
           /\ at[n] \in Inodes
  BY DEF TypeOK, Download, Records

\* A copy takes the record of its source, from the inode or the xattr, under
\* its own name.
LEMMA DeriveRecord ==
    ASSUME TypeOK, NEW p \in Pids, NEW m \in Names, NEW n \in Names,
           Derive(p, m, n)
    PROVE  \E src \in Records :
              /\ src \in {INODE_MARKS[at[m]], xattr[at[m]]}
              /\ [by |-> src.by, exe |-> src.exe, name |-> n] \in Records
              /\ at[m] \in Inodes /\ at[n] \in Inodes
              /\ Mark(p, n, [by |-> src.by, exe |-> src.exe, name |-> n], TRUE)
  <1> DEFINE src == IF INODE_MARKS[at[m]] # NoRecord THEN INODE_MARKS[at[m]]
                    ELSE xattr[at[m]]
  <1>1. /\ src # NoRecord /\ at[m] \in Inodes /\ at[n] \in Inodes
        /\ Mark(p, n, [by |-> src.by, exe |-> src.exe, name |-> n], TRUE)
    BY DEF Derive
  <1>2. src \in Records /\ src \in {INODE_MARKS[at[m]], xattr[at[m]]}
    BY <1>1 DEF TypeOK
  <1> HIDE DEF src
  <1>3. [by |-> src.by, exe |-> src.exe, name |-> n] \in Records
    BY <1>2 DEF Records
  <1> QED BY <1>1, <1>2, <1>3

\* TypeOK is inductive by itself.
LEMMA TypeStep == TypeOK /\ Next => TypeOK'
  <1> SUFFICES ASSUME TypeOK, Next PROVE TypeOK'
    OBVIOUS
  <1>1. ASSUME NEW p \in Pids, NEW n \in Names, Download(p, n) PROVE TypeOK'
    BY <1>1, DownloadRecord, WriteTypes DEF Download
  <1>2. ASSUME NEW p \in Pids, NEW m \in Names, NEW n \in Names, Derive(p, m, n)
        PROVE  TypeOK'
    <2>1. PICK src \in Records :
             /\ [by |-> src.by, exe |-> src.exe, name |-> n] \in Records
             /\ at[n] \in Inodes
             /\ Mark(p, n, [by |-> src.by, exe |-> src.exe, name |-> n], TRUE)
      BY <1>2, DeriveRecord
    <2> DEFINE rec == [by |-> src.by, exe |-> src.exe, name |-> n]
    <2>2. rec \in Records /\ Mark(p, n, rec, TRUE)
      BY <2>1
    <2> HIDE DEF rec
    <2> QED BY <2>1, <2>2, WriteTypes
  <1>3. ASSUME NEW p \in Pids, Exit(p) \/ \E e \in Exes : Exec(p, e)
        PROVE  TypeOK'
    BY <1>3 DEF TypeOK, Exit, Exec, files, handler
  <1>4. ASSUME NEW n \in Names, ReadBack(n) \/ Symlink(n)
        PROVE  TypeOK'
    BY <1>4 DEF TypeOK, ReadBack, Symlink, handler
  <1>5. ASSUME NEW m \in Names, NEW n \in Names, Move(m, n)
        PROVE  TypeOK'
    <2>1. at' \in [Names -> Inodes \cup {Link, None}] /\ dropped' \subseteq Inodes
      BY <1>5 DEF TypeOK, Move
    <2> QED BY <1>5, <2>1 DEF TypeOK, Move, handler
  <1>6. ASSUME NEW i \in Inodes, Evict(i) PROVE TypeOK'
    BY <1>6 DEF TypeOK, Evict, handler
  <1>7. CASE Take
    <2>1. event' \in Events /\ event' # None /\ event'.rec \in Records
          /\ event'.rec # NoRecord
      BY <1>7, TakeRing, RingType, PersistAssumption DEF Events
    <2> QED BY <1>7, <2>1, TakeRing DEF TypeOK, Take, files
  <1>8. CASE Resolve
    <2>1. event \in Events /\ event.rec \in Records
      BY <1>8 DEF Resolve, TypeOK, Events
    <2>2. creator_of(event) \in Exes \cup {NoHash}
      BY <2>1 DEF creator_of, TypeOK, Events, Records
    <2>3. augmented' \in Records
      BY <1>8, <2>1, <2>2 DEF Resolve, Records
    <2>4. augmented' # NoRecord
      BY <2>3, PersistAssumption
    <2> QED BY <1>8, <2>3, <2>4 DEF TypeOK, Resolve, files
  <1>9. CASE open_mark_target
    BY <1>9, PersistAssumption DEF TypeOK, open_mark_target, Done, files
  <1>10. CASE set_origin_xattr
    <2>1. fd \in Inodes /\ event \in Events
      BY <1>10 DEF TypeOK, set_origin_xattr
    <2>2. event.inode \in Inodes
      BY <2>1 DEF Events
    <2>3. dropped' \subseteq Inodes
      BY <1>10, <2>1, <2>2 DEF TypeOK, set_origin_xattr
    <2>4. xattr' \in [Inodes -> Records \cup {NoRecord}]
      BY <1>10, <2>1 DEF TypeOK, set_origin_xattr, replaced
    <2> QED BY <1>10, <2>3, <2>4 DEF TypeOK, set_origin_xattr
  <1>11. CASE backfill
    BY <1>11 DEF TypeOK, backfill, Done
  <1>12. CASE Crash
    <2>1. EVENTS' \in Seq(Events) /\ Len(EVENTS') <= RING
      BY <1>12, PersistAssumption DEF Crash
    <2> QED BY <1>12, <2>1 DEF TypeOK, Crash, Done
  <1>13. CASE Start
    BY <1>13 DEF TypeOK, Start, files, handler
  <1> QED BY <1>1, <1>2, <1>3, <1>4, <1>5, <1>6, <1>7, <1>8, <1>9, <1>10, <1>11,
             <1>12, <1>13
          DEF Next, Handle

\* Every variable keeps its type, the ring its bound, and the handler holds an
\* event exactly while it works and a descriptor exactly from
\* open_mark_target to the end.
THEOREM TypeCorrect == Spec => []TypeOK
  <1>1. Init => TypeOK
    BY PersistAssumption DEF Init, TypeOK
  <1>2. TypeOK /\ UNCHANGED vars => TypeOK'
    BY DEF TypeOK, vars
  <1> QED BY <1>1, <1>2, TypeStep, PTL DEF Spec

-----------------------------------------------------------------------------
(* Who the creator is.                                                     *)

\* A record that names no executable but its writer's.
Honest(rec) == rec # NoRecord => rec.exe \in {NoHash, rec.by}

\* CreatorTrue holds because a fresh event's process still runs the program
\* that wrote, or has ended, while the event is under way: resolving it then
\* can only find the writer.
HonestInv ==
    /\ \A i \in Inodes : Honest(INODE_MARKS[i]) /\ Honest(xattr[i])
    /\ Honest(augmented)
    /\ \A e \in Pending : /\ Honest(e.rec)
                          /\ e.derived \/ prog[e.pid] \in {None, e.rec.by}

\* What a write adds to the events under way.
LEMMA MarkPending ==
    ASSUME TypeOK, NEW p \in Pids, NEW n \in Names, NEW rec \in Records,
           NEW derived \in BOOLEAN, at[n] \in Inodes, Mark(p, n, rec, derived),
           NEW ev,
           ev = [name |-> n, pid |-> p, rec |-> rec, derived |-> derived,
                 inode |-> at[n]]
    PROVE  /\ ev \in Events
           /\ \/ Pending' = Pending \cup {ev} /\ dropped' = dropped
              \/ Pending' = Pending /\ dropped' = dropped \cup {at[n]}
  <1>1. ev \in Events
    BY DEF Events
  <1>2. emit_event(ev) /\ event' = event
    BY DEF Mark, handler
  <1>3. ev.inode = at[n]
    OBVIOUS
  <1>4. \/ InRing' = InRing \cup {ev} /\ dropped' = dropped
        \/ InRing' = InRing /\ dropped' = dropped \cup {ev.inode}
    BY <1>1, <1>2, EmitRing
  <1> QED BY <1>1, <1>2, <1>3, <1>4 DEF Pending

\* A write of an honest record keeps all of them honest.
LEMMA MarkHonest ==
    ASSUME TypeOK, HonestInv, NEW p \in Pids, NEW n \in Names,
           NEW rec \in Records, NEW derived \in BOOLEAN, at[n] \in Inodes,
           Mark(p, n, rec, derived), Honest(rec),
           derived \/ prog[p] \in {None, rec.by}
    PROVE  HonestInv'
  <1>1. PICK ev : ev = [name |-> n, pid |-> p, rec |-> rec, derived |-> derived,
                        inode |-> at[n]]
    OBVIOUS
  <1>2. Pending' \subseteq Pending \cup {ev}
    BY <1>1, MarkPending
  <1>3. ev.rec = rec /\ ev.pid = p /\ ev.derived = derived
    BY <1>1
  <1>4. UNCHANGED <<prog, xattr, augmented>>
    BY DEF Mark, handler
  <1>5. ASSUME NEW i \in Inodes
        PROVE  INODE_MARKS'[i] \in {INODE_MARKS[i], rec}
    BY <1>5 DEF Mark, TypeOK
  <1>6. \A e \in Pending' : /\ Honest(e.rec)
                            /\ e.derived \/ prog'[e.pid] \in {None, e.rec.by}
    BY <1>2, <1>3, <1>4 DEF HonestInv
  <1> QED BY <1>4, <1>5, <1>6 DEF HonestInv, Honest

\* Steps that touch neither records nor processes and take no event in.
LEMMA SameHonest ==
    ASSUME HonestInv, UNCHANGED prog, Pending' \subseteq Pending,
           \A i \in Inodes : INODE_MARKS'[i] \in {INODE_MARKS[i], xattr[i], augmented, NoRecord},
           \A i \in Inodes : xattr'[i] \in {xattr[i], augmented},
           augmented' \in {augmented, NoRecord}
    PROVE  HonestInv'
  <1>1. Honest(NoRecord)
    BY DEF Honest
  <1>2. \A i \in Inodes : Honest(INODE_MARKS'[i])
    BY <1>1 DEF HonestInv
  <1>3. \A i \in Inodes : Honest(xattr'[i])
    BY DEF HonestInv
  <1>4. Honest(augmented')
    BY <1>1 DEF HonestInv
  <1>5. \A e \in Pending' : /\ Honest(e.rec)
                            /\ e.derived \/ prog'[e.pid] \in {None, e.rec.by}
    BY DEF HonestInv
  <1> QED BY <1>2, <1>3, <1>4, <1>5 DEF HonestInv, Honest

\* As long as no writer execs before its event is handled, every step keeps
\* records truthful.
LEMMA HonestStep ==
    ASSUME "exec" \notin Faults
    PROVE  TypeOK /\ HonestInv /\ Next => HonestInv'
  <1> SUFFICES ASSUME TypeOK, HonestInv, Next PROVE HonestInv'
    OBVIOUS
  <1>0. Pending \subseteq Events
    BY RingType DEF Pending, TypeOK
  <1>1. ASSUME NEW p \in Pids, NEW n \in Names, Download(p, n) PROVE HonestInv'
    <2> DEFINE rec == [by |-> prog[p], exe |-> NoHash, name |-> n]
    <2>1. rec \in Records /\ at[n] \in Inodes /\ Mark(p, n, rec, FALSE)
      BY <1>1, DownloadRecord DEF Download
    <2>2. rec.exe = NoHash /\ rec.by = prog[p]
      OBVIOUS
    <2> HIDE DEF rec
    <2>3. Honest(rec)
      BY <2>2 DEF Honest
    <2> QED BY <2>1, <2>2, <2>3, MarkHonest
  <1>2. ASSUME NEW p \in Pids, NEW m \in Names, NEW n \in Names, Derive(p, m, n)
        PROVE  HonestInv'
    <2>1. PICK src \in Records :
              /\ src \in {INODE_MARKS[at[m]], xattr[at[m]]}
              /\ [by |-> src.by, exe |-> src.exe, name |-> n] \in Records
              /\ at[m] \in Inodes /\ at[n] \in Inodes
              /\ Mark(p, n, [by |-> src.by, exe |-> src.exe, name |-> n], TRUE)
      BY <1>2, DeriveRecord
    <2> DEFINE rec == [by |-> src.by, exe |-> src.exe, name |-> n]
    <2>2. rec \in Records /\ Mark(p, n, rec, TRUE) /\ rec.exe = src.exe
          /\ rec.by = src.by
      BY <2>1
    <2> HIDE DEF rec
    <2>3. Honest(src) /\ src # NoRecord
      BY <2>1, PersistAssumption DEF HonestInv
    <2>4. Honest(rec)
      BY <2>2, <2>3 DEF Honest
    <2> QED BY <2>1, <2>2, <2>4, MarkHonest
  <1>3. ASSUME NEW p \in Pids, Exit(p) PROVE HonestInv'
    <2>1. /\ UNCHANGED <<INODE_MARKS, xattr, augmented>> /\ Pending' = Pending
          /\ prog' = [prog EXCEPT ![p] = None]
      BY <1>3 DEF Exit, files, handler, Pending, InRing
    <2>2. \A e \in Pending : e.derived \/ prog'[e.pid] \in {None, e.rec.by}
      BY <1>0, <2>1 DEF HonestInv, TypeOK, Events
    <2> QED BY <2>1, <2>2 DEF HonestInv, Honest
  <1>4. ASSUME NEW p \in Pids, NEW x \in Exes, Exec(p, x) PROVE HonestInv'
    <2>1. /\ UNCHANGED <<INODE_MARKS, xattr, augmented>> /\ Pending' = Pending
          /\ prog' = [prog EXCEPT ![p] = x] /\ Quiet(p)
      BY <1>4 DEF Exec, files, handler, Pending, InRing
    <2>2. \A e \in Pending : e.pid # p
      BY <2>1 DEF Quiet, Pending, InRing, TypeOK
    <2>3. \A e \in Pending : e.derived \/ prog'[e.pid] \in {None, e.rec.by}
      BY <1>0, <2>1, <2>2 DEF HonestInv, TypeOK, Events
    <2> QED BY <2>1, <2>3 DEF HonestInv, Honest
  <1>5. ASSUME NEW n \in Names, ReadBack(n) \/ Symlink(n)
        PROVE  HonestInv'
    <2>1. UNCHANGED <<prog, xattr, augmented>> /\ Pending' = Pending
      BY <1>5 DEF ReadBack, Symlink, handler, Pending, InRing
    <2>2. ASSUME NEW i \in Inodes PROVE INODE_MARKS'[i] \in {INODE_MARKS[i], xattr[i]}
      BY <1>5, <2>2 DEF ReadBack, Symlink, TypeOK
    <2> QED BY <2>1, <2>2, SameHonest
  <1>6. ASSUME \/ \E m, n \in Names : Move(m, n)
               \/ \E i \in Inodes : Evict(i)
               \/ Start
        PROVE  HonestInv'
    <2>1. UNCHANGED <<prog, xattr, augmented>> /\ Pending' = Pending
      BY <1>6 DEF Move, Evict, Start, files, handler, Pending, InRing
    <2>2. ASSUME NEW i \in Inodes PROVE INODE_MARKS'[i] \in {INODE_MARKS[i], NoRecord}
      BY <1>6, <2>2 DEF Move, Evict, Start, files, TypeOK
    <2> QED BY <2>1, <2>2, SameHonest
  <1>7. CASE Take
    <2>1. UNCHANGED <<prog, INODE_MARKS, xattr>> /\ augmented' = event'.rec
      BY <1>7 DEF Take, files
    <2>2. Pending' \subseteq Pending /\ event' \in Pending
      BY <1>7, TakeRing DEF Pending
    <2> QED BY <2>1, <2>2 DEF HonestInv, Honest
  <1>8. CASE Resolve
    <2>1. /\ UNCHANGED <<prog, INODE_MARKS, xattr>> /\ Pending' = Pending
          /\ event \in Pending /\ event \in Events
      BY <1>8 DEF Resolve, files, Pending, InRing, TypeOK
    <2>2. creator_of(event) \in {NoHash, event.rec.by}
      <3>1. event.rec \in Records
        BY <2>1 DEF Events
      <3>2. event.rec # NoRecord
        BY <3>1, PersistAssumption
      <3>3. event.rec.exe \in {NoHash, event.rec.by}
        BY <2>1, <3>2 DEF HonestInv, Honest
      <3> QED BY <2>1, <3>3 DEF HonestInv, creator_of
    <2>3. augmented'.exe = creator_of(event) /\ augmented'.by = event.rec.by
      BY <1>8 DEF Resolve
    <2>4. Honest(augmented')
      BY <2>2, <2>3 DEF Honest
    <2> QED BY <2>1, <2>4 DEF HonestInv, Honest
  <1>9. CASE open_mark_target \/ set_origin_xattr \/ backfill \/ Crash
    <2>1. UNCHANGED prog /\ augmented' \in {augmented, NoRecord}
      BY <1>9 DEF open_mark_target, set_origin_xattr, backfill, Crash, Done
    <2>2. Pending' \subseteq Pending
      <3>1. event' \in {event, None} /\ EVENTS' \in {EVENTS, <<>>}
        BY <1>9 DEF open_mark_target, set_origin_xattr, backfill, Crash, Done
      <3>2. InRing' \subseteq InRing
        BY <3>1 DEF InRing
      <3> QED BY <3>1, <3>2 DEF Pending
    <2>3. ASSUME NEW i \in Inodes PROVE INODE_MARKS'[i] \in {INODE_MARKS[i], augmented, NoRecord}
      BY <1>9, <2>3 DEF open_mark_target, set_origin_xattr, backfill, Crash, files, TypeOK
    <2>4. ASSUME NEW i \in Inodes PROVE xattr'[i] \in {xattr[i], augmented}
      BY <1>9, <2>4 DEF open_mark_target, set_origin_xattr, backfill, Crash, files,
                        replaced, TypeOK
    <2> QED BY <2>1, <2>2, <2>3, <2>4, SameHonest
  <1> QED BY <1>1, <1>2, <1>3, <1>4, <1>5, <1>6, <1>7, <1>8, <1>9 DEF Next, Handle

\* While no process runs another program, or passes its pid on, under an event
\* of its own, every record in storage, on disk or under way names the
\* executable that fetched the content or none, through any chain of copies,
\* crashes, evictions and renames.
THEOREM CreatorTheorem ==
    ASSUME "exec" \notin Faults
    PROVE  Spec => []CreatorTrue
  <1>1. Init => TypeOK /\ HonestInv
    BY PersistAssumption DEF Init, TypeOK, HonestInv, Honest, Pending, InRing
  <1>2. TypeOK /\ HonestInv /\ UNCHANGED vars => HonestInv' /\ TypeOK'
    BY DEF TypeOK, HonestInv, Honest, Pending, InRing, vars
  <1>3. TypeOK /\ HonestInv => CreatorTrue
    BY DEF HonestInv, Honest, CreatorTrue, AllRecords, Pending, InRing, TypeOK
  <1> QED BY <1>1, <1>2, <1>3, TypeStep, HonestStep, PTL DEF Spec

-----------------------------------------------------------------------------
(* Where records are.                                                      *)

\* Written or moved about.
Touched == web \cup dropped

\* OnlyWritten, and what the handler is about to write to: the inode of an
\* event has been written, and so has whatever inode has its name now, unless
\* the name was moved meanwhile.
WrittenInv ==
    /\ \A i \in Inodes :
          INODE_MARKS[i] # NoRecord \/ xattr[i] # NoRecord => i \in Touched
    /\ \A e \in Pending : /\ e.inode \in web
                          /\ at[e.name] \in Inodes => at[e.name] \in Touched
    /\ fd # None => fd \in Touched

\* Steps that move no name, mark nothing and take no event in.
LEMMA SameWritten ==
    ASSUME WrittenInv, UNCHANGED <<at, web>>, Touched \subseteq Touched',
           Pending' \subseteq Pending,
           \A i \in Inodes : INODE_MARKS'[i] \in {INODE_MARKS[i], xattr[i], NoRecord}
                                \/ i \in Touched,
           \A i \in Inodes : xattr'[i] = xattr[i] \/ i \in Touched,
           fd' # None => fd' \in Touched
    PROVE  WrittenInv'
  <1>1. \A i \in Inodes : INODE_MARKS'[i] # NoRecord \/ xattr'[i] # NoRecord
                            => i \in Touched'
    BY DEF WrittenInv
  <1>2. \A e \in Pending' : /\ e.inode \in web'
                            /\ at'[e.name] \in Inodes => at'[e.name] \in Touched'
    BY DEF WrittenInv
  <1> QED BY <1>1, <1>2 DEF WrittenInv

\* A mark by file_open keeps WrittenInv.
LEMMA MarkWritten ==
    ASSUME TypeOK, WrittenInv, NEW p \in Pids, NEW n \in Names,
           NEW rec \in Records, NEW derived \in BOOLEAN, at[n] \in Inodes,
           Mark(p, n, rec, derived)
    PROVE  WrittenInv'
  <1>1. PICK ev : ev = [name |-> n, pid |-> p, rec |-> rec, derived |-> derived,
                        inode |-> at[n]]
    OBVIOUS
  <1>2. Pending' \subseteq Pending \cup {ev} /\ dropped \subseteq dropped'
    BY <1>1, MarkPending
  <1>3. ev.inode = at[n] /\ ev.name = n
    BY <1>1
  <1>4. UNCHANGED <<at, xattr, fd>> /\ web' = web \cup {at[n]}
    BY DEF Mark, handler
  <1>5. ASSUME NEW i \in Inodes, i # at[n] PROVE INODE_MARKS'[i] = INODE_MARKS[i]
    BY <1>5 DEF Mark, TypeOK
  <1>6. Touched \subseteq Touched' /\ at[n] \in Touched'
    BY <1>2, <1>4 DEF Touched
  <1>7. \A i \in Inodes : INODE_MARKS'[i] # NoRecord \/ xattr'[i] # NoRecord
                            => i \in Touched'
    BY <1>4, <1>5, <1>6 DEF WrittenInv
  <1>8. \A e \in Pending' : /\ e.inode \in web'
                            /\ at'[e.name] \in Inodes => at'[e.name] \in Touched'
    BY <1>2, <1>3, <1>4, <1>6 DEF WrittenInv
  <1> QED BY <1>4, <1>6, <1>7, <1>8 DEF WrittenInv

\* A name with no event under way.
LEMMA SettledPending ==
    ASSUME TypeOK, NEW n, Settled(n)
    PROVE  \A e \in Pending : e.name # n
  BY DEF TypeOK, Settled, Pending, InRing

\* Every step keeps WrittenInv.
LEMMA WrittenStep == TypeOK /\ WrittenInv /\ Next => WrittenInv'
  <1> SUFFICES ASSUME TypeOK, WrittenInv, Next PROVE WrittenInv'
    OBVIOUS
  <1>0. Pending \subseteq Events
    BY RingType DEF Pending, TypeOK
  <1>1. ASSUME NEW p \in Pids, NEW n \in Names, Download(p, n) PROVE WrittenInv'
    BY <1>1, DownloadRecord, MarkWritten DEF Download
  <1>2. ASSUME NEW p \in Pids, NEW m \in Names, NEW n \in Names, Derive(p, m, n)
        PROVE  WrittenInv'
    <2>1. PICK src \in Records :
              /\ [by |-> src.by, exe |-> src.exe, name |-> n] \in Records
              /\ at[n] \in Inodes
              /\ Mark(p, n, [by |-> src.by, exe |-> src.exe, name |-> n], TRUE)
      BY <1>2, DeriveRecord
    <2> DEFINE rec == [by |-> src.by, exe |-> src.exe, name |-> n]
    <2>2. rec \in Records /\ Mark(p, n, rec, TRUE)
      BY <2>1
    <2> HIDE DEF rec
    <2> QED BY <2>1, <2>2, MarkWritten
  <1>3. ASSUME \/ \E p \in Pids : Exit(p) \/ \E x \in Exes : Exec(p, x)
               \/ Start \/ Resolve
        PROVE  WrittenInv'
    <2>1. UNCHANGED <<at, INODE_MARKS, xattr, web, dropped, fd>> /\ Pending' = Pending
      BY <1>3 DEF Exit, Exec, Start, Resolve, files, handler, Pending, InRing
    <2> QED BY <2>1 DEF WrittenInv, Touched
  <1>4. ASSUME \/ \E n \in Names : ReadBack(n)
               \/ \E i \in Inodes : Evict(i)
        PROVE  WrittenInv'
    <2>1. UNCHANGED <<at, xattr, web, dropped, fd>> /\ Pending' = Pending
      BY <1>4 DEF ReadBack, Evict, handler, Pending, InRing
    <2>2. ASSUME NEW i \in Inodes PROVE INODE_MARKS'[i] \in {INODE_MARKS[i], xattr[i], NoRecord}
      BY <1>4, <2>2 DEF ReadBack, Evict, TypeOK
    <2>3. Touched' = Touched
      BY <2>1 DEF Touched
    <2>4. fd' # None => fd' \in Touched
      BY <2>1 DEF WrittenInv
    <2> QED BY <2>1, <2>2, <2>3, <2>4, SameWritten
  <1>5. ASSUME NEW n \in Names, Symlink(n) PROVE WrittenInv'
    <2>1. /\ UNCHANGED <<INODE_MARKS, xattr, web, dropped, fd>> /\ Pending' = Pending
          /\ at' = [at EXCEPT ![n] = Link]
      BY <1>5 DEF Symlink, handler, Pending, InRing
    <2>2. \A k \in Names : at'[k] \in Inodes => at'[k] = at[k]
      BY <2>1, PersistAssumption DEF TypeOK
    <2>3. \A e \in Pending : e.name \in Names
      BY <1>0 DEF Events
    <2> QED BY <2>1, <2>2, <2>3 DEF WrittenInv, Touched
  <1>6. ASSUME NEW m \in Names, NEW n \in Names, Move(m, n) PROVE WrittenInv'
    <2>1. /\ UNCHANGED <<INODE_MARKS, xattr, web, fd>> /\ Pending' = Pending
          /\ at' = [at EXCEPT ![n] = at[m], ![m] = None]
      BY <1>6 DEF Move, handler, Pending, InRing
    <2>2. Touched \subseteq Touched'
      BY <1>6 DEF Move, Touched
    <2>3. \A e \in Pending : at'[e.name] \in Inodes => at'[e.name] \in Touched'
      <3>1. ASSUME NEW e \in Pending, at'[e.name] \in Inodes
            PROVE  at'[e.name] \in Touched'
        <4>1. e.name \in Names
          BY <1>0 DEF Events
        <4>2. CASE e.name = m
          BY <2>1, <3>1, <4>1, <4>2, PersistAssumption DEF TypeOK
        <4>3. CASE e.name = n /\ n # m
          <5>1. at'[e.name] = at[m]
            BY <2>1, <4>3 DEF TypeOK
          <5>2. ~Settled(n)
            BY <4>3, SettledPending
          <5>3. at[m] \in dropped'
            BY <1>6, <3>1, <5>1, <5>2 DEF Move
          <5> QED BY <5>1, <5>3 DEF Touched
        <4>4. CASE e.name # m /\ e.name # n
          BY <2>1, <2>2, <3>1, <4>1, <4>4 DEF WrittenInv, TypeOK
        <4> QED BY <4>2, <4>3, <4>4
      <3> QED BY <3>1
    <2> QED BY <2>1, <2>2, <2>3 DEF WrittenInv
  <1>7. CASE Take
    <2>1. UNCHANGED <<at, INODE_MARKS, xattr, web, dropped, fd>>
      BY <1>7 DEF Take, files
    <2>2. Pending' \subseteq Pending
      BY <1>7, TakeRing DEF Pending
    <2> QED BY <2>1, <2>2 DEF WrittenInv, Touched
  <1>8. CASE open_mark_target
    <2>1. UNCHANGED <<at, INODE_MARKS, xattr, web, dropped>> /\ event \in Pending
      BY <1>8 DEF open_mark_target, files, TypeOK, Pending
    <2>2. Pending' \subseteq Pending
      BY <1>8 DEF open_mark_target, Done, Pending, InRing
    <2>3. fd' # None => fd' \in Touched
      BY <1>8, <2>1 DEF open_mark_target, Done, WrittenInv
    <2>4. Touched' = Touched
      BY <2>1 DEF Touched
    <2> QED BY <2>1, <2>2, <2>3, <2>4, SameWritten
  <1>9. CASE set_origin_xattr
    <2>1. UNCHANGED <<at, INODE_MARKS, web, fd>> /\ Pending' = Pending
          /\ event \in Pending /\ fd \in Touched
      BY <1>9 DEF set_origin_xattr, TypeOK, Pending, InRing, WrittenInv
    <2>2. Touched \subseteq Touched'
      BY <1>9, <2>1 DEF set_origin_xattr, Touched, WrittenInv
    <2>3. ASSUME NEW i \in Inodes PROVE xattr'[i] = xattr[i] \/ i \in Touched
      BY <1>9, <2>1, <2>3 DEF set_origin_xattr, replaced, TypeOK
    <2> QED BY <2>1, <2>2, <2>3, SameWritten
  <1>10. CASE backfill
    <2>1. UNCHANGED <<at, xattr, web>> /\ fd' = None /\ Pending' \subseteq Pending
          /\ fd \in Touched
      BY <1>10 DEF backfill, Done, TypeOK, Pending, InRing, WrittenInv
    <2>2. Touched \subseteq Touched'
      BY <1>10, <2>1 DEF backfill, Touched
    <2>3. ASSUME NEW i \in Inodes PROVE INODE_MARKS'[i] = INODE_MARKS[i] \/ i \in Touched
      BY <1>10, <2>1, <2>3 DEF backfill, TypeOK
    <2> QED BY <2>1, <2>2, <2>3, SameWritten
  <1>11. CASE Crash
    <2>1. UNCHANGED <<at, xattr, web>> /\ fd' = None /\ Touched \subseteq Touched'
      BY <1>11 DEF Crash, Done, Touched
    <2>2. Pending' \subseteq Pending
      BY <1>11 DEF Crash, Done, Pending, InRing
    <2>3. \A i \in Inodes : INODE_MARKS'[i] = NoRecord
      BY <1>11 DEF Crash
    <2> QED BY <2>1, <2>2, <2>3, SameWritten
  <1> QED BY <1>1, <1>2, <1>3, <1>4, <1>5, <1>6, <1>7, <1>8, <1>9, <1>10, <1>11
          DEF Next, Handle

\* Whatever processes, renames, evictions, failing writes and crashes come in
\* between, a record is only on an inode a network process has written, or one
\* that was moved under an event of its name.
THEOREM WrittenTheorem == Spec => []OnlyWritten
  <1>1. Init => TypeOK /\ WrittenInv
    BY PersistAssumption DEF Init, TypeOK, WrittenInv, Touched, Pending, InRing
  <1>2. TypeOK /\ WrittenInv /\ UNCHANGED vars => WrittenInv' /\ TypeOK'
    BY DEF TypeOK, WrittenInv, Touched, Pending, InRing, vars
  <1>3. WrittenInv => OnlyWritten
    BY DEF WrittenInv, Touched, OnlyWritten
  <1> QED BY <1>1, <1>2, <1>3, TypeStep, WrittenStep, PTL DEF Spec

-----------------------------------------------------------------------------
(* Storage and disk.                                                       *)

\* The handler has, or is about to open, the inode of its event.
InHand(i) ==
    /\ event # None /\ event.inode = i
    /\ pc \in {"resolve", "open"} => at[event.name] = i
    /\ pc \in {"xattr", "fill"} => fd = i

\* An event of i is under way and will find i under its name.
Coming(i) == InHand(i) \/ \E e \in InRing : e.inode = i /\ at[e.name] = i

\* StoresAgree is the case with nothing under way.  While the records differ,
\* an event that will still find the inode is coming; between the two writes
\* of one event, the disk has what storage is about to get.
AgreeInv ==
    /\ \A i \in Inodes \ dropped :
          INODE_MARKS[i] # NoRecord /\ INODE_MARKS[i] # xattr[i] => Coming(i)
    /\ pc = "fill" /\ fd \notin dropped => event.inode = fd /\ xattr[fd] = augmented

\* A record in storage differs from the one on disk only if it did before, or
\* the inode is dropped, or an event is coming.
LEMMA SameAgree ==
    ASSUME AgreeInv, dropped \subseteq dropped',
           \A i \in Inodes \ dropped' : Coming(i) => Coming(i)',
           \A i \in Inodes \ dropped' :
              \/ INODE_MARKS'[i] = NoRecord \/ INODE_MARKS'[i] = xattr'[i]
              \/ INODE_MARKS'[i] = INODE_MARKS[i] /\ xattr'[i] = xattr[i]
              \/ Coming(i)',
           pc' = "fill" /\ fd' \notin dropped' => event'.inode = fd' /\ xattr'[fd'] = augmented'
    PROVE  AgreeInv'
  BY DEF AgreeInv

\* A mark by file_open keeps AgreeInv.
LEMMA MarkAgree ==
    ASSUME TypeOK, AgreeInv, NEW p \in Pids, NEW n \in Names,
           NEW rec \in Records, NEW derived \in BOOLEAN, at[n] \in Inodes,
           Mark(p, n, rec, derived)
    PROVE  AgreeInv'
  <1> DEFINE ev == [name |-> n, pid |-> p, rec |-> rec, derived |-> derived,
                    inode |-> at[n]]
  <1>1. ev \in Events /\ ev.inode = at[n] /\ ev.name = n
    BY DEF Events
  <1>2. emit_event(ev) /\ UNCHANGED <<at, xattr, pc, event, augmented, fd>>
    BY DEF Mark, handler
  <1> HIDE DEF ev
  <1>3. \/ InRing' = InRing \cup {ev} /\ dropped' = dropped
        \/ InRing' = InRing /\ dropped' = dropped \cup {at[n]}
    BY <1>1, <1>2, EmitRing
  <1>4. ASSUME NEW i PROVE Coming(i) => Coming(i)'
    BY <1>2, <1>3 DEF Coming, InHand
  <1>5. ASSUME NEW i, i = at[n], i \notin dropped' PROVE Coming(i)'
    BY <1>1, <1>2, <1>3, <1>5 DEF Coming
  <1>6. ASSUME NEW i \in Inodes, i # at[n] PROVE INODE_MARKS'[i] = INODE_MARKS[i]
    BY <1>6 DEF Mark, TypeOK
  <1>7. dropped \subseteq dropped'
    BY <1>3
  <1>8. pc' = "fill" /\ fd' \notin dropped' => event'.inode = fd' /\ xattr'[fd'] = augmented'
    BY <1>2, <1>7 DEF AgreeInv
  <1>9. \A i \in Inodes \ dropped' :
           (INODE_MARKS'[i] = INODE_MARKS[i] /\ xattr'[i] = xattr[i]) \/ Coming(i)'
    <2>1. ASSUME NEW i \in Inodes \ dropped'
          PROVE  \/ INODE_MARKS'[i] = INODE_MARKS[i] /\ xattr'[i] = xattr[i]
                 \/ Coming(i)'
      <3>1. CASE i = at[n]
        BY <1>5, <2>1, <3>1
      <3>2. CASE i # at[n]
        BY <1>2, <1>6, <2>1, <3>2
      <3> QED BY <3>1, <3>2
    <2> QED BY <2>1
  <1> HIDE DEF Coming
  <1> QED BY <1>4, <1>7, <1>8, <1>9, SameAgree

\* Every step keeps AgreeInv.
LEMMA AgreeStep == TypeOK /\ AgreeInv /\ Next => AgreeInv'
  <1> SUFFICES ASSUME TypeOK, AgreeInv, Next PROVE AgreeInv'
    OBVIOUS
  <1>0. InRing \subseteq Events
    BY RingType
  <1>1. ASSUME NEW p \in Pids, NEW n \in Names, Download(p, n) PROVE AgreeInv'
    BY <1>1, DownloadRecord, MarkAgree DEF Download
  <1>2. ASSUME NEW p \in Pids, NEW m \in Names, NEW n \in Names, Derive(p, m, n)
        PROVE  AgreeInv'
    <2>1. PICK src \in Records :
              /\ [by |-> src.by, exe |-> src.exe, name |-> n] \in Records
              /\ at[n] \in Inodes
              /\ Mark(p, n, [by |-> src.by, exe |-> src.exe, name |-> n], TRUE)
      BY <1>2, DeriveRecord
    <2> DEFINE rec == [by |-> src.by, exe |-> src.exe, name |-> n]
    <2>2. rec \in Records /\ Mark(p, n, rec, TRUE)
      BY <2>1
    <2> HIDE DEF rec
    <2> QED BY <2>1, <2>2, MarkAgree
  <1>3. ASSUME \/ \E p \in Pids : Exit(p) \/ \E x \in Exes : Exec(p, x)
               \/ Start
        PROVE  AgreeInv'
    <2>1. UNCHANGED <<at, INODE_MARKS, xattr, EVENTS, pc, event, augmented, fd, dropped>>
      BY <1>3 DEF Exit, Exec, Start, files, handler
    <2> QED BY <2>1 DEF AgreeInv, Coming, InHand, InRing
  <1>4. ASSUME \/ \E n \in Names : ReadBack(n)
               \/ \E i \in Inodes : Evict(i)
        PROVE  AgreeInv'
    <2>1. UNCHANGED <<at, xattr, EVENTS, pc, event, augmented, fd, dropped>>
      BY <1>4 DEF ReadBack, Evict, handler
    <2>2. ASSUME NEW i \in Inodes PROVE INODE_MARKS'[i] \in {INODE_MARKS[i], xattr[i], NoRecord}
      BY <1>4, <2>2 DEF ReadBack, Evict, TypeOK
    <2>3. \A i : Coming(i)' = Coming(i)
      BY <2>1 DEF Coming, InHand, InRing
    <2> QED BY <2>1, <2>2, <2>3 DEF AgreeInv
  <1>5. ASSUME NEW n \in Names, Symlink(n) PROVE AgreeInv'
    <2>1. /\ UNCHANGED <<INODE_MARKS, xattr, EVENTS, pc, event, augmented, fd, dropped>>
          /\ at' = [at EXCEPT ![n] = Link] /\ at[n] = None
      BY <1>5 DEF Symlink, handler
    <2>2. \A k \in Names : at[k] \in Inodes => at'[k] = at[k]
      BY <2>1, PersistAssumption DEF TypeOK
    <2>3. event # None => event.name \in Names
      BY DEF TypeOK, Events
    <2>4. ASSUME NEW i \in Inodes, Coming(i) PROVE Coming(i)'
      BY <1>0, <2>1, <2>2, <2>3, <2>4 DEF Coming, InHand, InRing, Events
    <2> QED BY <2>1, <2>4 DEF AgreeInv
  <1>6. ASSUME NEW m \in Names, NEW n \in Names, Move(m, n) PROVE AgreeInv'
    <2>1. /\ UNCHANGED <<INODE_MARKS, xattr, EVENTS, pc, event, augmented, fd>>
          /\ at' = [at EXCEPT ![n] = at[m], ![m] = None]
          /\ dropped \subseteq dropped'
      BY <1>6 DEF Move, handler
    <2>2. ASSUME NEW i \in Inodes, i \notin dropped', NEW e \in Pending,
                 e.name \in Names, at[e.name] = i
          PROVE  at'[e.name] = i
      <3>1. e.name \notin {m, n}
        <4>1. CASE Settled(m) /\ Settled(n)
          BY <4>1, SettledPending
        <4>2. CASE ~(Settled(m) /\ Settled(n))
          BY <1>6, <2>2, <4>2 DEF Move
        <4> QED BY <4>1, <4>2
      <3> QED BY <2>1, <2>2, <3>1 DEF TypeOK
    <2>3. \A e \in Pending : e.name \in Names
      BY <1>0 DEF TypeOK, Pending, Events
    <2>4. ASSUME NEW i \in Inodes, i \notin dropped', Coming(i) PROVE Coming(i)'
      <3>1. CASE InHand(i)
        <4>1. event \in Pending
          BY <3>1 DEF InHand, Pending
        <4> QED BY <2>1, <2>2, <2>3, <2>4, <3>1, <4>1 DEF Coming, InHand
      <3>2. CASE \E e \in InRing : e.inode = i /\ at[e.name] = i
        <4>1. PICK e \in InRing : e.inode = i /\ at[e.name] = i
          BY <3>2
        <4>2. e \in Pending /\ InRing' = InRing
          BY <2>1, <4>1 DEF Pending, InRing
        <4>3. at'[e.name] = i
          BY <2>2, <2>3, <2>4, <4>1, <4>2
        <4> QED BY <4>1, <4>2, <4>3 DEF Coming
      <3> QED BY <2>4, <3>1, <3>2 DEF Coming
    <2> QED BY <2>1, <2>4 DEF AgreeInv
  <1>7. CASE Take
    <2>1. UNCHANGED <<at, INODE_MARKS, xattr, dropped>> /\ pc' = "resolve" /\ pc = "idle"
      BY <1>7 DEF Take, files
    <2>2. event' \in InRing /\ InRing = InRing' \cup {event'} /\ event' # None
      BY <1>0, <1>7, TakeRing, PersistAssumption
    <2>3. ASSUME NEW i, Coming(i) PROVE Coming(i)'
      <3>1. PICK e \in InRing : e.inode = i /\ at[e.name] = i
        BY <2>1, <2>3 DEF Coming, InHand, TypeOK
      <3>2. CASE e = event'
        BY <2>1, <2>2, <3>1, <3>2 DEF Coming, InHand
      <3>3. CASE e \in InRing'
        BY <2>1, <3>1, <3>3 DEF Coming
      <3> QED BY <2>2, <3>1, <3>2, <3>3
    <2> QED BY <2>1, <2>3 DEF AgreeInv
  <1>8. CASE Resolve
    <2>1. /\ UNCHANGED <<at, INODE_MARKS, xattr, EVENTS, event, fd, dropped>>
          /\ pc = "resolve" /\ pc' = "open"
      BY <1>8 DEF Resolve, files
    <2>2. ASSUME NEW i, Coming(i) PROVE Coming(i)'
      BY <2>1, <2>2 DEF Coming, InHand, InRing
    <2> QED BY <2>1, <2>2 DEF AgreeInv
  <1>9. CASE open_mark_target
    <2>1. UNCHANGED <<at, INODE_MARKS, xattr, EVENTS, dropped>> /\ pc = "open"
          /\ pc' \in {"xattr", "idle"}
      BY <1>9 DEF open_mark_target, files, Done
    <2>2. ASSUME NEW i \in Inodes, Coming(i) PROVE Coming(i)'
      <3>1. CASE InHand(i)
        BY <1>9, <2>1, <2>2, <3>1 DEF open_mark_target, Coming, InHand
      <3>2. CASE ~InHand(i)
        BY <2>1, <2>2, <3>2 DEF Coming, InRing
      <3> QED BY <3>1, <3>2
    <2> QED BY <2>1, <2>2 DEF AgreeInv
  <1>10. CASE set_origin_xattr
    <2>1. /\ UNCHANGED <<at, INODE_MARKS, EVENTS, event, augmented, fd>>
          /\ pc = "xattr" /\ pc' = "fill" /\ fd \in Inodes /\ event # None
      BY <1>10 DEF set_origin_xattr, TypeOK
    <2>2. \A i \in Inodes \ dropped' : Coming(i) => Coming(i)'
      BY <2>1 DEF Coming, InHand, InRing
    <2>3. CASE xattr' = replaced(augmented) /\ event.inode = fd /\ dropped' = dropped \ {fd}
      <3>1. xattr'[fd] = augmented /\ \A i \in Inodes \ {fd} : xattr'[i] = xattr[i]
        BY <2>1, <2>3 DEF replaced, TypeOK
      <3>2. ASSUME NEW i, i = fd PROVE Coming(i)'
        BY <2>1, <2>3, <3>2 DEF Coming, InHand
      <3>3. ASSUME NEW i \in Inodes \ dropped', INODE_MARKS'[i] # NoRecord,
                   INODE_MARKS'[i] # xattr'[i]
            PROVE  Coming(i)'
        <4>1. CASE i = fd
          BY <3>2, <4>1
        <4>2. CASE i # fd
          BY <2>1, <2>2, <2>3, <3>1, <3>3, <4>2 DEF AgreeInv
        <4> QED BY <4>1, <4>2
      <3> QED BY <2>1, <2>3, <3>1, <3>3 DEF AgreeInv
    <2>4. CASE /\ xattr' = replaced(augmented)
               /\ dropped' = dropped \cup {fd, event.inode}
      <3>1. \A i \in Inodes \ {fd} : xattr'[i] = xattr[i]
        BY <2>1, <2>4 DEF replaced, TypeOK
      <3> QED BY <2>1, <2>2, <2>4, <3>1 DEF AgreeInv
    <2>5. CASE dropped' = dropped \cup {fd} /\ xattr' = xattr
      BY <2>1, <2>2, <2>5 DEF AgreeInv
    <2> QED BY <1>10, <2>3, <2>4, <2>5 DEF set_origin_xattr
  <1>11. CASE backfill
    <2>1. /\ UNCHANGED <<at, xattr, EVENTS>> /\ pc = "fill" /\ pc' = "idle"
          /\ fd \in Inodes /\ dropped \subseteq dropped'
      BY <1>11 DEF backfill, Done, TypeOK
    <2>2. ASSUME NEW i \in Inodes \ dropped', INODE_MARKS'[i] # NoRecord,
                 INODE_MARKS'[i] # xattr'[i]
          PROVE  Coming(i)'
      <3>1. CASE i = fd
        <4>1. INODE_MARKS'[fd] = augmented
          BY <1>11, <2>1, <2>2, <3>1 DEF backfill, TypeOK
        <4> QED BY <2>1, <2>2, <3>1, <4>1 DEF AgreeInv
      <3>2. CASE i # fd
        <4>1. INODE_MARKS'[i] = INODE_MARKS[i]
          BY <1>11, <2>1, <2>2, <3>2 DEF backfill, TypeOK
        <4>2. Coming(i) /\ ~InHand(i)
          BY <2>1, <2>2, <3>2, <4>1 DEF AgreeInv, InHand
        <4> QED BY <2>1, <4>2 DEF Coming, InRing
      <3> QED BY <3>1, <3>2
    <2> QED BY <2>1, <2>2 DEF AgreeInv
  <1>12. CASE Crash
    BY <1>12 DEF Crash, Done, AgreeInv
  <1> QED BY <1>1, <1>2, <1>3, <1>4, <1>5, <1>6, <1>7, <1>8, <1>9, <1>10, <1>11, <1>12
          DEF Next, Handle

\* With every fault of the environment allowed, an inode whose events are all
\* handled has the same record in storage and on disk, unless an event or a
\* write of it was lost or its name was moved under an event.
THEOREM StoresTheorem == Spec => []StoresAgree
  <1>1. Init => TypeOK /\ AgreeInv
    BY PersistAssumption DEF Init, TypeOK, AgreeInv
  <1>2. TypeOK /\ AgreeInv /\ UNCHANGED vars => AgreeInv' /\ TypeOK'
    BY DEF TypeOK, AgreeInv, Coming, InHand, InRing, vars
  <1>3. TypeOK /\ AgreeInv => StoresAgree
    BY DEF AgreeInv, Coming, InHand, InRing, StoresAgree, Handled, TypeOK
  <1> QED BY <1>1, <1>2, <1>3, TypeStep, AgreeStep, PTL DEF Spec
=============================================================================
