---------------------------- MODULE KernelProofs ----------------------------
(* Proofs about Kernel, for every set of processes, files and rules. *)
EXTENDS Kernel, TLAPS

\* The basename hash of a file that exists is one of the hashes.
LEMMA BasenameType ==
    ASSUME NEW w \in Paths
    PROVE  Basename(w) \in Comms
<1>1. w \in Seq(Comms) /\ w # <<>>
  BY KernelAssumption
<1>2. Len(w) \in 1 .. Len(w)
  BY <1>1
<1>. QED
  BY <1>1, <1>2 DEF Basename

\* A map with one entry replaced, or none.
LEMMA ExceptType ==
    ASSUME NEW S, NEW T, NEW f \in [S -> T], NEW a \in S, NEW v \in T,
           NEW g \in {f, [f EXCEPT ![a] = v]}
    PROVE  g \in [S -> T]
  OBVIOUS

\* The program starts within its types.
LEMMA TypeInit == Init => TypeOK
<1>. SUFFICES ASSUME Init PROVE TypeOK
  OBVIOUS
<1>. USE KernelAssumption DEF Init
<1>1. \A p \in Pids : NoExec \in ExecStates
  BY DEF NoExec, ExecStates
<1>2. downloaders \subseteq Comms
  BY DEF Current, Stored
<1>3. threads \in [Pids -> SUBSET Threads]
  BY DEF Threads
<1>4. RingOK
  BY DEF RingOK, Queued
<1>. QED
  BY <1>1, <1>2, <1>3, <1>4 DEF TypeOK

\* The records the hooks make or find are current ones.
LEMMA MarkTypes ==
    ASSUME TypeOK, NEW p \in Pids, NEW i \in Inodes
    PROVE  /\ ReadMark(i) \in Origins \cup {NoRecord}
           /\ WriteRecord(p, i) \in Origins \cup {NoRecord}
           /\ NoRecord \notin Origins
           /\ INODE_MARKS[i] # NoRecord => ReadMark(i) = INODE_MARKS[i]
<1>. USE KernelAssumption
<1>1. ReadMark(i) \in Origins \cup {NoRecord}
  BY DEF TypeOK, ReadMark, Current, Origins, Stored
<1>2. WriteRecord(p, i) \in Origins \cup {NoRecord}
  BY DEF TypeOK, WriteRecord, Origins, Stored
<1>3. NoRecord \notin Origins
  BY DEF Origins, Stored
<1>. QED
  BY <1>1, <1>2, <1>3 DEF ReadMark

\* An event joins the others, or is dropped.
LEMMA EmitRing ==
    ASSUME RingOK, NEW ev \in Events, ev.kind # "exec" => ev.rec # NoRecord,
           emit_event(ev)
    PROVE  RingOK' /\ Queued' \subseteq Queued \cup {ev}
<1>1. CASE Len(EVENTS) < RING
  <2>1. EVENTS' = Append(EVENTS, ev)
    BY <1>1 DEF emit_event
  <2>2. /\ EVENTS' \in Seq(Events) /\ Len(EVENTS') = Len(EVENTS) + 1
        /\ \A k \in 1 .. Len(EVENTS) : EVENTS'[k] = EVENTS[k]
        /\ EVENTS'[Len(EVENTS) + 1] = ev
    BY <2>1 DEF RingOK
  <2>3. Len(EVENTS') \in 0 .. RING
    BY <1>1, <2>2, KernelAssumption DEF RingOK
  <2>4. Queued' \subseteq Queued \cup {ev}
    BY <2>2 DEF Queued, RingOK
  <2>. QED
    BY <2>2, <2>3, <2>4 DEF RingOK
<1>2. CASE ~(Len(EVENTS) < RING)
  BY <1>2 DEF emit_event, RingOK, Queued
<1>. QED
  BY <1>1, <1>2

LEMMA VerdictRing ==
    ASSUME RingOK, emit_event(Verdict)
    PROVE  RingOK' /\ Queued' \subseteq Queued \cup {Verdict}
<1>1. Verdict \in Events /\ Verdict.kind = "exec"
  BY DEF Verdict, Events
<1>. QED
  BY <1>1, EmitRing

\* The daemon takes the first.
LEMMA DrainRing ==
    ASSUME RingOK, EVENTS # <<>>, EVENTS' = Tail(EVENTS)
    PROVE  RingOK' /\ Queued' \subseteq Queued /\ Head(EVENTS) \in Queued
<1>1. /\ EVENTS \in Seq(Events) /\ Len(EVENTS) \in Nat \ {0}
      /\ EVENTS' \in Seq(Events) /\ Len(EVENTS') = Len(EVENTS) - 1
      /\ \A k \in 1 .. Len(EVENTS') : EVENTS'[k] = EVENTS[k + 1]
      /\ Head(EVENTS) = EVENTS[1]
  BY DEF RingOK
<1>2. Queued' \subseteq Queued /\ Head(EVENTS) \in Queued
  BY <1>1 DEF Queued
<1>. QED
  BY <1>1, <1>2, KernelAssumption DEF RingOK

\* What the read branch of file_open leaves in each map is of its type.
LEMMA OpenReadMaps ==
    ASSUME TypeOK, NEW p \in Pids, NEW i \in Inodes, NEW loading \in BOOLEAN,
           file_open_read(p, i, loading)
    PROVE  /\ NET_PIDS' \subseteq Pids /\ APPROVED_INTERP' \subseteq Pids
           /\ INTERP_COPY_PIDS' \subseteq Pids /\ INTERP_PIDS' \subseteq Pids
           /\ PROP_PIDS' \in [Pids -> Origins \cup {NoRecord}]
           /\ INODE_MARKS' \in [Inodes -> Origins \cup {NoRecord}]
           /\ INTERP_INODE' \subseteq Inodes
           /\ RingOK' /\ Queued' \subseteq Queued \cup {Verdict}
<1>1. RingOK' /\ Queued' \subseteq Queued \cup {Verdict}
  <2>1. emit_event(Verdict) \/ UNCHANGED EVENTS
    BY DEF file_open_read
  <2>2. RingOK
    BY DEF TypeOK
  <2>3. UNCHANGED EVENTS => RingOK' /\ Queued' = Queued
    BY <2>2 DEF RingOK, Queued
  <2>. QED
    BY <2>1, <2>2, <2>3, VerdictRing
<1>2. ReadMark(i) \in Origins \cup {NoRecord}
  BY MarkTypes
<1>3. INODE_MARKS' \in [Inodes -> Origins \cup {NoRecord}]
  <2>1. \/ INODE_MARKS' = INODE_MARKS
        \/ INODE_MARKS' = [INODE_MARKS EXCEPT ![i] = ReadMark(i)]
    BY DEF file_open_read
  <2>2. INODE_MARKS \in [Inodes -> Origins \cup {NoRecord}]
    BY DEF TypeOK
  <2>. QED
    BY <1>2, <2>1, <2>2, ExceptType
<1>4. PROP_PIDS' \in [Pids -> Origins \cup {NoRecord}]
  BY <1>2 DEF file_open_read, TypeOK
<1>5. /\ NET_PIDS' \subseteq Pids /\ APPROVED_INTERP' \subseteq Pids
      /\ INTERP_COPY_PIDS' \subseteq Pids /\ INTERP_PIDS' \subseteq Pids
      /\ INTERP_INODE' \subseteq Inodes
  BY DEF file_open_read, TypeOK
<1>. QED
  BY <1>1, <1>3, <1>4, <1>5

\* A write tells the daemon of its mark.
LEMMA WriteRing ==
    ASSUME TypeOK, NEW p \in Pids, NEW i \in Inodes, file_open_write(p, i)
    PROVE  /\ RingOK'
           /\ \A ev \in Queued' \ Queued :
                 ev.rec = WriteRecord(p, i) /\ ev.rec # NoRecord
                    /\ ~is_pseudo_fs(path[i])
<1>1. RingOK
  BY DEF TypeOK
<1>2. CASE WriteRecord(p, i) = NoRecord \/ is_pseudo_fs(path[i])
  BY <1>1, <1>2 DEF file_open_write, RingOK, Queued
<1>3. CASE WriteRecord(p, i) # NoRecord /\ ~is_pseudo_fs(path[i])
  <2>1. PICK ev : /\ ev = [kind |-> IF p \in NET_PIDS THEN "net" ELSE "derived",
                           rec |-> WriteRecord(p, i)]
                  /\ emit_event(ev)
    BY <1>3 DEF file_open_write
  <2>2. ev \in Events /\ ev.rec = WriteRecord(p, i)
    BY <2>1, MarkTypes DEF Events
  <2>3. RingOK' /\ Queued' \subseteq Queued \cup {ev}
    BY <1>1, <1>3, <2>1, <2>2, EmitRing
  <2>. QED
    BY <1>3, <2>2, <2>3
<1>. QED
  BY <1>2, <1>3

\* What the daemon makes of a mark's event is a current record of the same
\* creator; it puts it nowhere but under the event's name.
LEMMA MarkedTypes ==
    ASSUME TypeOK, NEW ev \in Events, ev.kind # "exec", ev.rec # NoRecord,
           on_file_marked(ev)
    PROVE  \/ UNCHANGED <<INODE_MARKS, xattr>>
           \/ \E j \in Inodes, rec \in Origins :
                 /\ path[j] = ev.rec.landing /\ rec.comm = ev.rec.comm
                 /\ xattr' \in {xattr, [xattr EXCEPT ![j] = rec]}
                 /\ INODE_MARKS' \in {INODE_MARKS,
                                      [INODE_MARKS EXCEPT ![j] = rec]}
<1>1. ASSUME NEW hash \in Exes
      PROVE  /\ Augmented(ev, hash) \in Origins
             /\ Augmented(ev, hash).comm = ev.rec.comm
  BY <1>1 DEF Augmented, Events, Origins, Stored
<1>. QED
  BY <1>1 DEF on_file_marked

\* What a process has consumed is again a set of sources.
LEMMA ConsumedTypes ==
    ASSUME TypeOK, NEW p \in Pids, NEW i \in Inodes, NEW loading \in BOOLEAN,
           Consumed(p, i, loading)
    PROVE  /\ touched' \subseteq Pids /\ fed' \subseteq Pids
           /\ copying' \subseteq Pids /\ execed' \subseteq Pids
           /\ scripted' \subseteq Pids /\ cleared' \subseteq Pids
           /\ clearedNow' \subseteq Pids
           /\ web' \subseteq Inodes /\ shell' \subseteq Inodes
           /\ causes' \in [Pids -> SUBSET Causes]
           /\ downloaders' \subseteq Comms
  BY DEF TypeOK, Consumed, fileGhosts

\* Every hook and every step of the environment keeps the types.
LEMMA TypeStep == TypeOK /\ [Next]_vars => TypeOK'
<1>. SUFFICES ASSUME TypeOK, [Next]_vars PROVE TypeOK'
  OBVIOUS
<1>. USE KernelAssumption DEF procVars, pidMaps, inodeMaps, lifeGhosts,
                              fileGhosts
<1>0. UNCHANGED EVENTS => RingOK'
  BY DEF TypeOK, RingOK, Queued
<1>1. ASSUME NEW p \in Pids, NEW i \in Inodes, OpenRead(p, i)
      PROVE  TypeOK'
  <2>. USE <1>1 DEF OpenRead
  <2>1. file_open_read(p, i, FALSE) /\ Consumed(p, i, FALSE)
    OBVIOUS
  <2>. QED
    BY <2>1, OpenReadMaps, ConsumedTypes DEF TypeOK
<1>2. ASSUME NEW p \in Pids, NEW i \in Inodes,
             file_open_write(p, i), Written(p, i)
      PROVE  /\ pidMaps' = pidMaps
             /\ INODE_MARKS' \in [Inodes -> Origins \cup {NoRecord}]
             /\ INTERP_INODE' \subseteq Inodes
             /\ RingOK'
             /\ web' \subseteq Inodes /\ shell' \subseteq Inodes
             /\ downloaders' \subseteq Comms
  <2>1. RingOK'
    BY <1>2, WriteRing DEF TypeOK
  <2>2. INODE_MARKS' \in [Inodes -> Origins \cup {NoRecord}]
    <3>1. WriteRecord(p, i) \in Origins \cup {NoRecord}
      BY MarkTypes
    <3>2. \/ INODE_MARKS' = INODE_MARKS
          \/ INODE_MARKS' = [INODE_MARKS EXCEPT ![i] =
                               IF INODE_MARKS[i] = NoRecord
                               THEN WriteRecord(p, i) ELSE INODE_MARKS[i]]
      BY <1>2 DEF file_open_write, get_or_insert_ptr
    <3>3. PICK rec \in Origins \cup {NoRecord} :
             \/ INODE_MARKS' = INODE_MARKS
             \/ INODE_MARKS' = [INODE_MARKS EXCEPT ![i] = rec]
      <4>1. INODE_MARKS[i] \in Origins \cup {NoRecord}
        BY DEF TypeOK
      <4>. QED
        BY <3>1, <3>2, <4>1
    <3>. QED
      BY <3>3 DEF TypeOK
  <2>3. INTERP_INODE' \subseteq Inodes /\ pidMaps' = pidMaps
    BY <1>2 DEF TypeOK, file_open_write
  <2>4. web' \subseteq Inodes /\ shell' \subseteq Inodes
    BY <1>2 DEF TypeOK, Written
  <2>5. downloaders' \subseteq Comms
    BY <1>2 DEF TypeOK, Written
  <2>. QED
    BY <2>1, <2>2, <2>3, <2>4, <2>5
<1>3. ASSUME NEW p \in Pids, NEW i \in Inodes, OpenWrite(p, i)
      PROVE  TypeOK'
  BY <1>0, <1>2, <1>3 DEF OpenWrite, TypeOK
<1>4. ASSUME NEW p \in Pids, NEW i \in Inodes, OpenReadWrite(p, i)
      PROVE  TypeOK'
  BY <1>0, <1>2, <1>4 DEF OpenReadWrite, TypeOK
<1>5. ASSUME NEW p \in Pids, NEW i \in Inodes, LateWrite(p, i)
      PROVE  TypeOK'
  BY <1>0, <1>5 DEF LateWrite, TypeOK, Written
<1>6. ASSUME NEW p \in Pids, NEW i \in Inodes, Close(p, i)
      PROVE  TypeOK'
  BY <1>0, <1>6 DEF Close, TypeOK
<1>7. ASSUME NEW p \in Pids, NEW i \in Inodes, NEW name \in Comms,
             NEW why \in SUBSET Causes, Loading(p, i, name, why)
      PROVE  TypeOK'
  <2>1. file_open_read(p, i, TRUE) /\ Consumed(p, i, TRUE)
    BY <1>7 DEF Loading
  <2>2. exec' \in [Pids -> ExecStates]
    BY <1>7 DEF Loading, TypeOK, ExecStates, NoExec
  <2>. QED
    BY <1>7, <2>1, <2>2, OpenReadMaps, ConsumedTypes DEF Loading, TypeOK
<1>8. ASSUME NEW p \in Pids, NEW i \in Inodes, Execve(p, i)
      PROVE  TypeOK'
  BY <1>7, <1>8, BasenameType DEF Execve, TypeOK
<1>9. ASSUME NEW p \in Pids, InterpOpen(p)
      PROVE  TypeOK'
  <2>1. exec[p] \in ExecStates
    BY DEF TypeOK
  <2>. QED
    BY <1>7, <1>9, <2>1 DEF InterpOpen, ExecStates
<1>10. ASSUME NEW p \in Pids, bprm_check_security(p)
       PROVE  TypeOK'
  <2>1. exec[p] \in ExecStates
    BY DEF TypeOK
  <2>2. ASSUME NEW why \in Causes, Admit(p, why)
        PROVE  exec' \in [Pids -> ExecStates]
    BY <2>1, <2>2 DEF Admit, TypeOK, ExecStates
  <2>3. ASSUME Refuse(p)
        PROVE  exec' \in [Pids -> ExecStates]
    BY <2>3 DEF Refuse, TypeOK, ExecStates, NoExec
  <2>4. exec' \in [Pids -> ExecStates]
    BY <1>10, <2>2, <2>3 DEF bprm_check_security, Causes
  <2>5. RingOK'
    <3>1. emit_event(Verdict) \/ UNCHANGED EVENTS
      BY <1>10 DEF bprm_check_security
    <3>. QED
      BY <1>0, <3>1, VerdictRing DEF TypeOK
  <2>. QED
    BY <1>10, <2>4, <2>5 DEF bprm_check_security, TypeOK
<1>11. ASSUME NEW p \in Pids, ExecFails(p)
       PROVE  TypeOK'
  BY <1>0, <1>11 DEF ExecFails, Refuse, TypeOK, ExecStates, NoExec
<1>12. ASSUME NEW p \in Pids, NEW t \in Threads, bprm_committed_creds(p, t)
       PROVE  TypeOK'
  <2>1. exec[p] \in ExecStates
    BY DEF TypeOK
  <2>2. /\ threads' \in [Pids -> SUBSET Threads]
        /\ exe' \in [Pids -> Inodes \cup {None}]
        /\ comm' \in [Pids -> Comms]
        /\ exec' \in [Pids -> ExecStates]
        /\ causes' \in [Pids -> SUBSET Causes]
    BY <1>12, <2>1 DEF bprm_committed_creds, TypeOK, ExecStates, NoExec,
                       Threads
  <2>3. /\ INTERP_PIDS' \subseteq Pids /\ NET_PIDS' \subseteq Pids
        /\ APPROVED_INTERP' \subseteq Pids
        /\ INTERP_COPY_PIDS' \subseteq Pids
        /\ PROP_PIDS' \in [Pids -> Origins \cup {NoRecord}]
    BY <1>12 DEF bprm_committed_creds, TypeOK
  <2>. QED
    BY <1>0, <1>12, <2>2, <2>3 DEF bprm_committed_creds, TypeOK
<1>13. ASSUME NEW p \in Pids, NEW t \in Threads, sched_process_exit(p, t)
       PROVE  TypeOK'
  <2>1. NoExec \in ExecStates
    BY DEF NoExec, ExecStates
  <2>2. /\ threads' \in [Pids -> SUBSET Threads]
        /\ exe' \in [Pids -> Inodes \cup {None}]
        /\ comm' \in [Pids -> Comms]
        /\ exec' \in [Pids -> ExecStates]
        /\ causes' \in [Pids -> SUBSET Causes]
        /\ wr' \in [Pids -> SUBSET Inodes]
    BY <1>13, <2>1 DEF sched_process_exit, TypeOK, Threads
  <2>3. /\ INTERP_PIDS' \subseteq Pids /\ NET_PIDS' \subseteq Pids
        /\ APPROVED_INTERP' \subseteq Pids
        /\ INTERP_COPY_PIDS' \subseteq Pids
        /\ PROP_PIDS' \in [Pids -> Origins \cup {NoRecord}]
    BY <1>13 DEF sched_process_exit, TypeOK
  <2>. QED
    BY <1>0, <1>13, <2>2, <2>3 DEF sched_process_exit, TypeOK
<1>14. ASSUME NEW p \in Pids, NEW q \in Pids, Fork(p, q)
       PROVE  TypeOK'
  BY <1>0, <1>14 DEF Fork, TypeOK, Threads
<1>15. ASSUME NEW p \in Pids, Enter(p)
       PROVE  TypeOK'
  BY <1>0, <1>15 DEF Enter, TypeOK, Threads
<1>21. ASSUME NEW p \in Pids, Spawn(p)
       PROVE  TypeOK'
  <2>1. threads' \in [Pids -> SUBSET Threads]
    BY <1>21 DEF Spawn, TypeOK, Threads
  <2>. QED
    BY <1>0, <1>21, <2>1 DEF Spawn, TypeOK
<1>16. ASSUME NEW p \in Pids, NEW name \in Names, SetName(p, name)
       PROVE  TypeOK'
  BY <1>0, <1>16 DEF SetName, TypeOK
<1>17. ASSUME NEW p \in Pids, NEW to, socket_connect(p, to)
       PROVE  TypeOK'
  BY <1>0, <1>17 DEF socket_connect, TypeOK
<1>18. ASSUME NEW i \in Inodes, NEW where \in Moves[i], Rename(i, where)
       PROVE  TypeOK'
  BY <1>0, <1>18 DEF Rename, TypeOK
<1>19. CASE Drain
  <2>1. RingOK' /\ Head(EVENTS) \in Queued
    BY <1>19, DrainRing DEF Drain, TypeOK
  <2>2. Head(EVENTS) \in Events
    BY <2>1 DEF TypeOK, RingOK, Queued
  <2>3. /\ xattr' \in [Inodes -> Stored(Versions) \cup {NoRecord}]
        /\ INODE_MARKS' \in [Inodes -> Origins \cup {NoRecord}]
    <3>1. CASE UNCHANGED <<INODE_MARKS, xattr>>
      BY <3>1 DEF TypeOK
    <3>2. CASE \E j \in Inodes, rec \in Origins :
                  /\ xattr' \in {xattr, [xattr EXCEPT ![j] = rec]}
                  /\ INODE_MARKS' \in {INODE_MARKS,
                                       [INODE_MARKS EXCEPT ![j] = rec]}
      <4>1. Origins \subseteq Stored(Versions)
        BY DEF Origins, Stored
      <4>2. PICK j \in Inodes, rec \in Origins :
                  /\ xattr' \in {xattr, [xattr EXCEPT ![j] = rec]}
                  /\ INODE_MARKS' \in {INODE_MARKS,
                                       [INODE_MARKS EXCEPT ![j] = rec]}
        BY <3>2
      <4>3. xattr' \in [Inodes -> Stored(Versions) \cup {NoRecord}]
        <5>1. xattr \in [Inodes -> Stored(Versions) \cup {NoRecord}]
          BY DEF TypeOK
        <5>. QED
          BY <4>1, <4>2, <5>1, ExceptType
      <4>4. INODE_MARKS' \in [Inodes -> Origins \cup {NoRecord}]
        <5>1. INODE_MARKS \in [Inodes -> Origins \cup {NoRecord}]
          BY DEF TypeOK
        <5>2. rec \in Origins \cup {NoRecord}
          OBVIOUS
        <5>3. CASE INODE_MARKS' = INODE_MARKS
          BY <5>1, <5>3
        <5>4. CASE INODE_MARKS' = [INODE_MARKS EXCEPT ![j] = rec]
          BY <5>1, <5>2, <5>4
        <5>. QED
          BY <4>2, <5>3, <5>4
      <4>. QED
        BY <4>3, <4>4
    <3>3. CASE Head(EVENTS).kind # "exec"
      <4>1. Head(EVENTS).rec # NoRecord /\ on_file_marked(Head(EVENTS))
        BY <1>19, <2>1, <3>3 DEF Drain, TypeOK, RingOK
      <4>. QED
        BY <2>2, <3>1, <3>2, <3>3, <4>1, MarkedTypes
    <3>. QED
      BY <1>19, <3>1, <3>3 DEF Drain
  <2>. QED
    BY <1>19, <2>1, <2>3 DEF Drain, TypeOK
<1>23. ASSUME NEW i \in Inodes, Forget(i)
       PROVE  TypeOK'
  <2>1. INODE_MARKS' \in [Inodes -> Origins \cup {NoRecord}]
    BY <1>23 DEF Forget, TypeOK
  <2>. QED
    BY <1>0, <1>23, <2>1 DEF Forget, TypeOK
<1>22. ASSUME NEW p \in Pids, Evict(p)
       PROVE  TypeOK'
  <2>1. /\ NET_PIDS' \subseteq Pids /\ APPROVED_INTERP' \subseteq Pids
        /\ INTERP_COPY_PIDS' \subseteq Pids /\ INTERP_PIDS' \subseteq Pids
    BY <1>22 DEF Evict, TypeOK
  <2>2. PROP_PIDS' \in [Pids -> Origins \cup {NoRecord}]
    BY <1>22 DEF Evict, TypeOK
  <2>. QED
    BY <1>0, <1>22, <2>1, <2>2 DEF Evict, TypeOK
<1>20. CASE UNCHANGED vars
  BY <1>0, <1>20 DEF vars, TypeOK
<1>. QED
  BY <1>1, <1>3, <1>4, <1>5, <1>6, <1>8, <1>9, <1>10, <1>11, <1>12, <1>13,
     <1>14, <1>15, <1>16, <1>17, <1>18, <1>19, <1>20, <1>21, <1>22, <1>23
     DEF Next, Syscall, Threads

\* Every reachable state of the hooks is well typed: only records of the
\* current schema ever enter the in-kernel maps, and the ring is never
\* overfilled, whatever the processes do.
THEOREM TypeCorrect == Spec => []TypeOK
<1>. QED
  BY TypeInit, TypeStep, PTL DEF Spec
-----------------------------------------------------------------------------
(* The maps against the ground truth.  Each direction has an inductive      *)
(* invariant of its own: SoundInv, that the maps hold nothing the truth     *)
(* does not, asks less of the processes than TrackInv, which adds that they *)
(* miss nothing.  Neither is a single guarantee: a file is marked because   *)
(* its writer was a mark source, and a writer is one because the file it    *)
(* read was marked.                                                         *)

\* The leader outlives the workers.
LeaderInv ==
    \A p \in Pids : /\ threads[p] # {} => "leader" \in threads[p]
                    /\ p \in execed => threads[p] # {}

\* Mark sources are tainted processes.
SourceInv ==
    /\ NET_PIDS \subseteq touched
    /\ \A p \in Pids : PROP_PIDS[p] # NoRecord => p \in fed

\* Every record in circulation names a downloader.
CreatorInv ==
    /\ \A i \in Inodes :
          ReadMark(i) # NoRecord => ReadMark(i).comm \in downloaders
    /\ \A p \in Pids :
          PROP_PIDS[p] # NoRecord => PROP_PIDS[p].comm \in downloaders

\* What the daemon has put on disk, and what it will find under the names of
\* the events that wait: files with web content, and records that name a
\* downloader.
DaemonInv ==
    /\ \A i, j \in Inodes : path[i] = path[j] => i = j
    /\ \A i \in Inodes :
          Current(xattr[i]) => i \in web /\ xattr[i].comm \in downloaders
    /\ \A ev \in Queued : ev.kind # "exec" =>
          /\ ev.rec.comm \in downloaders
          /\ \A i \in Inodes : path[i] = ev.rec.landing => i \in web

SoundInv == /\ TypeOK /\ LeaderInv /\ SourceInv /\ NoFalseMark /\ CreatorInv
            /\ DaemonInv

\* No exec, finished or in progress, got past an unseen mark.
ExecInv ==
    MODE = "enforce" =>
        \A p \in Pids :
            /\ causes[p] \subseteq {"permitted", "ring_full"}
            /\ exec[p].causes \subseteq {"permitted", "ring_full"}

\* Interpreters are followed through copies, and only a rule clears one.
InterpInv ==
    /\ copying \subseteq INTERP_COPY_PIDS
    /\ shell \subseteq INTERP_INODE
    /\ \A p \in execed : exe[p] \in INTERP_INODE => p \in INTERP_PIDS
    /\ APPROVED_INTERP \subseteq cleared
    /\ scripted \subseteq cleared

TrackInv == SoundInv /\ TaintComplete /\ ContentMarked /\ ExecInv /\ InterpInv

\* Before any process has touched the network there is nothing to track.
LEMMA TrackInit == Init => TrackInv
<1>. SUFFICES ASSUME Init PROVE TrackInv
  OBVIOUS
<1>1. TypeOK
  BY TypeInit
<1>2. LeaderInv /\ SourceInv
  BY DEF Init, LeaderInv, SourceInv
<1>3. \A i \in Inodes : ReadMark(i) = IF Current(Xattr0[i]) THEN Xattr0[i]
                                      ELSE NoRecord
  BY DEF Init, ReadMark
<1>4. NoFalseMark /\ ContentMarked
  BY <1>3 DEF Init, NoFalseMark, ContentMarked, Current
<1>5. CreatorInv
  BY <1>3 DEF Init, CreatorInv
<1>6. TaintComplete
  BY DEF Init, TaintComplete
<1>7. ExecInv
  BY DEF Init, ExecInv, NoExec
<1>8. InterpInv
  BY DEF Init, InterpInv
<1>9. DaemonInv
  <2>1. Queued = {}
    BY DEF Init, Queued
  <2>. QED
    BY <2>1, KernelAssumption DEF Init, DaemonInv
<1>. QED
  BY <1>1, <1>2, <1>4, <1>5, <1>6, <1>7, <1>8, <1>9 DEF TrackInv, SoundInv

\* A read leaves every file's mark as it was: promotion only copies it.
LEMMA ReadMarks ==
    ASSUME TypeOK, NEW p \in Pids, NEW i \in Inodes, NEW loading \in BOOLEAN,
           file_open_read(p, i, loading), UNCHANGED xattr
    PROVE  \A j \in Inodes : ReadMark(j)' = ReadMark(j)
<1>1. INODE_MARKS \in [Inodes -> Origins \cup {NoRecord}]
  BY DEF TypeOK
<1>2. \/ INODE_MARKS' = INODE_MARKS
      \/ INODE_MARKS' = [INODE_MARKS EXCEPT ![i] = ReadMark(i)]
  BY DEF file_open_read
<1>. QED
  BY <1>1, <1>2 DEF ReadMark

\* What a write leaves in place of the marks, for whatever writer.
LEMMA WriteMarks ==
    ASSUME TypeOK, NEW p \in Pids, NEW i \in Inodes, file_open_write(p, i),
           UNCHANGED xattr
    PROVE  /\ \A j \in Inodes \ {i} : ReadMark(j)' = ReadMark(j)
           /\ ReadMark(i)' \in {ReadMark(i), INODE_MARKS[i],
                                WriteRecord(p, i)}
           /\ ReadMark(i)' # ReadMark(i) =>
                 ~is_pseudo_fs(path[i]) /\ WriteRecord(p, i) # NoRecord
           /\ ~is_pseudo_fs(path[i]) /\ WriteRecord(p, i) # NoRecord =>
                 ReadMark(i)' # NoRecord
<1>1. INODE_MARKS \in [Inodes -> Origins \cup {NoRecord}]
  BY DEF TypeOK
<1>2. CASE WriteRecord(p, i) = NoRecord \/ is_pseudo_fs(path[i])
  BY <1>2 DEF file_open_write, ReadMark
<1>3. CASE WriteRecord(p, i) # NoRecord /\ ~is_pseudo_fs(path[i])
  <2>1. INODE_MARKS' = [INODE_MARKS EXCEPT ![i] =
                          IF INODE_MARKS[i] = NoRecord
                          THEN WriteRecord(p, i) ELSE INODE_MARKS[i]]
    BY <1>3 DEF file_open_write, get_or_insert_ptr
  <2>2. \A j \in Inodes \ {i} : ReadMark(j)' = ReadMark(j)
    BY <1>1, <2>1 DEF ReadMark
  <2>3. ReadMark(i)' = IF INODE_MARKS[i] = NoRecord THEN WriteRecord(p, i)
                       ELSE INODE_MARKS[i]
    BY <1>1, <1>3, <2>1 DEF ReadMark
  <2>. QED
    BY <1>3, <2>2, <2>3
<1>. QED
  BY <1>2, <1>3

\* A record put on disk, in storage or both is the file's mark, unless the one
\* in storage stays.
LEMMA MarkAfter ==
    ASSUME TypeOK, NEW j \in Inodes, NEW rec \in Origins,
           xattr' \in {xattr, [xattr EXCEPT ![j] = rec]},
           INODE_MARKS' \in {INODE_MARKS, [INODE_MARKS EXCEPT ![j] = rec]}
    PROVE  /\ \A i \in Inodes \ {j} : ReadMark(i)' = ReadMark(i)
           /\ ReadMark(j)' \in {ReadMark(j), rec}
           /\ \A i \in Inodes : xattr'[i] = xattr[i] \/ (i = j /\ xattr'[i] = rec)
<1>1. /\ INODE_MARKS \in [Inodes -> Origins \cup {NoRecord}]
      /\ xattr \in [Inodes -> Stored(Versions) \cup {NoRecord}]
  BY DEF TypeOK
<1>2. rec.version = ORIGIN_VERSION /\ rec # NoRecord
  BY KernelAssumption DEF Origins, Stored
<1>3. /\ \A i \in Inodes \ {j} : INODE_MARKS'[i] = INODE_MARKS[i] /\ xattr'[i] = xattr[i]
      /\ INODE_MARKS'[j] \in {INODE_MARKS[j], rec}
      /\ xattr'[j] \in {xattr[j], rec}
  BY <1>1
<1>4. \A i \in Inodes \ {j} : ReadMark(i)' = ReadMark(i)
  BY <1>3 DEF ReadMark, Current
<1>5. ReadMark(j)' \in {ReadMark(j), rec}
  BY <1>2, <1>3 DEF ReadMark, Current
<1>. QED
  BY <1>3, <1>4, <1>5

\* A mark source is what has a record to write.
LEMMA WriterIsSource ==
    ASSUME TypeOK, NEW p \in Pids, NEW i \in Inodes
    PROVE  WriteRecord(p, i) # NoRecord
              <=> p \in NET_PIDS \/ PROP_PIDS[p] # NoRecord
<1>1. NoRecord \notin Origins
  BY MarkTypes
<1>2. ASSUME p \in NET_PIDS
      PROVE  WriteRecord(p, i) \in Origins
  BY <1>2, KernelAssumption DEF TypeOK, WriteRecord, Origins, Stored
<1>3. ASSUME p \notin NET_PIDS, PROP_PIDS[p] # NoRecord
      PROVE  WriteRecord(p, i) \in Origins
  BY <1>3, KernelAssumption DEF TypeOK, WriteRecord, Origins, Stored
<1>4. ASSUME p \notin NET_PIDS, PROP_PIDS[p] = NoRecord
      PROVE  WriteRecord(p, i) = NoRecord
  BY <1>4 DEF WriteRecord
<1>. QED
  BY <1>1, <1>2, <1>3, <1>4

-----------------------------------------------------------------------------
(* Soundness: what the maps say is true.                                   *)

\* What the daemon relies on outlives steps that move no file and announce no
\* mark.
LEMMA FrameDaemon ==
    ASSUME DaemonInv, UNCHANGED <<path, xattr>>, web \subseteq web',
           downloaders \subseteq downloaders',
           Queued' \subseteq Queued \cup {Verdict}
    PROVE  DaemonInv'
<1>1. Verdict.kind = "exec"
  BY DEF Verdict
<1>2. \A i \in Inodes :
         Current(xattr[i])' => i \in web' /\ xattr'[i].comm \in downloaders'
  BY DEF DaemonInv, Current
<1>3. \A ev \in Queued' : ev.kind # "exec" =>
          /\ ev.rec.comm \in downloaders'
          /\ \A i \in Inodes : path'[i] = ev.rec.landing => i \in web'
  BY <1>1 DEF DaemonInv
<1>. QED
  BY <1>2, <1>3 DEF DaemonInv

LEMMA QueuedSame == UNCHANGED EVENTS => Queued' = Queued
  BY DEF Queued

\* A read taints only a reader of a marked file.
LEMMA ReadSound ==
    ASSUME SoundInv, NEW p \in Pids, NEW i \in Inodes, NEW loading \in BOOLEAN,
           file_open_read(p, i, loading), Consumed(p, i, loading),
           UNCHANGED <<path, xattr>>
    PROVE  SourceInv' /\ NoFalseMark' /\ CreatorInv' /\ DaemonInv'
<1>. USE DEF fileGhosts
<1>1. TypeOK /\ SourceInv /\ NoFalseMark /\ CreatorInv /\ DaemonInv
  BY DEF SoundInv
<1>2. \A j \in Inodes : ReadMark(j)' = ReadMark(j)
  BY <1>1, ReadMarks
<1>3. NoFalseMark'
  BY <1>1, <1>2 DEF NoFalseMark, Consumed
<1>4. \/ PROP_PIDS' = PROP_PIDS
      \/ /\ PROP_PIDS' = [PROP_PIDS EXCEPT ![p] = ReadMark(i)]
         /\ ReadMark(i) # NoRecord /\ p # SELF /\ ~ReadDenied(p, i)
  BY DEF file_open_read, Exempt
<1>5. PROP_PIDS \in [Pids -> Origins \cup {NoRecord}]
  BY <1>1 DEF TypeOK
<1>6. SourceInv'
  <2>1. NET_PIDS' \subseteq touched' /\ fed \subseteq fed'
    BY <1>1 DEF SourceInv, file_open_read, Consumed
  <2>2. ReadMark(i) # NoRecord /\ p # SELF /\ ~ReadDenied(p, i) => p \in fed'
    BY <1>1 DEF NoFalseMark, Consumed
  <2>. QED
    BY <1>1, <1>4, <1>5, <2>1, <2>2 DEF SourceInv
<1>7. CreatorInv'
  BY <1>1, <1>2, <1>4, <1>5 DEF CreatorInv, Consumed
<1>8. DaemonInv'
  <2>1. Queued' \subseteq Queued \cup {Verdict}
    BY <1>1, OpenReadMaps
  <2>. QED
    BY <1>1, <2>1, FrameDaemon DEF Consumed
<1>. QED
  BY <1>3, <1>6, <1>7, <1>8

\* A write marks only the files of mark sources, in the name of a downloader.
LEMMA WriteSound ==
    ASSUME SoundInv, NEW p \in Pids, NEW i \in Inodes,
           file_open_write(p, i), Written(p, i),
           UNCHANGED <<path, xattr, touched>>, fed \subseteq fed'
    PROVE  SourceInv' /\ NoFalseMark' /\ CreatorInv' /\ DaemonInv'
<1>. USE DEF pidMaps
<1>1. TypeOK /\ SourceInv /\ NoFalseMark /\ CreatorInv /\ DaemonInv
  BY DEF SoundInv
<1>2. SourceInv'
  BY <1>1 DEF SourceInv, file_open_write
<1>3. /\ \A j \in Inodes \ {i} : ReadMark(j)' = ReadMark(j)
      /\ ReadMark(i)' \in {ReadMark(i), INODE_MARKS[i], WriteRecord(p, i)}
      /\ ReadMark(i)' # ReadMark(i) =>
            ~is_pseudo_fs(path[i]) /\ WriteRecord(p, i) # NoRecord
  BY <1>1, WriteMarks
<1>4. web \subseteq web' /\ downloaders \subseteq downloaders'
  BY DEF Written
<1>5. NoFalseMark'
  <2>1. ReadMark(i)' # ReadMark(i) => i \in web'
    BY <1>1, <1>3, WriterIsSource DEF SourceInv, Written
  <2>. QED
    BY <1>1, <1>3, <1>4, <2>1 DEF NoFalseMark
<1>6. WriteRecord(p, i) # NoRecord => WriteRecord(p, i).comm \in downloaders'
  <2>1. CASE p \in NET_PIDS
    BY <1>1, <2>1 DEF WriteRecord, Written, SourceInv
  <2>2. CASE p \notin NET_PIDS
    BY <1>1, <1>4, <2>2 DEF WriteRecord, CreatorInv
  <2>. QED
    BY <2>1, <2>2
<1>7. CreatorInv'
  <2>1. INODE_MARKS[i] # NoRecord => INODE_MARKS[i].comm \in downloaders
    BY <1>1 DEF CreatorInv, ReadMark
  <2>2. ReadMark(i)' # NoRecord => ReadMark(i)'.comm \in downloaders'
    BY <1>1, <1>3, <1>4, <1>6, <2>1 DEF CreatorInv
  <2>3. \A j \in Inodes : ReadMark(j)' # NoRecord =>
                             ReadMark(j)'.comm \in downloaders'
    BY <1>1, <1>3, <1>4, <2>2 DEF CreatorInv
  <2>. QED
    BY <1>1, <1>4, <2>3 DEF CreatorInv, file_open_write
<1>8. DaemonInv'
  <2>1. \A ev \in Queued' \ Queued :
           ev.rec = WriteRecord(p, i) /\ ev.rec # NoRecord /\ ~is_pseudo_fs(path[i])
    BY <1>1, WriteRing
  <2>2. WriteRecord(p, i) # NoRecord => WriteRecord(p, i).landing = path[i]
    BY DEF WriteRecord
  <2>3. WriteRecord(p, i) # NoRecord /\ ~is_pseudo_fs(path[i]) => i \in web'
    BY <1>1, WriterIsSource DEF SourceInv, Written
  <2>4. ASSUME NEW ev \in Queued', ev.kind # "exec"
        PROVE  /\ ev.rec.comm \in downloaders'
               /\ \A j \in Inodes : path'[j] = ev.rec.landing => j \in web'
    <3>1. CASE ev \in Queued
      BY <1>1, <1>4, <2>4, <3>1 DEF DaemonInv
    <3>2. CASE ev \notin Queued
      BY <1>1, <1>6, <2>1, <2>2, <2>3, <3>2 DEF DaemonInv
    <3>. QED
      BY <3>1, <3>2
  <2>5. \A j \in Inodes :
           Current(xattr[j])' => j \in web' /\ xattr'[j].comm \in downloaders'
    BY <1>1, <1>4 DEF DaemonInv, Current
  <2>. QED
    BY <1>1, <2>4, <2>5 DEF DaemonInv
<1>. QED
  BY <1>2, <1>5, <1>7, <1>8

\* So do steps that only forget records, or add to the truth.
LEMMA FrameSound ==
    ASSUME SoundInv, UNCHANGED <<INODE_MARKS, path, xattr>>,
           NET_PIDS' \subseteq touched', touched \subseteq touched',
           fed \subseteq fed', web \subseteq web',
           downloaders \subseteq downloaders',
           Queued' \subseteq Queued \cup {Verdict},
           \A p \in Pids : PROP_PIDS'[p] \in {PROP_PIDS[p], NoRecord}
    PROVE  SourceInv' /\ NoFalseMark' /\ CreatorInv' /\ DaemonInv'
<1>1. \A i \in Inodes : ReadMark(i)' = ReadMark(i)
  BY DEF ReadMark
<1>. QED
  BY <1>1, FrameDaemon DEF SoundInv, SourceInv, NoFalseMark, CreatorInv

\* The daemon puts a mark where one belongs.
LEMMA DrainSound ==
    ASSUME SoundInv, Drain
    PROVE  NoFalseMark' /\ CreatorInv' /\ DaemonInv'
<1>. USE DEF pidMaps, fileGhosts
<1>1. TypeOK /\ NoFalseMark /\ CreatorInv /\ DaemonInv
  BY DEF SoundInv
<1>2. Queued' \subseteq Queued /\ Head(EVENTS) \in Queued
  BY <1>1, DrainRing DEF Drain, TypeOK
<1>3. UNCHANGED <<path, PROP_PIDS, web, downloaders>>
  BY DEF Drain
<1>4. CASE UNCHANGED <<INODE_MARKS, xattr>>
  <2>1. \A i \in Inodes : ReadMark(i)' = ReadMark(i)
    BY <1>4 DEF ReadMark
  <2>2. DaemonInv'
    BY <1>1, <1>2, <1>3, <1>4, FrameDaemon
  <2>. QED
    BY <1>1, <1>3, <2>1, <2>2 DEF NoFalseMark, CreatorInv
<1>5. CASE Head(EVENTS).kind # "exec"
  <2>1. PICK ev \in Events : /\ ev = Head(EVENTS) /\ ev.kind # "exec"
                             /\ ev.rec # NoRecord /\ on_file_marked(ev)
    BY <1>1, <1>2, <1>5 DEF Drain, TypeOK, RingOK, Queued
  <2>2. /\ ev.rec.comm \in downloaders
        /\ \A i \in Inodes : path[i] = ev.rec.landing => i \in web
    BY <1>1, <1>2, <2>1 DEF DaemonInv
  <2>3. CASE \E j \in Inodes, rec \in Origins :
                /\ path[j] = ev.rec.landing /\ rec.comm = ev.rec.comm
                /\ xattr' \in {xattr, [xattr EXCEPT ![j] = rec]}
                /\ INODE_MARKS' \in {INODE_MARKS,
                                     [INODE_MARKS EXCEPT ![j] = rec]}
    <3>1. PICK j \in Inodes, rec \in Origins :
                /\ path[j] = ev.rec.landing /\ rec.comm = ev.rec.comm
                /\ xattr' \in {xattr, [xattr EXCEPT ![j] = rec]}
                /\ INODE_MARKS' \in {INODE_MARKS,
                                     [INODE_MARKS EXCEPT ![j] = rec]}
      BY <2>3
    <3>2. j \in web /\ rec.comm \in downloaders
      BY <2>2, <3>1
    <3>3. /\ \A i \in Inodes \ {j} : ReadMark(i)' = ReadMark(i)
          /\ ReadMark(j)' \in {ReadMark(j), rec}
          /\ \A i \in Inodes : xattr'[i] = xattr[i] \/ (i = j /\ xattr'[i] = rec)
      BY <1>1, <3>1, MarkAfter
    <3>4. NoFalseMark'
      BY <1>1, <1>3, <3>2, <3>3 DEF NoFalseMark
    <3>5. CreatorInv'
      BY <1>1, <1>3, <3>2, <3>3 DEF CreatorInv
    <3>6. \A i \in Inodes :
             Current(xattr[i])' => i \in web' /\ xattr'[i].comm \in downloaders'
      BY <1>1, <1>3, <3>2, <3>3 DEF DaemonInv, Current
    <3>7. DaemonInv'
      BY <1>1, <1>2, <1>3, <3>6 DEF DaemonInv
    <3>. QED
      BY <3>4, <3>5, <3>7
  <2>. QED
    BY <1>1, <1>4, <2>1, <2>3, MarkedTypes
<1>. QED
  BY <1>4, <1>5 DEF Drain

\* Every step keeps the maps sound as long as a process's last thread is its
\* leader and no file takes a name under the daemon's eyes: late writes,
\* read-write opens and evictions included.
LEMMA SoundStep ==
    ASSUME {"leader_first", "swap"} \cap Faults = {}, SoundInv, [Next]_vars
    PROVE  SoundInv'
<1>. USE DEF procVars, pidMaps, inodeMaps, lifeGhosts, fileGhosts
<1>1. /\ TypeOK /\ LeaderInv /\ SourceInv /\ NoFalseMark /\ CreatorInv
      /\ DaemonInv
  BY DEF SoundInv
<1>0. "leader_first" \notin Faults /\ "swap" \notin Faults
  OBVIOUS
<1>2. TypeOK'
  BY <1>1, TypeStep
<1>3. ASSUME NEW p \in Pids, NEW i \in Inodes, NEW loading \in BOOLEAN,
             file_open_read(p, i, loading), Consumed(p, i, loading),
             UNCHANGED <<threads, path, xattr>>
      PROVE  SoundInv'
  <2>1. LeaderInv'
    BY <1>1, <1>3 DEF LeaderInv, Consumed
  <2>. QED
    BY <1>2, <1>3, <2>1, ReadSound DEF SoundInv
<1>4. ASSUME NEW p \in Pids, NEW i \in Inodes,
             OpenRead(p, i) \/ Execve(p, i) \/ InterpOpen(p)
      PROVE  SoundInv'
  BY <1>3, <1>4 DEF OpenRead, Execve, InterpOpen, Loading
<1>5. ASSUME NEW p \in Pids, NEW i \in Inodes,
             OpenWrite(p, i) \/ OpenReadWrite(p, i)
      PROVE  SoundInv'
  <2>1. /\ file_open_write(p, i) /\ Written(p, i)
        /\ UNCHANGED <<threads, path, xattr, touched, execed>> /\ fed \subseteq fed'
    BY <1>5 DEF OpenWrite, OpenReadWrite
  <2>2. LeaderInv'
    BY <1>1, <2>1 DEF LeaderInv
  <2>. QED
    BY <1>2, <2>1, <2>2, WriteSound DEF SoundInv
<1>6. ASSUME NEW p \in Pids, NEW i \in Inodes, LateWrite(p, i) \/ Close(p, i)
      PROVE  SoundInv'
  <2>1. web \subseteq web' /\ downloaders \subseteq downloaders'
    BY <1>6 DEF LateWrite, Close, Written
  <2>2. UNCHANGED <<threads, execed, path, pidMaps, inodeMaps, xattr, EVENTS,
                    touched, fed>>
    BY <1>6 DEF LateWrite, Close
  <2>3. LeaderInv'
    BY <1>1, <2>2 DEF LeaderInv
  <2>. QED
    BY <1>1, <1>2, <2>1, <2>2, <2>3, FrameSound, QueuedSame DEF SoundInv, SourceInv
<1>7. ASSUME NEW p \in Pids, NEW to, socket_connect(p, to)
      PROVE  SoundInv'
  <2>1. LeaderInv'
    BY <1>1, <1>7 DEF socket_connect, LeaderInv
  <2>2. SourceInv' /\ NoFalseMark' /\ CreatorInv' /\ DaemonInv'
    BY <1>1, <1>7, FrameSound, QueuedSame DEF socket_connect, SourceInv
  <2>. QED
    BY <1>2, <2>1, <2>2 DEF SoundInv
<1>8. ASSUME UNCHANGED <<path, pidMaps, inodeMaps, xattr, lifeGhosts,
                         fileGhosts>>,
             Queued' \subseteq Queued \cup {Verdict},
             \A p \in Pids : threads'[p] # {} => "leader" \in threads'[p],
             \A p \in Pids : threads[p] # {} => threads'[p] # {}
      PROVE  SoundInv'
  <2>1. LeaderInv'
    BY <1>1, <1>8 DEF LeaderInv
  <2>. QED
    BY <1>1, <1>2, <1>8, <2>1, FrameSound DEF SoundInv, SourceInv
<1>9. ASSUME NEW p \in Pids, bprm_check_security(p) \/ ExecFails(p)
      PROVE  SoundInv'
  <2>1. emit_event(Verdict) \/ UNCHANGED EVENTS
    BY <1>9 DEF bprm_check_security, ExecFails
  <2>2. Queued' \subseteq Queued \cup {Verdict}
    BY <1>1, <2>1, VerdictRing, QueuedSame DEF TypeOK
  <2>. QED
    BY <1>1, <1>8, <1>9, <2>2 DEF bprm_check_security, ExecFails, LeaderInv
<1>10. ASSUME NEW p \in Pids,
              \/ Enter(p) \/ Spawn(p) \/ (\E q \in Pids : Fork(p, q))
              \/ \E name \in Names : SetName(p, name)
       PROVE  SoundInv'
  <2>1. UNCHANGED <<path, pidMaps, inodeMaps, xattr, EVENTS, lifeGhosts,
                    fileGhosts>>
    BY <1>10 DEF Enter, Spawn, Fork, SetName
  <2>2. \/ threads' = threads
        \/ \E q \in Pids : threads' = [threads EXCEPT ![q] = {"leader"}]
        \/ threads' = [threads EXCEPT ![p] = @ \cup {"worker"}]
           /\ threads[p] # {}
    BY <1>10 DEF Enter, Spawn, Fork, SetName, Free, Alive
  <2>3. threads \in [Pids -> SUBSET Threads]
    BY <1>1 DEF TypeOK
  <2>4. \A q \in Pids : /\ threads'[q] # {} => "leader" \in threads'[q]
                        /\ threads[q] # {} => threads'[q] # {}
    BY <1>1, <2>2, <2>3 DEF LeaderInv
  <2>. QED
    BY <1>8, <2>1, <2>4, QueuedSame
<1>11. ASSUME NEW p \in Pids, NEW t \in Threads, bprm_committed_creds(p, t)
       PROVE  SoundInv'
  <2>1. t = "leader"
    BY <1>0, <1>11 DEF bprm_committed_creds
  <2>2. UNCHANGED <<NET_PIDS, PROP_PIDS, INODE_MARKS, path, xattr, EVENTS,
                    touched, fed, web, downloaders>>
    BY <1>1, <1>11, <2>1 DEF bprm_committed_creds, TypeOK
  <2>3. LeaderInv'
    BY <1>1, <1>11 DEF bprm_committed_creds, LeaderInv, TypeOK
  <2>. QED
    BY <1>1, <1>2, <2>2, <2>3, FrameSound, QueuedSame DEF SoundInv, SourceInv
<1>12. ASSUME NEW p \in Pids, NEW t \in Threads, sched_process_exit(p, t)
       PROVE  SoundInv'
  <2>1. PICK gone : gone = IF threads[p] = {t} THEN {p} ELSE {}
    OBVIOUS
  <2>2. gone \subseteq Reaped(p, t)
    BY <1>1, <2>1 DEF LeaderInv, Reaped
  <2>3. /\ threads' = [threads EXCEPT ![p] = @ \ {t}]
        /\ NET_PIDS' = NET_PIDS \ Reaped(p, t)
        /\ PROP_PIDS' = [q \in Pids |-> IF q \in Reaped(p, t) THEN NoRecord
                                        ELSE PROP_PIDS[q]]
        /\ touched' = touched \ gone
        /\ fed' = fed \ gone
        /\ execed' = execed \ gone
        /\ UNCHANGED <<path, inodeMaps, xattr, EVENTS, fileGhosts>>
    BY <1>12, <2>1 DEF sched_process_exit
  <2>4. \A i \in Inodes : ReadMark(i)' = ReadMark(i)
    BY <2>3 DEF ReadMark
  <2>5. SourceInv' /\ NoFalseMark' /\ CreatorInv'
    BY <1>1, <2>2, <2>3, <2>4 DEF SourceInv, NoFalseMark, CreatorInv
  <2>7. DaemonInv'
    BY <1>1, <2>3, FrameDaemon, QueuedSame
  <2>6. LeaderInv'
    <3>1. "leader" = t => threads[p] = {t}
      BY <1>0, <1>12 DEF sched_process_exit
    <3>2. threads \in [Pids -> SUBSET Threads]
      BY <1>1 DEF TypeOK
    <3>3. \A q \in Pids \ {p} : threads'[q] = threads[q]
      BY <2>3, <3>2
    <3>4. threads'[p] = threads[p] \ {t}
      BY <2>3, <3>2
    <3>. QED
      BY <1>1, <2>1, <2>3, <3>1, <3>3, <3>4 DEF LeaderInv
  <2>. QED
    BY <1>2, <2>5, <2>6, <2>7 DEF SoundInv
<1>13. ASSUME NEW p \in Pids, Evict(p)
       PROVE  SoundInv'
  <2>1. /\ NET_PIDS' \subseteq NET_PIDS
        /\ UNCHANGED <<threads, INODE_MARKS, path, xattr, EVENTS, lifeGhosts,
                       fileGhosts>>
    BY <1>13 DEF Evict
  <2>2. \A q \in Pids : PROP_PIDS'[q] \in {PROP_PIDS[q], NoRecord}
    BY <1>1, <1>13 DEF Evict, TypeOK
  <2>3. LeaderInv'
    BY <1>1, <2>1 DEF LeaderInv
  <2>. QED
    BY <1>1, <1>2, <2>1, <2>2, <2>3, FrameSound, QueuedSame DEF SoundInv, SourceInv
<1>14. ASSUME NEW i \in Inodes, NEW where, Rename(i, where)
       PROVE  SoundInv'
  <2>1. \A j \in Inodes : ReadMark(j)' = ReadMark(j)
    BY <1>14 DEF Rename, ReadMark
  <2>2. LeaderInv' /\ SourceInv' /\ NoFalseMark' /\ CreatorInv'
    BY <1>1, <1>14, <2>1 DEF Rename, LeaderInv, SourceInv, NoFalseMark, CreatorInv
  <2>3. /\ path' = [path EXCEPT ![i] = where]
        /\ path \in [Inodes -> Paths]
        /\ \A j \in Inodes : path[j] # where
        /\ \A ev \in Queued : ~Awaits(ev, where)
        /\ UNCHANGED <<xattr, web, downloaders>>
        /\ Queued' = Queued
    BY <1>0, <1>1, <1>14, QueuedSame DEF Rename, TypeOK
  <2>4. \A j \in Inodes :
           Current(xattr[j])' => j \in web' /\ xattr'[j].comm \in downloaders'
    BY <1>1, <2>3 DEF DaemonInv, Current
  <2>5. DaemonInv'
    BY <1>1, <2>3, <2>4 DEF DaemonInv, Awaits
  <2>. QED
    BY <1>2, <2>2, <2>5 DEF SoundInv
<1>15. CASE UNCHANGED vars
  BY <1>1, <1>8, <1>15, QueuedSame DEF vars, LeaderInv
<1>17. CASE Drain
  <2>1. LeaderInv' /\ SourceInv'
    BY <1>1, <1>17 DEF Drain, LeaderInv, SourceInv
  <2>. QED
    BY <1>2, <1>17, <2>1, DrainSound DEF SoundInv
<1>18. ASSUME NEW i \in Inodes, Forget(i)
       PROVE  SoundInv'
  <2>1. LeaderInv' /\ SourceInv'
    BY <1>1, <1>18 DEF Forget, LeaderInv, SourceInv
  <2>2. DaemonInv'
    BY <1>1, <1>18, FrameDaemon, QueuedSame DEF Forget
  <2>3. \A j \in Inodes : \/ ReadMark(j)' \in {ReadMark(j), NoRecord}
                           \/ (Current(xattr[j]) /\ ReadMark(j)' = xattr[j])
    BY <1>1, <1>18 DEF Forget, ReadMark, Current, TypeOK
  <2>4. NoFalseMark' /\ CreatorInv'
    BY <1>1, <1>18, <2>3 DEF Forget, NoFalseMark, CreatorInv, DaemonInv
  <2>. QED
    BY <1>2, <2>1, <2>2, <2>4 DEF SoundInv
<1>16. CASE \E p \in Pids : Syscall(p)
  <2>1. PICK p \in Pids : Syscall(p)
    BY <1>16
  <2>2. CASE InterpOpen(p)
    BY <1>4, <2>2 DEF InterpOpen
  <2>. QED
    BY <1>4, <1>5, <1>6, <1>7, <1>9, <1>10, <1>11, <1>12, <2>1, <2>2
       DEF Syscall, Threads
<1>. QED
  BY <1>13, <1>14, <1>15, <1>16, <1>17, <1>18 DEF Next

\* NoFalseMark: no file without web content is ever marked, however
\* the processes write and read, whatever the PID maps and the inode cache
\* lose, and whichever writes of the daemon fail.
THEOREM NoFalseMarkTheorem ==
    ASSUME {"leader_first", "swap"} \cap Faults = {}
    PROVE  Spec => []NoFalseMark
<1>1. Init => SoundInv
  BY TrackInit DEF TrackInv
<1>2. SoundInv /\ [Next]_vars => SoundInv'
  BY SoundStep
<1>3. SoundInv => NoFalseMark
  BY DEF SoundInv
<1>. QED
  BY <1>1, <1>2, <1>3, PTL DEF Spec

\* CreatorIsDownloader: under the same condition, inherited records keep
\* naming the downloader.
THEOREM CreatorTheorem ==
    ASSUME {"leader_first", "swap"} \cap Faults = {}
    PROVE  Spec => []CreatorIsDownloader
<1>1. Init => SoundInv
  BY TrackInit DEF TrackInv
<1>2. SoundInv /\ [Next]_vars => SoundInv'
  BY SoundStep
<1>3. SoundInv => CreatorIsDownloader
  BY DEF SoundInv, CreatorInv, CreatorIsDownloader, ReadMark
<1>. QED
  BY <1>1, <1>2, <1>3, PTL DEF Spec

-----------------------------------------------------------------------------
(* Completeness: the maps miss nothing.                                    *)

\* A read taints every reader of web content, and clears an interpreter only
\* where a rule did.
LEMMA ReadStep ==
    ASSUME TrackInv, NEW p \in Pids, NEW i \in Inodes, NEW loading \in BOOLEAN,
           file_open_read(p, i, loading), Consumed(p, i, loading),
           UNCHANGED <<xattr, exe>>
    PROVE  TaintComplete' /\ ContentMarked' /\ InterpInv'
<1>. USE DEF fileGhosts
<1>1. TypeOK /\ TaintComplete /\ ContentMarked /\ InterpInv
  BY DEF TrackInv, SoundInv
<1>2. \A j \in Inodes : ReadMark(j)' = ReadMark(j)
  BY <1>1, ReadMarks
<1>3. web \subseteq Inodes /\ fed \subseteq Pids
  BY <1>1 DEF TypeOK
<1>4. ContentMarked'
  BY <1>1, <1>2, <1>3 DEF ContentMarked, Consumed
<1>5. TaintComplete'
  <2>1. touched' \subseteq NET_PIDS'
    BY <1>1 DEF TaintComplete, file_open_read, Consumed
  <2>2. CASE Exempt(p) \/ ReadMark(i) = NoRecord \/ ReadDenied(p, i)
    <3>1. PROP_PIDS' = PROP_PIDS
      BY <2>2 DEF file_open_read
    <3>2. fed' = fed
      BY <1>1, <2>2 DEF Consumed, ContentMarked, Exempt
    <3>. QED
      BY <1>1, <2>1, <3>1, <3>2 DEF TaintComplete
  <2>3. CASE ~Exempt(p) /\ ReadMark(i) # NoRecord /\ ~ReadDenied(p, i)
    <3>1. PROP_PIDS' = [PROP_PIDS EXCEPT ![p] = ReadMark(i)]
      BY <2>3 DEF file_open_read
    <3>2. fed' \subseteq fed \cup {p}
      BY DEF Consumed
    <3>3. PROP_PIDS \in [Pids -> Origins \cup {NoRecord}]
      BY <1>1 DEF TypeOK
    <3>. QED
      BY <1>1, <1>3, <2>1, <2>3, <3>1, <3>2, <3>3 DEF TaintComplete
  <2>. QED
    BY <2>2, <2>3
<1>6. InterpInv'
  <2>1. copying' \subseteq INTERP_COPY_PIDS'
    BY <1>1 DEF InterpInv, file_open_read, Consumed, Exempt
  <2>2. shell' \subseteq INTERP_INODE'
    BY <1>1 DEF InterpInv, file_open_read, Consumed
  <2>3. \A q \in execed' : exe'[q] \in INTERP_INODE' => q \in INTERP_PIDS'
    BY <1>1 DEF InterpInv, file_open_read, Consumed
  <2>4. APPROVED_INTERP' \subseteq cleared'
    BY <1>1 DEF InterpInv, file_open_read, Consumed, Exempt
  <2>5. scripted' \subseteq cleared'
    <3>1. cleared \subseteq cleared' /\ scripted \subseteq cleared
      BY <1>1 DEF Consumed, InterpInv
    <3>2. ASSUME p \in scripted', p \notin scripted
          PROVE  p \in cleared'
      <4>1. /\ p # SELF /\ ~ReadDenied(p, i) /\ i \in web
            /\ p \in execed /\ exe[p] \in shell
        BY <3>2 DEF Consumed
      <4>2. p \in INTERP_PIDS /\ ReadMark(i) # NoRecord
        BY <1>1, <4>1 DEF InterpInv, ContentMarked
      <4>3. CASE p \in APPROVED_INTERP
        BY <1>1, <3>1, <4>3 DEF InterpInv
      <4>4. CASE p \notin APPROVED_INTERP
        BY <4>1, <4>2, <4>4 DEF Consumed, Gated
      <4>. QED
        BY <4>3, <4>4
    <3>. QED
      BY <3>1, <3>2 DEF Consumed
  <2>. QED
    BY <2>1, <2>2, <2>3, <2>4, <2>5 DEF InterpInv
<1>. QED
  BY <1>4, <1>5, <1>6

\* A write marks the file of every mark source unless it is on a pseudo
\* filesystem, and spreads interpreter-ness alike.
LEMMA WriteStep ==
    ASSUME TrackInv, NEW p \in Pids, NEW i \in Inodes,
           file_open_write(p, i), Written(p, i), ~Busy(i),
           UNCHANGED <<xattr, exe, lifeGhosts>>
    PROVE  TaintComplete' /\ ContentMarked' /\ InterpInv'
<1>. USE DEF pidMaps, lifeGhosts
<1>1. TypeOK /\ LeaderInv /\ TaintComplete /\ ContentMarked /\ InterpInv
  BY DEF TrackInv, SoundInv
<1>2. TaintComplete'
  BY <1>1 DEF TaintComplete, file_open_write
<1>3. ContentMarked'
  <2>1. web \subseteq Inodes
    BY <1>1 DEF TypeOK
  <2>2. /\ \A j \in Inodes \ {i} : ReadMark(j)' = ReadMark(j)
        /\ ReadMark(i)' # ReadMark(i) => WriteRecord(p, i) # NoRecord
                                         /\ ~is_pseudo_fs(path[i])
        /\ ~is_pseudo_fs(path[i]) /\ WriteRecord(p, i) # NoRecord =>
              ReadMark(i)' # NoRecord
    BY <1>1, WriteMarks
  <2>3. p \in touched \cup fed => WriteRecord(p, i) # NoRecord
    BY <1>1, WriterIsSource DEF TaintComplete
  <2>4. i \in web' => ReadMark(i)' # NoRecord
    BY <1>1, <2>2, <2>3 DEF Written, ContentMarked
  <2>5. web' \subseteq web \cup {i}
    BY DEF Written
  <2>. QED
    BY <1>1, <2>1, <2>2, <2>4, <2>5 DEF ContentMarked
<1>4. InterpInv'
  <2>1. shell' \subseteq INTERP_INODE'
    BY <1>1 DEF InterpInv, file_open_write, Written
  <2>2. \A q \in execed' : exe'[q] \in INTERP_INODE' => q \in INTERP_PIDS'
    <3>. SUFFICES ASSUME NEW q \in execed, exe[q] \in INTERP_INODE'
                  PROVE  q \in INTERP_PIDS
      BY DEF file_open_write
    <3>1. q \in Pids /\ Alive(q)
      BY <1>1 DEF LeaderInv, TypeOK, Alive
    <3>2. exe[q] # i
      BY <3>1 DEF Busy
    <3>3. exe[q] \in INTERP_INODE
      BY <3>2 DEF file_open_write
    <3>. QED
      BY <1>1, <3>3 DEF InterpInv
  <2>. QED
    BY <1>1, <2>1, <2>2 DEF InterpInv, file_open_write
<1>. QED
  BY <1>2, <1>3, <1>4

\* Steps that touch neither the maps nor the truth they follow.
LEMMA FrameStep ==
    ASSUME TrackInv,
           UNCHANGED <<NET_PIDS, PROP_PIDS, INODE_MARKS, xattr, touched, fed,
                       fileGhosts>>
    PROVE  TaintComplete' /\ ContentMarked'
<1>. USE DEF fileGhosts
<1>1. web \subseteq Inodes /\ \A i \in Inodes : ReadMark(i)' = ReadMark(i)
  BY DEF TrackInv, SoundInv, TypeOK, ReadMark
<1>. QED
  BY <1>1 DEF TrackInv, TaintComplete, ContentMarked

\* Steps that leave the interpreter maps and programs alone keep InterpInv.
LEMMA FrameInterp ==
    ASSUME TrackInv,
           UNCHANGED <<exe, APPROVED_INTERP, INTERP_COPY_PIDS, INTERP_PIDS,
                       INTERP_INODE, shell, copying, execed, scripted,
                       cleared>>
    PROVE  InterpInv'
  BY DEF TrackInv, InterpInv

\* The two hooks agree on which files are marked.
LEMMA BprmSeesMark ==
    ASSUME TypeOK, NEW i \in Inodes
    PROVE  BprmMark(i) = NoRecord <=> ReadMark(i) = NoRecord
<1>1. INODE_MARKS[i] # NoRecord => Current(INODE_MARKS[i])
  BY DEF TypeOK, Origins, Stored, Current
<1>. QED
  BY <1>1 DEF BprmMark, ReadMark, Current

\* The daemon takes no mark back.
LEMMA DrainKeeps ==
    ASSUME TypeOK, Drain, NEW i \in Inodes, ReadMark(i) # NoRecord
    PROVE  ReadMark(i)' # NoRecord
<1>1. CASE UNCHANGED <<INODE_MARKS, xattr>>
  BY <1>1 DEF ReadMark
<1>2. CASE Head(EVENTS).kind # "exec"
  <2>1. Head(EVENTS) \in Queued
    BY DrainRing DEF Drain, TypeOK
  <2>2. PICK ev \in Events : /\ ev = Head(EVENTS) /\ ev.kind # "exec"
                             /\ ev.rec # NoRecord /\ on_file_marked(ev)
    BY <1>2, <2>1 DEF Drain, TypeOK, RingOK, Queued
  <2>3. CASE \E j \in Inodes, rec \in Origins :
                /\ xattr' \in {xattr, [xattr EXCEPT ![j] = rec]}
                /\ INODE_MARKS' \in {INODE_MARKS,
                                     [INODE_MARKS EXCEPT ![j] = rec]}
    <3>1. NoRecord \notin Origins
      BY KernelAssumption DEF Origins, Stored
    <3>. QED
      BY <2>3, <3>1, MarkAfter
  <2>. QED
    BY <1>1, <2>2, <2>3, MarkedTypes
<1>. QED
  BY <1>1, <1>2 DEF Drain

\* Without the faults, every step keeps the maps in line with the truth.
LEMMA TrackStep ==
    ASSUME Faults = {}, TrackInv, [Next]_vars
    PROVE  TrackInv'
<1>. USE DEF procVars, pidMaps, inodeMaps, lifeGhosts, fileGhosts
<1>1. /\ SoundInv /\ TypeOK /\ LeaderInv /\ TaintComplete /\ ContentMarked
      /\ ExecInv /\ InterpInv
  BY DEF TrackInv, SoundInv
<1>2. SoundInv'
  BY <1>1, SoundStep
<1>3. ASSUME NEW p \in Pids, NEW i \in Inodes, OpenRead(p, i)
      PROVE  TrackInv'
  <2>1. TaintComplete' /\ ContentMarked' /\ InterpInv'
    BY <1>3, ReadStep DEF OpenRead
  <2>2. ExecInv'
    BY <1>1, <1>3 DEF OpenRead, Consumed, ExecInv
  <2>. QED
    BY <1>2, <2>1, <2>2 DEF TrackInv
<1>4. ASSUME NEW p \in Pids, NEW i \in Inodes, OpenWrite(p, i)
      PROVE  TrackInv'
  <2>1. TaintComplete' /\ ContentMarked' /\ InterpInv'
    BY <1>4, WriteStep DEF OpenWrite
  <2>2. ExecInv'
    BY <1>1, <1>4 DEF OpenWrite, ExecInv
  <2>. QED
    BY <1>2, <2>1, <2>2 DEF TrackInv
<1>5. ASSUME NEW p \in Pids, NEW i \in Inodes, NEW name, NEW why,
             MODE = "enforce" => why \subseteq {"permitted", "ring_full"},
             Loading(p, i, name, why)
      PROVE  TrackInv'
  <2>1. TaintComplete' /\ ContentMarked' /\ InterpInv'
    BY <1>5, ReadStep DEF Loading
  <2>3. ExecInv'
    BY <1>1, <1>5 DEF Loading, Consumed, ExecInv, NoExec, TypeOK
  <2>. QED
    BY <1>2, <2>1, <2>3 DEF TrackInv
<1>6. ASSUME NEW p \in Pids, NEW i \in Inodes, Execve(p, i)
      PROVE  TrackInv'
  BY <1>5, <1>6 DEF Execve
<1>7. ASSUME NEW p \in Pids, InterpOpen(p)
      PROVE  TrackInv'
  BY <1>1, <1>5, <1>7 DEF InterpOpen, ExecInv
<1>8. ASSUME NEW p \in Pids, bprm_check_security(p)
      PROVE  TrackInv'
  <2>1. TaintComplete' /\ ContentMarked' /\ InterpInv'
    BY <1>8, FrameStep, FrameInterp DEF bprm_check_security
  <2>3. exec \in [Pids -> ExecStates] /\ web \subseteq Inodes
    BY <1>1 DEF TypeOK
  <2>4. ASSUME NEW why, Admit(p, why), MODE = "enforce",
               exec[p].file \in web => why \in {"permitted", "ring_full"}
        PROVE  \A q \in Pids :
                  exec'[q].causes \subseteq {"permitted", "ring_full"}
    <3>1. PICK c : /\ exec'[p].causes = c
                   /\ c = IF exec[p].file \in web
                          THEN exec[p].causes \cup {why} ELSE exec[p].causes
      BY <2>3, <2>4 DEF Admit
    <3>2. c \subseteq {"permitted", "ring_full"}
      BY <1>1, <2>4, <3>1 DEF ExecInv
    <3>3. \A q \in Pids \ {p} : exec'[q] = exec[q]
      BY <2>3, <2>4 DEF Admit
    <3>. QED
      BY <1>1, <2>4, <3>1, <3>2, <3>3 DEF ExecInv
  <2>5. ASSUME Refuse(p), MODE = "enforce"
        PROVE  \A q \in Pids :
                  exec'[q].causes \subseteq {"permitted", "ring_full"}
    BY <1>1, <2>3, <2>5 DEF Refuse, ExecInv, NoExec
  <2>6. BprmMark(exec[p].file) = NoRecord => exec[p].file \notin web
    BY <1>1, <2>3, BprmSeesMark DEF ContentMarked
  <2>7. ExecInv'
    <3>1. causes' = causes
      BY <1>8 DEF bprm_check_security
    <3>2. MODE = "enforce" =>
             \A q \in Pids :
                exec'[q].causes \subseteq {"permitted", "ring_full"}
      BY <1>8, <2>4, <2>5, <2>6 DEF bprm_check_security
    <3>. QED
      BY <1>1, <3>1, <3>2 DEF ExecInv
  <2>. QED
    BY <1>2, <2>1, <2>7 DEF TrackInv
<1>9. ASSUME NEW p \in Pids, ExecFails(p)
      PROVE  TrackInv'
  <2>1. TaintComplete' /\ ContentMarked' /\ InterpInv'
    BY <1>9, FrameStep, FrameInterp DEF ExecFails
  <2>3. ExecInv'
    BY <1>1, <1>9 DEF ExecFails, Refuse, ExecInv, NoExec, TypeOK
  <2>. QED
    BY <1>2, <2>1, <2>3 DEF TrackInv
<1>10. ASSUME NEW p \in Pids, NEW t \in Threads, bprm_committed_creds(p, t)
       PROVE  TrackInv'
  <2>1. t = "leader"
    BY <1>10 DEF bprm_committed_creds
  <2>2. /\ NET_PIDS' = NET_PIDS
        /\ APPROVED_INTERP' = APPROVED_INTERP
        /\ INTERP_COPY_PIDS' = INTERP_COPY_PIDS
    BY <1>10, <2>1 DEF bprm_committed_creds
  <2>3. PROP_PIDS' = PROP_PIDS
    BY <1>1, <1>10, <2>1 DEF bprm_committed_creds, TypeOK
  <2>4. TaintComplete' /\ ContentMarked'
    BY <1>10, <2>2, <2>3, FrameStep DEF bprm_committed_creds
  <2>6. ExecInv'
    BY <1>1, <1>10 DEF bprm_committed_creds, ExecInv, NoExec, TypeOK
  <2>7. \A q \in execed' : exe'[q] \in INTERP_INODE' => q \in INTERP_PIDS'
    BY <1>1, <1>10 DEF bprm_committed_creds, is_interp, InterpInv, TypeOK
  <2>8. InterpInv'
    BY <1>1, <1>10, <2>2, <2>7 DEF bprm_committed_creds, InterpInv
  <2>. QED
    BY <1>2, <2>4, <2>6, <2>8 DEF TrackInv
<1>11. ASSUME NEW p \in Pids, NEW t \in Threads, sched_process_exit(p, t)
       PROVE  TrackInv'
  <2>1. PICK gone : gone = IF threads[p] = {t} THEN {p} ELSE {}
    OBVIOUS
  <2>2. Reaped(p, t) = gone
    <3>1. CASE t = "leader"
      BY <1>11, <2>1, <3>1 DEF sched_process_exit, Reaped
    <3>2. CASE t # "leader"
      BY <1>1, <1>11, <2>1, <3>2 DEF LeaderInv, Reaped
    <3>. QED
      BY <3>1, <3>2
  <2>3. /\ threads' = [threads EXCEPT ![p] = @ \ {t}]
        /\ NET_PIDS' = NET_PIDS \ gone
        /\ PROP_PIDS' = [q \in Pids |-> IF q \in gone THEN NoRecord
                                        ELSE PROP_PIDS[q]]
        /\ APPROVED_INTERP' = APPROVED_INTERP \ gone
        /\ INTERP_COPY_PIDS' = INTERP_COPY_PIDS \ gone
        /\ INTERP_PIDS' = INTERP_PIDS \ gone
        /\ exec' = [q \in Pids |-> IF q \in gone THEN NoExec ELSE exec[q]]
        /\ exe' = [q \in Pids |-> IF q \in gone THEN None ELSE exe[q]]
        /\ touched' = touched \ gone
        /\ fed' = fed \ gone
        /\ copying' = copying \ gone
        /\ execed' = execed \ gone
        /\ scripted' = scripted \ gone
        /\ cleared' = cleared \ gone
        /\ causes' = [q \in Pids |-> IF q \in gone THEN {} ELSE causes[q]]
        /\ UNCHANGED <<inodeMaps, xattr, fileGhosts>>
    BY <1>11, <2>1, <2>2 DEF sched_process_exit
  <2>4. \A i \in Inodes : ReadMark(i)' = ReadMark(i)
    BY <2>3 DEF ReadMark
  <2>5. TaintComplete' /\ ContentMarked'
    BY <1>1, <2>3, <2>4 DEF TaintComplete, ContentMarked, TypeOK
  <2>7. ExecInv'
    BY <1>1, <2>3 DEF ExecInv, NoExec
  <2>8. InterpInv'
    BY <1>1, <2>3 DEF InterpInv, TypeOK
  <2>. QED
    BY <1>2, <2>5, <2>7, <2>8 DEF TrackInv
<1>12. ASSUME NEW p \in Pids, NEW q \in Pids, Fork(p, q)
       PROVE  TrackInv'
  <2>1. TaintComplete' /\ ContentMarked'
    BY <1>12, FrameStep DEF Fork
  <2>2. q \notin execed
    BY <1>1, <1>12 DEF Fork, Alive, LeaderInv
  <2>3. InterpInv'
    BY <1>1, <1>12, <2>2 DEF Fork, InterpInv, TypeOK
  <2>4. ExecInv'
    BY <1>1, <1>12 DEF Fork, ExecInv, TypeOK
  <2>. QED
    BY <1>2, <2>1, <2>3, <2>4 DEF TrackInv
<1>13. ASSUME NEW p \in Pids, Enter(p) \/ Spawn(p)
       PROVE  TrackInv'
  <2>1. TaintComplete' /\ ContentMarked' /\ InterpInv'
    BY <1>13, FrameStep, FrameInterp DEF Enter, Spawn
  <2>2. ExecInv'
    BY <1>1, <1>13 DEF Enter, Spawn, ExecInv
  <2>. QED
    BY <1>2, <2>1, <2>2 DEF TrackInv
<1>14. ASSUME NEW p \in Pids, NEW name, SetName(p, name)
       PROVE  TrackInv'
  <2>1. TaintComplete' /\ ContentMarked' /\ InterpInv'
    BY <1>14, FrameStep, FrameInterp DEF SetName
  <2>. QED
    BY <1>1, <1>2, <1>14, <2>1 DEF SetName, ExecInv, TrackInv
<1>15. ASSUME NEW p \in Pids, NEW to, socket_connect(p, to)
       PROVE  TrackInv'
  <2>1. InterpInv'
    BY <1>15, FrameInterp DEF socket_connect
  <2>2. \A i \in Inodes : ReadMark(i)' = ReadMark(i)
    BY <1>15 DEF socket_connect, ReadMark
  <2>3. TaintComplete' /\ ContentMarked'
    BY <1>1, <1>15, <2>2 DEF socket_connect, TaintComplete, ContentMarked,
                             TypeOK
  <2>. QED
    BY <1>1, <1>2, <1>15, <2>1, <2>3 DEF socket_connect, ExecInv,
                                         TrackInv
<1>16. ASSUME NEW p \in Pids, NEW i \in Inodes, Close(p, i)
       PROVE  TrackInv'
  <2>1. TaintComplete' /\ ContentMarked' /\ InterpInv'
    BY <1>16, FrameStep, FrameInterp DEF Close
  <2>. QED
    BY <1>1, <1>2, <1>16, <2>1 DEF Close, ExecInv, TrackInv
<1>17. ASSUME NEW i \in Inodes, NEW where, Rename(i, where)
       PROVE  TrackInv'
  <2>1. TaintComplete' /\ ContentMarked' /\ InterpInv'
    BY <1>17, FrameStep, FrameInterp DEF Rename
  <2>. QED
    BY <1>1, <1>2, <1>17, <2>1 DEF Rename, ExecInv, TrackInv
<1>22. CASE Drain
  <2>1. ExecInv' /\ InterpInv' /\ TaintComplete'
    BY <1>1, <1>22, FrameInterp DEF Drain, ExecInv, TaintComplete
  <2>2. \A i \in Inodes : ReadMark(i) # NoRecord => ReadMark(i)' # NoRecord
    BY <1>1, <1>22, DrainKeeps
  <2>3. ContentMarked'
    BY <1>1, <1>22, <2>2 DEF Drain, ContentMarked, TypeOK
  <2>. QED
    BY <1>2, <2>1, <2>3 DEF TrackInv
<1>23. ASSUME NEW i \in Inodes, Forget(i)
       PROVE  TrackInv'
  <2>1. i \notin INTERP_INODE /\ Current(xattr[i]) /\ INTERP_INODE' = INTERP_INODE
    BY <1>23 DEF Forget
  <2>2. \A j \in Inodes : ReadMark(j) # NoRecord => ReadMark(j)' # NoRecord
    BY <1>1, <1>23, <2>1 DEF Forget, ReadMark, Current, TypeOK
  <2>3. ContentMarked' /\ TaintComplete' /\ ExecInv'
    BY <1>1, <1>23, <2>2 DEF Forget, ContentMarked, TaintComplete, ExecInv, TypeOK
  <2>4. InterpInv'
    BY <1>23, <2>1, FrameInterp DEF Forget
  <2>. QED
    BY <1>2, <2>3, <2>4 DEF TrackInv
<1>18. CASE UNCHANGED vars
  <2>1. UNCHANGED <<procVars, path, pidMaps, inodeMaps, xattr, lifeGhosts,
                    fileGhosts>>
    BY <1>18 DEF vars
  <2>2. TaintComplete' /\ ContentMarked' /\ InterpInv'
    BY <2>1, FrameStep, FrameInterp
  <2>. QED
    BY <1>1, <1>2, <2>1, <2>2 DEF ExecInv, TrackInv
<1>19. ASSUME NEW p \in Pids, NEW i \in Inodes,
              OpenReadWrite(p, i) \/ LateWrite(p, i)
       PROVE  FALSE
  BY <1>19 DEF OpenReadWrite, LateWrite
<1>21. ASSUME NEW p \in Pids, Evict(p)
       PROVE  FALSE
  BY <1>21 DEF Evict
<1>20. CASE \E p \in Pids : Syscall(p)
  <2>1. PICK p \in Pids : Syscall(p)
    BY <1>20
  <2>2. CASE \E i \in Inodes : \/ OpenRead(p, i) \/ OpenWrite(p, i)
                               \/ OpenReadWrite(p, i) \/ LateWrite(p, i)
                               \/ Close(p, i) \/ Execve(p, i)
    BY <1>3, <1>4, <1>6, <1>16, <1>19, <2>2
  <2>3. CASE InterpOpen(p) \/ bprm_check_security(p) \/ ExecFails(p)
    BY <1>7, <1>8, <1>9, <2>3
  <2>4. CASE \E t \in Threads : \/ bprm_committed_creds(p, t)
                                \/ sched_process_exit(p, t)
    BY <1>10, <1>11, <2>4
  <2>. QED
    BY <1>12, <1>13, <1>14, <1>15, <2>1, <2>2, <2>3, <2>4 DEF Syscall, Threads
<1>. QED
  BY <1>17, <1>18, <1>20, <1>21, <1>22, <1>23 DEF Next

\* Without the faults, TrackInv is an invariant of the specification.
THEOREM TrackInvariance ==
    ASSUME Faults = {}
    PROVE  Spec => []TrackInv
<1>1. TrackInv /\ [Next]_vars => TrackInv'
  BY TrackStep
<1>. QED
  BY <1>1, TrackInit, PTL DEF Spec

\* TaintComplete: without the faults, no live tainted process is ever missing
\* from the maps that make it a mark source.
THEOREM TaintCompleteTheorem ==
    ASSUME Faults = {}
    PROVE  Spec => []TaintComplete
<1>1. TrackInv => TaintComplete
  BY DEF TrackInv
<1>. QED
  BY <1>1, TrackInvariance, PTL

\* ContentMarked: web content is marked in every file it reaches, over any
\* number of processes, copies, renames and execs, whichever events are
\* dropped and whichever xattr writes and back-fills fail, as long as an inode
\* stays in the cache until its mark is on disk.
THEOREM ContentMarkedTheorem ==
    ASSUME Faults = {}
    PROVE  Spec => []ContentMarked
<1>1. TrackInv => ContentMarked
  BY DEF TrackInv
<1>. QED
  BY <1>1, TrackInvariance, PTL

\* EnforcedExec: under the same condition web content runs in enforce mode
\* only by a rule or past a ring that is full at the exec.
THEOREM EnforcedExecTheorem ==
    ASSUME Faults = {}
    PROVE  Spec => []EnforcedExec
<1>1. TrackInv => EnforcedExec
  BY DEF TrackInv, ExecInv, EnforcedExec
<1>. QED
  BY <1>1, TrackInvariance, PTL

\* InterpreterGated: in enforce mode an interpreter, or a copy of one, that
\* read web content is in a process a rule has cleared, as long as inodes
\* flagged in INTERP_INODE stay in the cache.
THEOREM InterpreterGatedTheorem ==
    ASSUME Faults = {}
    PROVE  Spec => []InterpreterGated
<1>1. TrackInv => InterpreterGated
  BY DEF TrackInv, InterpInv, InterpreterGated
<1>. QED
  BY <1>1, TrackInvariance, PTL

\* With or without the faults, both hooks see the same marked files.
THEOREM HooksAgreeTheorem == Spec => []HooksAgree
<1>1. TypeOK => HooksAgree
  BY BprmSeesMark DEF HooksAgree
<1>. QED
  BY <1>1, TypeCorrect, PTL
=============================================================================
