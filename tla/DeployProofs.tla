---------------------------- MODULE DeployProofs ----------------------------
(***************************************************************************)
(* Proofs about Startup and Deploy, for any number of keys, builds, writes *)
(* of the file, starts and commands.                                       *)
(***************************************************************************)
EXTENDS Deploy, TLAPS

\* From the first probe that is attached to the event loop.
Hooked == {"rules", "mode", "k0", "k1", "open", "bind", "run"}

Trays == {<<>>, <<"hint">>, <<"on">>, <<"hint", "on">>}

\* What a daemon works with: a config in which `--mode` may have the say.
Effective == [mode : {None, "observe", "enforce", "soak"}, listed : BOOLEAN,
              tray : Trays]

Marks == [key : Keys \cup {Raw}, known : BOOLEAN]

DaemonStates ==
    [pc : {"off", "config", "key", "create", "write", "attach"} \cup Hooked,
     ver : Versions \cup {None}, cli : {None, "soak"}, cfg : Effective,
     key : Keys \cup {None},
     MODE : {None, "observe", "enforce", "soak"}, KEY : {0, 1, 2},
     rules : SUBSET AllowRules,
     mark : Marks \cup {None}, EVENTS : Keys \cup {Raw, None}, met : BOOLEAN]

\* The types of what is on disk and of the daemons.
DiskOK ==
    /\ config \in Configs \cup {None, Bad}
    /\ allow \in SUBSET AllowRules
    /\ keyfile \in Keys \cup {None, "short"}
    /\ drawn \in SUBSET Keys
    /\ group \in BOOLEAN
    /\ sock \in [owner : Daemons, group : BOOLEAN] \cup {None}
    /\ xattr \in Keys \cup {None}

\* Where a daemon is says what it holds: no key before it has one, no mark
\* before its hooks, KEY by the half it has written.
Phase(i) ==
    /\ d[i].pc = "off" => d[i] = Off
    /\ d[i].key # None <=> d[i].pc \in {"write", "attach"} \cup Hooked
    /\ d[i].pc \notin Hooked => d[i].mark = None
    /\ d[i].MODE = "enforce" => d[i].pc \in {"k0", "k1", "open", "bind", "run"}
    /\ d[i].KEY = CASE d[i].pc = "k1" -> 1
                    [] d[i].pc \in {"open", "bind", "run"} -> 2
                    [] OTHER -> 0

DaemonsOK ==
    /\ d \in [Daemons -> DaemonStates]
    /\ \A i \in Daemons : Phase(i)

BaseInv == DiskOK /\ DaemonsOK

\* The types of the commands, and of what the operator was told.
Told == [mode : {None, "observe", "enforce"}, tray : BOOLEAN,
         build : Versions \cup {None}]

CommandStates ==
    [pc : {"idle", "install", "rename", "config", "list", "group", "unit",
           "tray", "patch", "restart", "soak", "reload"},
     op : {None, "setup", "upgrade"}, build : Versions \cup {None},
     force : BOOLEAN, changed : BOOLEAN, text : Configs \cup {None}]

CommandsOK ==
    /\ bin \in Versions \cup {None}
    /\ unit \in BOOLEAN
    /\ cmd \in CommandStates
    /\ cmd.text # None <=> cmd.pc = "patch"
    /\ asked \in Told /\ given \in Told
    /\ starts \in 0 .. MaxStarts /\ commands \in 0 .. MaxCommands

TypeInv == BaseInv /\ CommandsOK

-----------------------------------------------------------------------------
(* Types and phases.                                                       *)

\* The states a daemon is in when it is not running or has just been started.
LEMMA FreshDaemons ==
    /\ Off \in DaemonStates
    /\ Empty \in Effective /\ Empty \in Configs
  <1>1. Empty \in Effective /\ Empty \in Configs
    BY DEF Empty, Effective, Configs, Trays
  <1>2. Off \in DaemonStates
    BY <1>1 DEF Off, DaemonStates, Hooked
  <1> QED BY <1>1, <1>2

\* A daemon ends: nothing of it is left.
LEMMA GoneOK ==
    ASSUME DaemonsOK, NEW i \in Daemons, d' = Gone(i)
    PROVE  DaemonsOK'
  <1>1. d' \in [Daemons -> DaemonStates]
    BY FreshDaemons DEF DaemonsOK, Gone
  <1>2. ASSUME NEW j \in Daemons PROVE Phase(j)'
    <2>1. d'[j] = d[j] \/ d'[j] = Off
      BY DEF DaemonsOK, Gone
    <2>2. CASE d'[j] = d[j]
      BY <2>2 DEF DaemonsOK, Phase
    <2>3. CASE d'[j] = Off
      BY <2>3 DEF Phase, Off, Hooked
    <2> QED BY <2>1, <2>2, <2>3
  <1> QED BY <1>1, <1>2 DEF DaemonsOK

\* One daemon moves on to a state of its type and phase.
LEMMA MoveOK ==
    ASSUME DaemonsOK, NEW i \in Daemons, NEW s \in DaemonStates,
           d' = [d EXCEPT ![i] = s], Phase(i)'
    PROVE  DaemonsOK'
  <1>1. d' \in [Daemons -> DaemonStates]
    BY DEF DaemonsOK
  <1>2. ASSUME NEW j \in Daemons, j # i PROVE Phase(j)'
    <2>1. d'[j] = d[j]
      BY <1>2 DEF DaemonsOK
    <2> QED BY <2>1 DEF DaemonsOK, Phase
  <1> QED BY <1>1, <1>2 DEF DaemonsOK

\* Every step of a start, of the event loop and of its end keeps the daemons'
\* types and phases.
LEMMA StartStepOK ==
    ASSUME BaseInv, NEW k \in Daemons, StartStep(k) \/ on_file_marked(k)
    PROVE  DaemonsOK'
  <1> USE StartupAssumption
  <1>1. ASSUME NEW i \in Daemons, attach(i)
        PROVE  DaemonsOK'
    <2> DEFINE s == [d[i] EXCEPT !.pc = "rules"]
    <2>0. d[i] \in DaemonStates /\ Phase(i)
      BY <1>1 DEF BaseInv, DaemonsOK, DiskOK
    <2>1. d' = [d EXCEPT ![i] = s] /\ d'[i] = s
      BY <1>1 DEF attach, BaseInv, DaemonsOK, Goto
    <2>2. s \in DaemonStates
      BY <1>1, <2>0 DEF attach, DaemonStates, Hooked, Phase, Effective
    <2>3. Phase(i)'
      BY <1>1, <2>0, <2>1 DEF attach, Phase, DaemonStates, Hooked
    <2> QED BY <2>1, <2>2, <2>3, MoveOK DEF BaseInv
  <1>2. ASSUME NEW i \in Daemons, seed_rules(i)
        PROVE  DaemonsOK'
    <2> DEFINE s == [d[i] EXCEPT !.pc = "mode",
                              !.rules = IF d[i].cfg.listed THEN allow ELSE {}]
    <2>0. d[i] \in DaemonStates /\ Phase(i) /\ allow \in SUBSET AllowRules
      BY <1>2 DEF BaseInv, DaemonsOK, DiskOK
    <2>1. d' = [d EXCEPT ![i] = s] /\ d'[i] = s
      BY <1>2 DEF seed_rules, BaseInv, DaemonsOK, Goto
    <2>2. s \in DaemonStates
      BY <1>2, <2>0 DEF seed_rules, DaemonStates, Hooked, Phase, Effective
    <2>3. Phase(i)'
      BY <1>2, <2>0, <2>1 DEF seed_rules, Phase, DaemonStates, Hooked
    <2> QED BY <2>1, <2>2, <2>3, MoveOK DEF BaseInv
  <1>3. ASSUME NEW i \in Daemons, set_mode(i)
        PROVE  DaemonsOK'
    <2> DEFINE s == [d[i] EXCEPT !.pc = "k0", !.MODE = d[i].cfg.mode]
    <2>0. d[i] \in DaemonStates /\ Phase(i) /\ d[i].cfg.mode \in {None, "observe", "enforce", "soak"}
      BY <1>3 DEF BaseInv, DaemonsOK, DiskOK, DaemonStates, Effective
    <2>1. d' = [d EXCEPT ![i] = s] /\ d'[i] = s
      BY <1>3 DEF set_mode, BaseInv, DaemonsOK, Goto
    <2>2. s \in DaemonStates
      BY <1>3, <2>0 DEF set_mode, DaemonStates, Hooked, Phase, Effective
    <2>3. Phase(i)'
      BY <1>3, <2>0, <2>1 DEF set_mode, Phase, DaemonStates, Hooked
    <2> QED BY <2>1, <2>2, <2>3, MoveOK DEF BaseInv
  <1>4. ASSUME NEW i \in Daemons, set_key(i)
        PROVE  DaemonsOK'
    <2>0. d[i] \in DaemonStates /\ Phase(i)
      BY DEF BaseInv, DaemonsOK
    <2>1. CASE d[i].pc = "k0"
      <3> DEFINE s == [d[i] EXCEPT !.KEY = 1, !.pc = "k1"]
      <3>0. d[i].KEY = 0
        BY <2>0, <2>1 DEF Phase
      <3>a. d[i].KEY + 1 = 1
        BY <3>0
      <3>1. d' = [d EXCEPT ![i] = s] /\ d'[i] = s
        <4>1. d' = [d EXCEPT ![i].KEY = d[i].KEY + 1, ![i].pc = "k1"]
          BY <1>4, <2>1 DEF set_key
        <4> QED BY <3>a, <4>1 DEF BaseInv, DaemonsOK
      <3>2. s \in DaemonStates
        BY <2>0 DEF DaemonStates, Hooked
      <3>3. Phase(i)'
        BY <2>0, <2>1, <3>1 DEF Phase, DaemonStates, Hooked
      <3> QED BY <3>1, <3>2, <3>3, MoveOK DEF BaseInv
    <2>2. CASE d[i].pc = "k1"
      <3> DEFINE s == [d[i] EXCEPT !.KEY = 2, !.pc = "open"]
      <3>0. d[i].KEY = 1
        BY <2>0, <2>2 DEF Phase
      <3>a. d[i].KEY + 1 = 2
        BY <3>0
      <3>1. d' = [d EXCEPT ![i] = s] /\ d'[i] = s
        <4>1. d' = [d EXCEPT ![i].KEY = d[i].KEY + 1, ![i].pc = "open"]
          BY <1>4, <2>2 DEF set_key
        <4> QED BY <3>a, <4>1 DEF BaseInv, DaemonsOK
      <3>2. s \in DaemonStates
        BY <2>0 DEF DaemonStates, Hooked
      <3>3. Phase(i)'
        BY <2>0, <2>2, <3>1 DEF Phase, DaemonStates, Hooked
      <3> QED BY <3>1, <3>2, <3>3, MoveOK DEF BaseInv
    <2> QED BY <1>4, <2>1, <2>2 DEF set_key
  <1>5. ASSUME NEW i \in Daemons, write_all(i)
        PROVE  DaemonsOK'
    <2> DEFINE s == [d[i] EXCEPT !.pc = "attach"]
    <2>0. d[i] \in DaemonStates /\ Phase(i)
      BY <1>5 DEF BaseInv, DaemonsOK, DiskOK
    <2>1. d' = [d EXCEPT ![i] = s] /\ d'[i] = s
      BY <1>5 DEF write_all, BaseInv, DaemonsOK, Goto
    <2>2. s \in DaemonStates
      BY <1>5, <2>0 DEF write_all, DaemonStates, Hooked, Phase, Effective
    <2>3. Phase(i)'
      BY <1>5, <2>0, <2>1 DEF write_all, Phase, DaemonStates, Hooked
    <2> QED BY <2>1, <2>2, <2>3, MoveOK DEF BaseInv
  <1>6. ASSUME NEW i \in Daemons, execute(i)
        PROVE  DaemonsOK'
    <2>1. CASE d' = Gone(i)
      BY <2>1, GoneOK DEF BaseInv
    <2>2. CASE d' # Gone(i)
      <3> DEFINE s == [d[i] EXCEPT !.pc = "key", !.cfg = Resolved(i)]
      <3>0. d[i] \in DaemonStates /\ Phase(i) /\ config # Bad
            /\ config \in Configs \cup {None}
        BY <1>6, <2>2 DEF BaseInv, DaemonsOK, DiskOK, execute
      <3>1. d' = [d EXCEPT ![i] = s] /\ d'[i] = s
        BY <1>6, <2>2 DEF execute, BaseInv, DaemonsOK
      <3>2. Resolved(i) \in Effective
        BY <3>0 DEF Resolved, Empty, Configs, Effective, Trays, DaemonStates
      <3>3. s \in DaemonStates
        BY <3>0, <3>2 DEF DaemonStates
      <3>4. Phase(i)'
        BY <1>6, <3>0, <3>1 DEF execute, Phase, DaemonStates, Hooked
      <3> QED BY <3>1, <3>3, <3>4, MoveOK DEF BaseInv
    <2> QED BY <2>1, <2>2
  <1>7. ASSUME NEW i \in Daemons, load_or_create(i)
        PROVE  DaemonsOK'
    <2>0. d[i] \in DaemonStates /\ Phase(i) /\ keyfile \in Keys \cup {None, "short"}
      BY DEF BaseInv, DaemonsOK, DiskOK
    <2>1. CASE keyfile = "short"
      BY <1>7, <2>1, GoneOK DEF BaseInv, load_or_create
    <2>2. CASE keyfile = None
      <3> DEFINE s == [d[i] EXCEPT !.pc = "create"]
      <3>1. d' = [d EXCEPT ![i] = s] /\ d'[i] = s
        BY <1>7, <2>2 DEF load_or_create, BaseInv, DaemonsOK
      <3>2. s \in DaemonStates
        BY <2>0 DEF DaemonStates
      <3>3. Phase(i)'
        BY <1>7, <2>0, <3>1 DEF load_or_create, Phase, DaemonStates, Hooked
      <3> QED BY <3>1, <3>2, <3>3, MoveOK DEF BaseInv
    <2>3. CASE keyfile \in Keys
      <3> DEFINE s == [d[i] EXCEPT !.pc = "attach", !.key = keyfile]
      <3>1. d' = [d EXCEPT ![i] = s] /\ d'[i] = s
        BY <1>7, <2>3 DEF load_or_create, BaseInv, DaemonsOK
      <3>2. s \in DaemonStates
        BY <2>0, <2>3 DEF DaemonStates
      <3>3. Phase(i)'
        BY <1>7, <2>0, <2>3, <3>1 DEF load_or_create, Phase, DaemonStates, Hooked
      <3> QED BY <3>1, <3>2, <3>3, MoveOK DEF BaseInv
    <2> QED BY <2>0, <2>1, <2>2, <2>3
  <1>8. ASSUME NEW i \in Daemons, persist(i)
        PROVE  DaemonsOK'
    <2>0. d[i] \in DaemonStates /\ Phase(i)
      BY DEF BaseInv, DaemonsOK
    <2>1. CASE d' = Gone(i)
      BY <2>1, GoneOK DEF BaseInv
    <2>2. ASSUME NEW key \in Keys,
                 d' = [d EXCEPT ![i].pc = "write", ![i].key = key]
          PROVE  DaemonsOK'
      <3> DEFINE s == [d[i] EXCEPT !.pc = "write", !.key = key]
      <3>1. d' = [d EXCEPT ![i] = s] /\ d'[i] = s
        BY <2>2 DEF BaseInv, DaemonsOK
      <3>2. s \in DaemonStates
        BY <2>0 DEF DaemonStates
      <3>3. Phase(i)'
        BY <1>8, <2>0, <3>1 DEF persist, Phase, DaemonStates, Hooked
      <3> QED BY <3>1, <3>2, <3>3, MoveOK DEF BaseInv
    <2> QED BY <1>8, <2>1, <2>2 DEF persist
  <1>9. ASSUME NEW i \in Daemons, open_files(i)
        PROVE  DaemonsOK'
    <2>0. d[i] \in DaemonStates /\ Phase(i)
      BY DEF BaseInv, DaemonsOK
    <2>1. CASE d' = Gone(i)
      BY <2>1, GoneOK DEF BaseInv
    <2>2. CASE d' = [d EXCEPT ![i].pc = "bind"]
      <3> DEFINE s == [d[i] EXCEPT !.pc = "bind"]
      <3>1. d' = [d EXCEPT ![i] = s] /\ d'[i] = s
        BY <2>2 DEF BaseInv, DaemonsOK
      <3>2. s \in DaemonStates
        BY <2>0 DEF DaemonStates, Hooked
      <3>3. Phase(i)'
        BY <1>9, <2>0, <3>1 DEF open_files, Phase, DaemonStates, Hooked
      <3> QED BY <3>1, <3>2, <3>3, MoveOK DEF BaseInv
    <2> QED BY <1>9, <2>1, <2>2 DEF open_files
  <1>10. ASSUME NEW i \in Daemons, bind_control_socket(i)
        PROVE  DaemonsOK'
    <2> DEFINE s == [d[i] EXCEPT !.pc = "run"]
    <2>0. d[i] \in DaemonStates /\ Phase(i)
      BY <1>10 DEF BaseInv, DaemonsOK, DiskOK
    <2>1. d' = [d EXCEPT ![i] = s] /\ d'[i] = s
      BY <1>10 DEF bind_control_socket, BaseInv, DaemonsOK, Goto
    <2>2. s \in DaemonStates
      BY <1>10, <2>0 DEF bind_control_socket, DaemonStates, Hooked, Phase, Effective
    <2>3. Phase(i)'
      BY <1>10, <2>0, <2>1 DEF bind_control_socket, Phase, DaemonStates, Hooked
    <2> QED BY <2>1, <2>2, <2>3, MoveOK DEF BaseInv
  <1>11. ASSUME NEW i \in Daemons, on_file_marked(i)
        PROVE  DaemonsOK'
    <2>1. PICK known \in BOOLEAN :
             d' = [d EXCEPT ![i].EVENTS = None,
                            ![i].mark = [key |-> d[i].key, known |-> known]]
      BY <1>11 DEF on_file_marked
    <2> DEFINE m == [key |-> d[i].key, known |-> known]
               s == [d[i] EXCEPT !.EVENTS = None, !.mark = m]
    <2>0. d[i] \in DaemonStates /\ Phase(i) /\ d[i].pc = "run"
      BY <1>11 DEF BaseInv, DaemonsOK, on_file_marked
    <2>2. m \in Marks
      BY <2>0 DEF Phase, Hooked, DaemonStates, Marks
    <2>3. d' = [d EXCEPT ![i] = s] /\ d'[i] = s
      BY <2>1 DEF BaseInv, DaemonsOK
    <2> HIDE DEF m
    <2>4. s \in DaemonStates
      BY <2>0, <2>2 DEF DaemonStates
    <2>5. Phase(i)'
      BY <2>0, <2>3 DEF Phase, DaemonStates, Hooked
    <2> QED BY <2>3, <2>4, <2>5, MoveOK DEF BaseInv
  <1> QED BY <1>1, <1>2, <1>3, <1>4, <1>5, <1>6, <1>7, <1>8, <1>9, <1>10, <1>11
          DEF StartStep

\* A write of the file, seen by either daemon or both, leaves each in its
\* phase: only the daemons whose hooks are attached notice.
LEMMA MarkOK ==
    ASSUME BaseInv, Mark
    PROVE  /\ DaemonsOK'
           /\ \A i \in Daemons : ~Attached(i) => d'[i] = d[i]
  <1>1. PICK seen \in SUBSET {i \in Daemons : Attached(i)}, known \in BOOLEAN,
             drop \in IF "drop" \in Faults THEN BOOLEAN ELSE {FALSE} :
          d' = [i \in Daemons |->
                   LET rec == [key |-> hash_key(i), known |-> known]
                   IN  IF i \notin seen THEN d[i]
                       ELSE [d[i] EXCEPT
                                !.mark = IF @ = None THEN rec ELSE @,
                                !.EVENTS = IF @ = None /\ ~drop THEN rec.key
                                           ELSE @]]
    BY DEF Mark
  <1>2. ASSUME NEW i \in Daemons
        PROVE  d'[i] \in DaemonStates /\ Phase(i)' /\ (~Attached(i) => d'[i] = d[i])
    <2>0. d[i] \in DaemonStates /\ Phase(i)
      BY DEF BaseInv, DaemonsOK
    <2>1. CASE i \notin seen
      BY <1>1, <2>0, <2>1 DEF Phase
    <2>2. CASE i \in seen
      <3> DEFINE rec == [key |-> hash_key(i), known |-> known]
                 m == IF d[i].mark = None THEN rec ELSE d[i].mark
                 e == IF d[i].EVENTS = None /\ ~drop THEN rec.key ELSE d[i].EVENTS
      <3>1. d[i].pc \in Hooked /\ Attached(i)
        BY <2>2 DEF Attached, Hooked
      <3>2. hash_key(i) \in Keys \cup {Raw}
        BY <2>0, <3>1 DEF hash_key, Phase, DaemonStates
      <3>3. m \in Marks \cup {None} /\ e \in Keys \cup {Raw, None}
        BY <2>0, <3>2 DEF Marks, DaemonStates
      <3>4. d'[i] = [d[i] EXCEPT !.mark = m, !.EVENTS = e]
        BY <1>1, <2>2
      <3> HIDE DEF m, e
      <3>5. d'[i] \in DaemonStates
        BY <2>0, <3>3, <3>4 DEF DaemonStates
      <3>6. Phase(i)'
        BY <2>0, <3>1, <3>4 DEF Phase, DaemonStates, Hooked
      <3> QED BY <3>1, <3>5, <3>6
    <2> QED BY <2>1, <2>2
  <1>3. d' \in [Daemons -> DaemonStates]
    BY <1>1, <1>2
  <1> QED BY <1>2, <1>3 DEF DaemonsOK

\* What a write of the file does to a daemon: it may mark the inode, and note
\* an event, under the key its hooks use; if no event is dropped, it has one.
LEMMA MarkFields ==
    ASSUME BaseInv, Mark, NEW j \in Daemons
    PROVE  /\ d'[j].pc = d[j].pc /\ d'[j].key = d[j].key /\ d'[j].cfg = d[j].cfg
           /\ d'[j].ver = d[j].ver /\ d'[j].met = d[j].met
           /\ d'[j].cli = d[j].cli
           /\ \/ d'[j].mark = d[j].mark
              \/ d[j].mark = None /\ d'[j].mark.key = hash_key(j)
           /\ d[j].EVENTS # None => d'[j].EVENTS # None
           /\ \/ "drop" \in Faults
              \/ d'[j] = d[j]
              \/ d'[j].EVENTS # None
  <1>1. PICK seen \in SUBSET {i \in Daemons : Attached(i)}, known \in BOOLEAN,
             drop \in IF "drop" \in Faults THEN BOOLEAN ELSE {FALSE} :
          d' = [i \in Daemons |->
                   LET rec == [key |-> hash_key(i), known |-> known]
                   IN  IF i \notin seen THEN d[i]
                       ELSE [d[i] EXCEPT
                                !.mark = IF @ = None THEN rec ELSE @,
                                !.EVENTS = IF @ = None /\ ~drop THEN rec.key
                                           ELSE @]]
    BY DEF Mark
  <1>0. d[j] \in DaemonStates /\ Phase(j)
    BY DEF BaseInv, DaemonsOK
  <1>2. CASE j \notin seen
    <2>1. d'[j] = d[j]
      BY <1>1, <1>2
    <2> QED BY <2>1
  <1>3. CASE j \in seen
    <2> DEFINE rec == [key |-> hash_key(j), known |-> known]
               m == IF d[j].mark = None THEN rec ELSE d[j].mark
               e == IF d[j].EVENTS = None /\ ~drop THEN rec.key ELSE d[j].EVENTS
    <2>1. d'[j] = [d[j] EXCEPT !.mark = m, !.EVENTS = e]
      BY <1>1, <1>3
    <2>2. hash_key(j) # None
      <3>1. d[j].pc \in Hooked
        BY <1>3 DEF Attached, Hooked
      <3> QED BY <1>0, <3>1, StartupAssumption DEF hash_key, Phase
    <2>3. /\ m = d[j].mark \/ (d[j].mark = None /\ m.key = hash_key(j))
          /\ d[j].EVENTS # None => e # None
          /\ "drop" \in Faults \/ e # None
      <3>1. rec.key = hash_key(j)
        OBVIOUS
      <3>2. "drop" \notin Faults => drop = FALSE
        OBVIOUS
      <3> HIDE DEF rec
      <3> QED BY <2>2, <3>1, <3>2
    <2> HIDE DEF m, e
    <2>4. /\ d'[j].pc = d[j].pc /\ d'[j].key = d[j].key /\ d'[j].cfg = d[j].cfg
          /\ d'[j].ver = d[j].ver /\ d'[j].met = d[j].met /\ d'[j].cli = d[j].cli
          /\ d'[j].mark = m /\ d'[j].EVENTS = e
      BY <1>0, <2>1 DEF DaemonStates
    <2> QED BY <2>3, <2>4
  <1> QED BY <1>2, <1>3

\* The inode's storage goes.
LEMMA EvictOK ==
    ASSUME BaseInv, Evict
    PROVE  DaemonsOK'
  <1>1. ASSUME NEW i \in Daemons
        PROVE  d'[i] \in DaemonStates /\ Phase(i)'
    <2>0. d[i] \in DaemonStates /\ Phase(i)
      BY DEF BaseInv, DaemonsOK
    <2>1. d'[i] = [d[i] EXCEPT !.mark = None]
      BY DEF Evict
    <2>2. d'[i] \in DaemonStates
      BY <2>0, <2>1 DEF DaemonStates
    <2>3. d[i].pc = "off" => d[i].mark = None
      BY <2>0 DEF Phase, Hooked
    <2>4. d[i].mark = None => d'[i] = d[i]
      BY <2>0, <2>1 DEF DaemonStates
    <2>5. Phase(i)'
      BY <2>0, <2>1, <2>3, <2>4 DEF Phase, DaemonStates
    <2> QED BY <2>2, <2>5
  <1> QED BY <1>1 DEF DaemonsOK, Evict

\* A daemon is started.
LEMMA LaunchOK ==
    ASSUME BaseInv, NEW i \in Daemons, NEW v \in Versions \cup {None},
           NEW cli \in {None, "soak"}, d' = Launched(i, v, cli)
    PROVE  DaemonsOK'
  <1>1. ASSUME NEW j \in Daemons
        PROVE  d'[j] \in DaemonStates /\ Phase(j)'
    <2>0. d[j] \in DaemonStates /\ Phase(j)
      BY DEF BaseInv, DaemonsOK
    <2>1. CASE j = i
      <3> DEFINE m == \E k \in Daemons \ {i} : On(k)
      <3>0. m \in BOOLEAN
        OBVIOUS
      <3>1. d'[j] = [Off EXCEPT !.pc = "config", !.ver = v, !.cli = cli, !.met = m]
        BY <2>1 DEF Launched
      <3> HIDE DEF m
      <3>2. d'[j] \in DaemonStates
        <4>1. Off \in DaemonStates
          BY FreshDaemons
        <4> QED BY <3>0, <3>1, <4>1 DEF DaemonStates
      <3>3. Phase(j)'
        BY <3>1 DEF Phase, Off, Hooked
      <3> QED BY <3>2, <3>3
    <2>2. CASE j # i
      <3> DEFINE m == On(j)
      <3>0. m \in BOOLEAN
        BY DEF On
      <3>1. d'[j] = [d[j] EXCEPT !.met = m]
        BY <2>2 DEF Launched
      <3>2. d[j].pc = "off" => d'[j] = Off
        <4>1. d[j].pc = "off" => d[j] = Off /\ m = FALSE
          BY <2>0 DEF Phase, On
        <4>2. Off \in DaemonStates /\ Off.met = FALSE
          BY FreshDaemons DEF Off
        <4>3. [Off EXCEPT !.met = FALSE] = Off
          BY <4>2 DEF DaemonStates
        <4> HIDE DEF m
        <4> QED BY <3>1, <4>1, <4>3
      <3> HIDE DEF m
      <3>3. d'[j] \in DaemonStates
        BY <2>0, <3>0, <3>1 DEF DaemonStates
      <3>4. Phase(j)'
        BY <2>0, <3>1, <3>2 DEF Phase, DaemonStates
      <3> QED BY <3>3, <3>4
    <2> QED BY <2>1, <2>2
  <1> QED BY <1>1 DEF DaemonsOK, Launched

\* The steps of a command that start no daemon, and the edits of the operator.
Quiet ==
    \/ EditConfig \/ EditTray \/ EditAllow \/ RemoveKey \/ NoInstall
    \/ (\E v \in Versions, force \in BOOLEAN :
            Command("setup", v, force) \/ Command("upgrade", v, FALSE))
    \/ install_to \/ rename \/ Abort \/ SkipRestart
    \/ write_config \/ write_empty_allowlist \/ ensure_linprov_group
    \/ write_systemd_unit \/ Decline \/ read_to_string
    \/ set_config_notifications_tray

\* The steps that start one.
Launch ==
    SystemdStart \/ Foreground \/ restart_system_unit \/ exec_soak \/ systemctl

\* Every step is a daemon's, a launch or quiet.
LEMMA StepKinds == Next => DaemonStep \/ Launch \/ Quiet
  BY DEF Next, Launch, Quiet, SetupStep, UpgradeStep

\* A quiet step leaves the daemons alone.
LEMMA QuietDaemons == Quiet => d' = d
  BY DEF Quiet, EditConfig, EditTray, EditAllow, RemoveKey, NoInstall, Command,
         install_to, rename, Abort, SkipRestart, write_config,
         write_empty_allowlist, ensure_linprov_group, write_systemd_unit,
         Decline, read_to_string, set_config_notifications_tray, startupVars,
         cmdVars

\* A launch starts the service or the daemon in the terminal.
LEMMA LaunchDaemons ==
    ASSUME Launch
    PROVE  /\ d' = Launched(svc, bin, None) \/ d' = Launched(fg, bin, "soak")
           /\ UNCHANGED <<disk, marked, bin>>
  BY DEF Launch, SystemdStart, Foreground, restart_system_unit, exec_soak,
         systemctl, Restart, Start, cmdVars

\* Every step keeps the daemons' types and phases.
LEMMA DaemonsStepOK == TypeInv /\ Next => DaemonsOK'
  <1> SUFFICES ASSUME TypeInv, Next PROVE DaemonsOK'
    OBVIOUS
  <1>1. CASE DaemonStep
    <2>1. ASSUME NEW i \in Daemons, ctrl_c(i) \/ Kill(i) PROVE DaemonsOK'
      BY <2>1, GoneOK DEF ctrl_c, Kill, TypeInv, BaseInv
    <2> QED BY <1>1, <2>1, StartStepOK, MarkOK, EvictOK
            DEF DaemonStep, StartupNext, TypeInv
  <1>2. CASE Launch
    <2>1. d' = Launched(svc, bin, None) \/ d' = Launched(fg, bin, "soak")
      BY <1>2, LaunchDaemons
    <2>2. bin \in Versions \cup {None} /\ svc \in Daemons /\ fg \in Daemons
      BY DEF TypeInv, CommandsOK, Daemons
    <2> QED BY <2>1, <2>2, LaunchOK DEF TypeInv
  <1>3. CASE Quiet
    <2>1. d' = d
      BY <1>3, QuietDaemons
    <2> QED BY <2>1 DEF TypeInv, BaseInv, DaemonsOK, Phase
  <1> QED BY <1>1, <1>2, <1>3, StepKinds

\* The program starts within its types.
LEMMA InitTypeInv == Init => TypeInv
  <1> SUFFICES ASSUME Init PROVE TypeInv
    OBVIOUS
  <1>1. DaemonsOK
    <2>1. Off \in DaemonStates
      BY FreshDaemons
    <2>2. ASSUME NEW i \in Daemons PROVE d[i] = Off
      BY DEF Init, StartupInit
    <2>3. ASSUME NEW i \in Daemons PROVE Phase(i)
      <3>1. d[i] = Off
        BY <2>2
      <3> QED BY <3>1 DEF Phase, Off, Hooked
    <2> QED BY <2>1, <2>3 DEF DaemonsOK, Init, StartupInit
  <1>2. DiskOK
    BY DEF DiskOK, Init, StartupInit, Fresh, SetUp
  <1>3. asked \in Told /\ given \in Told
    <2>1. Nothing \in Told
      BY DEF Nothing, Told
    <2>2. config = None \/ config.mode \in {None, "observe", "enforce"}
      BY <1>2 DEF Init, Fresh, SetUp, Configs
    <2>3. (config # None /\ TrayOn(config)) \in BOOLEAN
      BY DEF TrayOn
    <2>4. asked \in Told
      BY <2>1, <2>2, <2>3 DEF Told, Init
    <2> QED BY <2>1, <2>4 DEF Init
  <1>4. CommandsOK
    <2>1. cmd \in CommandStates /\ (cmd.text # None <=> cmd.pc = "patch")
      BY DEF Init, Idle, CommandStates
    <2>2. bin \in Versions \cup {None} /\ unit \in BOOLEAN
      BY DEF Init, Fresh, SetUp
    <2>3. starts \in 0 .. MaxStarts /\ commands \in 0 .. MaxCommands
      BY BoundsAssumption DEF Init, Fresh, SetUp
    <2> QED BY <1>3, <2>1, <2>2, <2>3 DEF CommandsOK
  <1> QED BY <1>1, <1>2, <1>4 DEF TypeInv, BaseInv

\* What is in the config after a command wrote it, whole or torn.
LEMMA WrittenOK ==
    ASSUME NEW text \in Configs \cup {Bad}
    PROVE  Written(text) \subseteq Configs \cup {None, Bad}
  <1>1. Empty \in Configs
    BY FreshDaemons
  <1>2. text # Bad => [text EXCEPT !.listed = FALSE, !.tray = <<>>] \in Configs
    BY DEF Configs
  <1> QED BY <1>1, <1>2 DEF Written, Torn

\* The operator's and setup's edits of the line on notifications.
LEMMA TrayLineOK ==
    ASSUME NEW text \in Configs
    PROVE  /\ ensure_tray_line(text) \in Configs \cup {Bad}
           /\ [text EXCEPT !.tray = <<"on">>] \in Configs
           /\ [text EXCEPT !.tray = <<"hint", "on">>] \in Configs
  <1>1. [text EXCEPT !.tray = <<"on">>] \in Configs
    BY DEF Configs
  <1>2. [text EXCEPT !.tray = <<"hint", "on">>] \in Configs
    BY DEF Configs
  <1> QED BY <1>1, <1>2 DEF ensure_tray_line

\* What is on disk keeps its type, through torn writes as well.
LEMMA DiskStepOK == TypeInv /\ Next => DiskOK'
  <1> SUFFICES ASSUME TypeInv, Next PROVE DiskOK'
    OBVIOUS
  <1>0. DiskOK
    BY DEF TypeInv, BaseInv
  <1>1. CASE DaemonStep
    <2>0. ASSUME NEW i \in Daemons
          PROVE  /\ d[i].key \in Keys \cup {None}
                 /\ d[i].pc \in {"write", "run"} => d[i].key \in Keys
      <3>1. d[i] \in DaemonStates /\ Phase(i)
        BY DEF TypeInv, BaseInv, DaemonsOK
      <3> QED BY <3>1 DEF Phase, DaemonStates, Hooked
    <2>1. UNCHANGED <<config, allow, group>>
      BY <1>1 DEF DaemonStep, StartupNext, StartStep, execute, load_or_create,
                  persist, write_all, attach, seed_rules, set_mode, set_key,
                  open_files, bind_control_socket, on_file_marked, ctrl_c, Kill,
                  Mark, Evict, disk
    <2>2. keyfile' \in Keys \cup {None, "short"} /\ drawn' \in SUBSET Keys
      BY <1>0, <1>1, <2>0
      DEF DiskOK, DaemonStep, StartupNext, StartStep, execute, load_or_create,
          persist, write_all, attach, seed_rules, set_mode, set_key, open_files,
          bind_control_socket, on_file_marked, ctrl_c, Kill, Mark, Evict, disk
    <2>3. xattr' \in Keys \cup {None}
      BY <1>0, <1>1, <2>0
      DEF DiskOK, DaemonStep, StartupNext, StartStep, execute, load_or_create,
          persist, write_all, attach, seed_rules, set_mode, set_key, open_files,
          bind_control_socket, on_file_marked, ctrl_c, Kill, Mark, Evict, marked
    <2>4. sock' \in [owner : Daemons, group : BOOLEAN] \cup {None}
      <3>1. ASSUME NEW i \in Daemons
            PROVE  Bound(i) \in [owner : Daemons, group : BOOLEAN]
        <4>1. (TrayOn(d[i].cfg) /\ group) \in BOOLEAN
          BY <1>0 DEF DiskOK, TrayOn
        <4> QED BY <4>1 DEF Bound
      <3>2. UNCHANGED sock \/ sock' = None
              \/ \E i \in Daemons : sock' = Bound(i)
        BY <1>1
        DEF DaemonStep, StartupNext, StartStep, execute, load_or_create,
            persist, write_all, attach, seed_rules, set_mode, set_key, open_files,
            bind_control_socket, on_file_marked, ctrl_c, Kill, Unbound, Mark, Evict
      <3> QED BY <1>0, <3>1, <3>2 DEF DiskOK
    <2> QED BY <1>0, <2>1, <2>2, <2>3, <2>4 DEF DiskOK
  <1>2. CASE Launch
    <2>1. UNCHANGED sock \/ sock' = None
      BY <1>2 DEF Launch, SystemdStart, Foreground, restart_system_unit,
                  exec_soak, systemctl, Restart, Unbound
    <2> QED BY <1>0, <1>2, <2>1, LaunchDaemons DEF DiskOK, disk, marked
  <1>3. CASE Quiet
    <2>1. UNCHANGED <<sock, xattr, drawn>>
      BY <1>3 DEF Quiet, EditConfig, EditTray, EditAllow, RemoveKey, NoInstall,
                  Command, install_to, rename, Abort, SkipRestart, write_config,
                  write_empty_allowlist, ensure_linprov_group,
                  write_systemd_unit, Decline, read_to_string,
                  set_config_notifications_tray, startupVars, disk, marked
    <2>2. /\ keyfile' \in Keys \cup {None, "short"} /\ group' \in BOOLEAN
          /\ allow' \in SUBSET AllowRules
      BY <1>0, <1>3
      DEF DiskOK, Quiet, EditConfig, EditTray, EditAllow, RemoveKey, NoInstall,
          Command, install_to, rename, Abort, SkipRestart, write_config,
          write_empty_allowlist, ensure_linprov_group, write_systemd_unit,
          Decline, read_to_string, set_config_notifications_tray, startupVars,
          disk
    <2>3. config' \in Configs \cup {None, Bad}
      <3>1. CASE EditConfig
        <4>1. [config EXCEPT !.mode = "enforce", !.listed = TRUE] \in Configs
          BY <3>1 DEF EditConfig, Configs
        <4> QED BY <3>1, <4>1 DEF EditConfig
      <3>2. CASE EditTray
        BY <3>2, TrayLineOK DEF EditTray
      <3>3. CASE write_config
        <4>1. Template \in Configs
          BY DEF Template, Configs
        <4> QED BY <1>0, <3>3, <4>1, WrittenOK DEF write_config, DiskOK
      <3>4. CASE set_config_notifications_tray
        <4>1. cmd.text \in Configs \cup {None}
          BY DEF TypeInv, CommandsOK, CommandStates
        <4>2. cmd.text \in Configs
          BY <3>4, <4>1 DEF set_config_notifications_tray, At, TypeInv, CommandsOK
        <4> QED BY <3>4, <4>2, TrayLineOK, WrittenOK
                DEF set_config_notifications_tray
      <3> QED BY <1>0, <1>3, <3>1, <3>2, <3>3, <3>4
              DEF DiskOK, Quiet, EditAllow, RemoveKey, NoInstall, Command,
                  install_to, rename, Abort, SkipRestart,
                  write_empty_allowlist, ensure_linprov_group,
                  write_systemd_unit, Decline, read_to_string, startupVars, disk
    <2> QED BY <2>1, <2>2, <2>3, <1>0 DEF DiskOK
  <1> QED BY <1>1, <1>2, <1>3, StepKinds

\* Command states: what the steps of a command make of `cmd`.
LEMMA CommandMoves ==
    ASSUME CommandsOK
    PROVE  /\ Idle \in CommandStates /\ Idle.text = None /\ Idle.pc = "idle"
           /\ \A pc \in {"rename", "list", "group", "unit", "tray", "restart", "soak"} :
                 cmd.text = None => [cmd EXCEPT !.pc = pc] \in CommandStates
  <1>1. Idle \in CommandStates /\ Idle.text = None /\ Idle.pc = "idle"
    BY DEF Idle, CommandStates
  <1>2. ASSUME NEW pc \in {"rename", "list", "group", "unit", "tray", "restart", "soak"}
        PROVE  [cmd EXCEPT !.pc = pc] \in CommandStates
    BY DEF CommandsOK, CommandStates
  <1> QED BY <1>1, <1>2

\* Every step keeps the commands' types.
LEMMA CommandsStepOK == TypeInv /\ Next => CommandsOK'
  <1> SUFFICES ASSUME TypeInv, Next PROVE CommandsOK'
    OBVIOUS
  <1>0. CommandsOK /\ DiskOK /\ Idle \in CommandStates
        /\ Idle.text = None /\ Idle.pc = "idle" /\ cmd \in CommandStates
    BY CommandMoves DEF TypeInv, BaseInv, CommandsOK
  <1>1. bin' \in Versions \cup {None} /\ unit' \in BOOLEAN
    <2>1. cmd.build \in Versions \cup {None}
      BY <1>0 DEF CommandStates
    <2>2. CASE rename
      BY <1>0, <2>1, <2>2 DEF rename, CommandsOK
    <2>3. CASE write_systemd_unit
      BY <1>0, <2>3 DEF write_systemd_unit, CommandsOK
    <2>4. CASE DaemonStep \/ Launch
      BY <1>0, <2>4 DEF DaemonStep, Launch, SystemdStart, Foreground,
             restart_system_unit, exec_soak, systemctl, CommandsOK, cmdVars
    <2>5. CASE Quiet /\ ~rename /\ ~write_systemd_unit
      <3>1. UNCHANGED <<bin, unit>>
        BY <2>5 DEF Quiet, EditConfig, EditTray, EditAllow, RemoveKey, NoInstall,
                  Command, install_to, Abort, SkipRestart, write_config,
                  write_empty_allowlist, ensure_linprov_group, Decline,
                  read_to_string, set_config_notifications_tray, cmdVars
      <3> QED BY <1>0, <3>1 DEF CommandsOK
    <2> QED BY <2>2, <2>3, <2>4, <2>5, StepKinds
  <1>2. cmd' \in CommandStates /\ (cmd'.text # None <=> cmd'.pc = "patch")
    <2>1. CASE cmd' = cmd
      BY <1>0, <2>1 DEF CommandsOK
    <2>2. CASE cmd' = Idle
      BY <1>0, <2>2
    <2>3. ASSUME NEW pc \in {"rename", "list", "group", "unit", "tray", "restart", "soak"},
                 cmd' = [cmd EXCEPT !.pc = pc], cmd.pc # "patch"
          PROVE  cmd' \in CommandStates /\ (cmd'.text # None <=> cmd'.pc = "patch")
      BY <1>0, <2>3 DEF CommandsOK, CommandStates
    <2>4. ASSUME NEW op \in {"setup", "upgrade"}, NEW v \in Versions \cup {None},
                 NEW force \in BOOLEAN, NEW pc \in {"install", "reload"},
                 cmd' = [Idle EXCEPT !.op = op, !.pc = pc, !.build = v, !.force = force]
          PROVE  cmd' \in CommandStates /\ (cmd'.text # None <=> cmd'.pc = "patch")
      BY <1>0, <2>4 DEF CommandStates
    <2>5. CASE NoInstall
      <3>1. bin \in Versions \cup {None}
        BY <1>0 DEF CommandsOK
      <3>2. cmd' = [Idle EXCEPT !.op = "upgrade", !.pc = "reload", !.build = bin]
        BY <2>5 DEF NoInstall
      <3> QED BY <1>0, <3>1, <3>2 DEF CommandStates
    <2>6. ASSUME NEW changed \in BOOLEAN, cmd' = Installed(changed), cmd.pc # "patch"
          PROVE  cmd' \in CommandStates /\ (cmd'.text # None <=> cmd'.pc = "patch")
      <3>1. CASE cmd.op = "setup"
        BY <1>0, <2>6, <3>1 DEF Installed, CommandsOK, CommandStates
      <3>2. CASE cmd.op # "setup"
        BY <1>0, <2>6, <3>2 DEF Installed, CommandsOK, CommandStates
      <3> QED BY <3>1, <3>2
    <2>7. CASE write_empty_allowlist
      <3>1. cmd' = [cmd EXCEPT !.pc = "group", !.force = FALSE] /\ cmd.pc # "patch"
        BY <2>7 DEF write_empty_allowlist, At
      <3> QED BY <1>0, <3>1 DEF CommandsOK, CommandStates
    <2>8. CASE read_to_string
      <3>1. cmd' = [cmd EXCEPT !.pc = "patch", !.text = config] /\ config \in Configs
            /\ config # None
        BY <2>8, ConfigsAssumption DEF read_to_string, At
      <3> QED BY <1>0, <3>1 DEF CommandsOK, CommandStates
    <2>9. CASE set_config_notifications_tray
      <3>1. cmd' = Idle \/ cmd' = [cmd EXCEPT !.pc = "restart", !.text = None]
        BY <2>9 DEF set_config_notifications_tray, End
      <3> QED BY <1>0, <2>2, <3>1 DEF CommandsOK, CommandStates
    <2>10. CASE DaemonStep \/ SystemdStart \/ Foreground \/ exec_soak \/ systemctl
                  \/ EditConfig \/ EditTray \/ EditAllow \/ RemoveKey
                  \/ Abort \/ SkipRestart
      BY <2>1, <2>2, <2>10 DEF DaemonStep, SystemdStart, Foreground, exec_soak,
         systemctl, EditConfig, EditTray, EditAllow, RemoveKey, Abort,
         SkipRestart, End, cmdVars
    <2>11. CASE restart_system_unit \/ ensure_linprov_group \/ write_systemd_unit
                  \/ Decline \/ write_config
      <3>1. cmd.pc # "patch" /\ (cmd' = Idle \/ \E pc \in {"rename", "list", "group",
              "unit", "tray", "restart", "soak"} : cmd' = [cmd EXCEPT !.pc = pc])
        BY <2>11 DEF restart_system_unit, ensure_linprov_group, write_systemd_unit,
                     Decline, write_config, Then, At, End
      <3> QED BY <2>2, <2>3, <3>1
    <2>12. CASE install_to \/ rename
      <3>1. /\ cmd.pc # "patch"
            /\ cmd' = Installed(TRUE) \/ cmd' = Installed(FALSE)
                 \/ cmd' = [cmd EXCEPT !.pc = "rename"]
        BY <2>12 DEF install_to, rename
      <3> QED BY <2>3, <2>6, <3>1
    <2>13. ASSUME NEW v \in Versions, NEW force \in BOOLEAN,
                  Command("setup", v, force) \/ Command("upgrade", v, FALSE)
           PROVE  cmd' \in CommandStates /\ (cmd'.text # None <=> cmd'.pc = "patch")
      BY <2>4, <2>13 DEF Command
    <2> QED BY <2>5, <2>7, <2>8, <2>9, <2>10, <2>11, <2>12, <2>13, StepKinds
            DEF Launch, Quiet
  <1>3. asked' \in Told
    <2>0. asked \in Told
      BY <1>0 DEF CommandsOK
    <2>1. CASE asked' = asked
      BY <2>0, <2>1
    <2>2. CASE asked' = [asked EXCEPT !.mode = "enforce"]
      BY <2>0, <2>2 DEF Told
    <2>3. CASE asked' = [asked EXCEPT !.tray = TRUE]
      BY <2>0, <2>3 DEF Told
    <2>4. CASE asked' = [asked EXCEPT !.build = None]
      BY <2>0, <2>4 DEF Told
    <2>5. CASE asked' = [asked EXCEPT !.mode = None, !.tray = FALSE]
      BY <2>0, <2>5 DEF Told
    <2>6. CASE asked' = [asked EXCEPT !.build = cmd.build]
      <3>1. cmd.build \in Versions \cup {None}
        BY <1>0 DEF CommandStates
      <3> QED BY <2>0, <2>6, <3>1 DEF Told
    <2>7. CASE DaemonStep \/ Launch
      BY <2>1, <2>6, <2>7 DEF DaemonStep, Launch, SystemdStart, Foreground,
             restart_system_unit, exec_soak, systemctl, cmdVars
    <2>8. CASE Quiet
      BY <2>1, <2>2, <2>3, <2>4, <2>5, <2>8
      DEF Quiet, EditConfig, EditTray, EditAllow, RemoveKey, NoInstall,
          Command, install_to, rename, Abort, SkipRestart, write_config,
          write_empty_allowlist, ensure_linprov_group, write_systemd_unit,
          Decline, read_to_string, set_config_notifications_tray, cmdVars
    <2> QED BY <2>7, <2>8, StepKinds
  <1>4. given' \in Told
    <2>1. given \in Told /\ asked \in Told /\ Nothing \in Told
      BY <1>0 DEF CommandsOK, Nothing, Told
    <2>2. given' = given \/ given' = asked \/ given' = Nothing
      <3>1. CASE DaemonStep \/ Launch
        BY <3>1 DEF DaemonStep, Launch, SystemdStart, Foreground,
             restart_system_unit, exec_soak, systemctl, cmdVars
      <3>2. CASE Quiet
        BY <3>2
        DEF Quiet, EditConfig, EditTray, EditAllow, RemoveKey, NoInstall,
            Command, install_to, rename, Abort, SkipRestart, write_config,
            write_empty_allowlist, ensure_linprov_group, write_systemd_unit,
            Decline, read_to_string, set_config_notifications_tray, cmdVars
      <3> QED BY <3>1, <3>2, StepKinds
    <2> QED BY <2>1, <2>2
  <1>5. starts' \in 0 .. MaxStarts /\ commands' \in 0 .. MaxCommands
    <2>0. starts \in 0 .. MaxStarts /\ commands \in 0 .. MaxCommands
      BY <1>0 DEF CommandsOK
    <2>1. /\ starts' = starts \/ (starts < MaxStarts /\ starts' = starts + 1)
          /\ commands' = commands \/ (commands < MaxCommands /\ commands' = commands + 1)
      <3>1. CASE DaemonStep \/ Launch
        BY <3>1 DEF DaemonStep, Launch, SystemdStart, Foreground, Start, Restart,
             restart_system_unit, exec_soak, systemctl, cmdVars, bounds
      <3>2. CASE Quiet
        BY <3>2
        DEF Quiet, EditConfig, EditTray, EditAllow, RemoveKey, NoInstall,
            Command, install_to, rename, Abort, SkipRestart, write_config,
            write_empty_allowlist, ensure_linprov_group, write_systemd_unit,
            Decline, read_to_string, set_config_notifications_tray, bounds
      <3> QED BY <3>1, <3>2, StepKinds
    <2> QED BY <2>0, <2>1, BoundsAssumption
  <1> QED BY <1>1, <1>2, <1>3, <1>4, <1>5 DEF CommandsOK

\* Every step keeps the types.
LEMMA TypeStep == TypeInv /\ [Next]_vars => TypeInv'
  <1>1. TypeInv /\ Next => TypeInv'
    BY DaemonsStepOK, DiskStepOK, CommandsStepOK DEF TypeInv, BaseInv
  <1>2. TypeInv /\ UNCHANGED vars => TypeInv'
    BY DEF TypeInv, BaseInv, DiskOK, DaemonsOK, Phase, CommandsOK, vars,
           startupVars, disk, marked, cmdVars, bounds
  <1> QED BY <1>1, <1>2

\* The host, its daemons and the commands keep their types and phases, torn
\* writes, races and failing calls included.
THEOREM TypeCorrect == Spec => []TypeInv
  BY InitTypeInv, TypeStep, PTL DEF Spec

-----------------------------------------------------------------------------
(* One key.                                                                *)

\* The key file is short while a daemon fills it, and one does at a time.
WriterInv ==
    \A i \in Daemons :
        d[i].pc = "write" => /\ keyfile = "short"
                             /\ \A j \in Daemons : d[j].pc = "write" => j = i

KeyInv == TypeInv /\ WriterInv /\ OneKey

\* Daemon j holds the key it held, or has none (any more).
Holds(j) ==
    \/ d'[j].key = d[j].key /\ (d'[j].pc = "write" <=> d[j].pc = "write")
    \/ d'[j].key = None /\ d'[j].pc # "write"

\* While the file and the marks stay, daemons that hold what they held, or
\* nothing, still agree.
LEMMA HoldsKeeps ==
    ASSUME KeyInv, UNCHANGED <<keyfile, xattr>>, \A j \in Daemons : Holds(j)
    PROVE  WriterInv' /\ OneKey'
  BY DEF KeyInv, WriterInv, OneKey, Keyed, Holds

\* Every step but those on the key file and on the marks.
LEMMA HoldsStep ==
    ASSUME TypeInv, Next,
           \A i \in Daemons : ~load_or_create(i) /\ ~persist(i) /\ ~write_all(i),
           NEW j \in Daemons
    PROVE  Holds(j)
  <1>0. /\ d \in [Daemons -> DaemonStates] /\ d[j] \in DaemonStates
        /\ Off.key = None /\ Off.pc = "off"
    BY DEF TypeInv, BaseInv, DaemonsOK, Off
  <1>1. CASE d'[j] = d[j]
    BY <1>1 DEF Holds
  <1>2. CASE d'[j] = Off
    BY <1>0, <1>2 DEF Holds
  <1>3. ASSUME NEW i \in Daemons, d' = Gone(i) PROVE Holds(j)
    BY <1>0, <1>1, <1>2, <1>3 DEF Gone
  <1>4. ASSUME NEW i \in Daemons, execute(i) PROVE Holds(j)
    <2>1. CASE d' = [d EXCEPT ![i].pc = "key", ![i].cfg = Resolved(i)]
      BY <1>0, <1>4, <2>1 DEF Holds, DaemonStates, execute
    <2> QED BY <1>3, <1>4, <2>1 DEF execute
  <1>5. ASSUME NEW i \in Daemons,
               attach(i) \/ seed_rules(i) \/ set_mode(i) \/ bind_control_socket(i)
        PROVE Holds(j)
    BY <1>0, <1>5 DEF Holds, DaemonStates, attach, seed_rules, set_mode,
                      bind_control_socket, Goto
  <1>6. ASSUME NEW i \in Daemons, set_key(i) PROVE Holds(j)
    <2>1. d'[j] = d[j] \/ (d'[j].key = d[j].key /\ d'[j].pc \in {"k1", "open"}
                              /\ d[j].pc \in {"k0", "k1"})
      BY <1>0, <1>6 DEF set_key, DaemonStates
    <2> QED BY <1>1, <2>1 DEF Holds
  <1>7. ASSUME NEW i \in Daemons, open_files(i) PROVE Holds(j)
    <2>1. CASE d' = [d EXCEPT ![i].pc = "bind"]
      BY <1>0, <1>7, <2>1 DEF Holds, DaemonStates, open_files
    <2> QED BY <1>3, <1>7, <2>1 DEF open_files
  <1>8. ASSUME NEW i \in Daemons, on_file_marked(i) PROVE Holds(j)
    <2>1. d'[j].key = d[j].key /\ d'[j].pc = d[j].pc
      BY <1>0, <1>8 DEF on_file_marked, DaemonStates
    <2> QED BY <2>1 DEF Holds
  <1>9. CASE Mark
    <2>1. d'[j].key = d[j].key /\ d'[j].pc = d[j].pc
      BY <1>9, MarkFields DEF TypeInv
    <2> QED BY <2>1 DEF Holds
  <1>10. CASE Evict
    <2>1. d'[j].key = d[j].key /\ d'[j].pc = d[j].pc
      BY <1>0, <1>10 DEF Evict, DaemonStates
    <2> QED BY <2>1 DEF Holds
  <1>11. CASE DaemonStep
    BY <1>3, <1>4, <1>5, <1>6, <1>7, <1>8, <1>9, <1>10, <1>11
    DEF DaemonStep, StartupNext, StartStep, ctrl_c, Kill
  <1>12. CASE Launch
    <2>1. ASSUME NEW i \in Daemons, NEW v, NEW cli, d' = Launched(i, v, cli)
          PROVE  Holds(j)
      <3>1. CASE j = i
        <4>1. d'[j].key = None /\ d'[j].pc = "config"
          BY <2>1, <3>1 DEF Launched, Off
        <4> QED BY <4>1 DEF Holds
      <3>2. CASE j # i
        <4>1. d'[j].key = d[j].key /\ d'[j].pc = d[j].pc
          BY <1>0, <2>1, <3>2 DEF Launched, DaemonStates
        <4> QED BY <4>1 DEF Holds
      <3> QED BY <3>1, <3>2
    <2> QED BY <1>12, <2>1, LaunchDaemons DEF Daemons
  <1>13. CASE Quiet
    BY <1>1, <1>13, QuietDaemons
  <1> QED BY <1>11, <1>12, <1>13, StepKinds

\* The key file and the mark on disk change in no other step.
LEMMA KeyFrame ==
    ASSUME Next,
           \A i \in Daemons : ~persist(i) /\ ~write_all(i) /\ ~on_file_marked(i),
           ~RemoveKey
    PROVE  UNCHANGED <<keyfile, xattr>>
  <1>1. CASE DaemonStep
    BY <1>1 DEF DaemonStep, StartupNext, StartStep, execute, load_or_create,
        attach, seed_rules, set_mode, set_key, open_files,
        bind_control_socket, ctrl_c, Kill, Mark, Evict, disk, marked
  <1>2. CASE Launch
    BY <1>2, LaunchDaemons DEF disk, marked
  <1>3. CASE Quiet
    BY <1>3 DEF Quiet, EditConfig, EditTray, EditAllow, NoInstall,
         Command, install_to, rename, Abort, SkipRestart, write_config,
         write_empty_allowlist, ensure_linprov_group, write_systemd_unit,
         Decline, read_to_string, set_config_notifications_tray,
         startupVars, disk, marked
  <1> QED BY <1>1, <1>2, <1>3, StepKinds

\* Every step keeps the daemons on one key.
LEMMA KeyStep == KeyInv /\ [Next]_vars => KeyInv'
  <1> SUFFICES ASSUME KeyInv, [Next]_vars PROVE WriterInv' /\ OneKey'
    BY TypeStep DEF KeyInv
  <1>0. /\ d \in [Daemons -> DaemonStates]
        /\ keyfile \in Keys \cup {None, "short"} /\ xattr \in Keys \cup {None}
        /\ \A j \in Daemons : Keyed(j) => d[j].key \in Keys
    <2>1. ASSUME NEW j \in Daemons, Keyed(j) PROVE d[j].key \in Keys
      <3>1. d[j] \in DaemonStates
        BY DEF KeyInv, TypeInv, BaseInv, DaemonsOK
      <3> QED BY <2>1, <3>1 DEF Keyed, DaemonStates
    <2> QED BY <2>1 DEF KeyInv, TypeInv, BaseInv, DaemonsOK, DiskOK
  <1>1. ASSUME NEW i \in Daemons, load_or_create(i)
        PROVE  WriterInv' /\ OneKey'
    <2>1. UNCHANGED <<keyfile, xattr>>
      BY <1>1 DEF load_or_create, disk, marked
    <2>2. CASE keyfile \in Keys
      <3>1. /\ d'[i].key = keyfile /\ d'[i].pc = "attach"
            /\ \A j \in Daemons : j # i => d'[j] = d[j]
        BY <1>0, <1>1, <2>2, StartupAssumption DEF load_or_create, DaemonStates
      <3> QED BY <2>1, <2>2, <3>1, StartupAssumption
              DEF KeyInv, WriterInv, OneKey, Keyed
    <2>3. CASE keyfile \notin Keys
      <3>1. ASSUME NEW j \in Daemons PROVE Holds(j)
        <4>1. CASE keyfile = "short"
          <5>1. d' = Gone(i)
            BY <1>1, <4>1, StartupAssumption DEF load_or_create
          <5>2. d'[j] = Off \/ d'[j] = d[j]
            BY <1>0, <5>1 DEF Gone
          <5> QED BY <5>2 DEF Off, Holds
        <4>2. CASE keyfile = None
          <5>1. d' = [d EXCEPT ![i].pc = "create"] /\ d[i].pc = "key"
            BY <1>1, <4>2, StartupAssumption DEF load_or_create
          <5>2. d[j] \in DaemonStates
            BY <1>0
          <5> QED BY <1>0, <5>1, <5>2 DEF Holds, DaemonStates
        <4> QED BY <1>0, <2>3, <4>1, <4>2
      <3> QED BY <2>1, <3>1, HoldsKeeps
    <2> QED BY <2>2, <2>3
  <1>2. ASSUME NEW i \in Daemons, persist(i)
        PROVE  WriterInv' /\ OneKey'
    <2>0. xattr' = xattr
      BY <1>2 DEF persist, marked
    <2>1. CASE keyfile = None
      <3>1. /\ d'[i].pc = "write" /\ keyfile' = "short"
            /\ \A j \in Daemons : j # i => d'[j] = d[j]
        BY <1>0, <1>2, <2>1 DEF persist, DaemonStates
      <3>2. ASSUME NEW j \in Daemons PROVE d[j].pc # "write" /\ ~Keyed(j)
        BY <1>0, <2>1, StartupAssumption DEF KeyInv, WriterInv, OneKey
      <3> QED BY <2>0, <2>1, <3>1, <3>2 DEF KeyInv, WriterInv, OneKey, Keyed
    <2>2. CASE keyfile # None
      <3>1. d' = Gone(i) /\ keyfile' = keyfile
        BY <1>2, <2>2 DEF persist
      <3>2. ASSUME NEW j \in Daemons PROVE Holds(j)
        <4>1. d'[j] = Off \/ d'[j] = d[j]
          BY <1>0, <3>1 DEF Gone
        <4> QED BY <4>1 DEF Off, Holds
      <3> QED BY <2>0, <3>1, <3>2, HoldsKeeps
    <2> QED BY <2>1, <2>2
  <1>3. ASSUME NEW i \in Daemons, write_all(i)
        PROVE  WriterInv' /\ OneKey'
    <2>1. /\ d[i].pc = "write" /\ keyfile' = d[i].key /\ xattr' = xattr
          /\ d'[i].pc = "attach" /\ d'[i].key = d[i].key
          /\ \A j \in Daemons : j # i => d'[j] = d[j]
      BY <1>0, <1>3 DEF write_all, marked, Goto, DaemonStates
    <2>2. keyfile = "short" /\ \A j \in Daemons : d[j].pc = "write" => j = i
      BY <2>1 DEF KeyInv, WriterInv
    <2>3. ASSUME NEW j \in Daemons PROVE ~Keyed(j)
      BY <1>0, <2>2, StartupAssumption DEF KeyInv, OneKey
    <2>4. xattr = None
      BY <1>0, <2>2, StartupAssumption DEF KeyInv, OneKey
    <2> QED BY <2>1, <2>2, <2>3, <2>4 DEF WriterInv, OneKey, Keyed
  <1>4. ASSUME NEW i \in Daemons, on_file_marked(i)
        PROVE  WriterInv' /\ OneKey'
    <2>1. keyfile' = keyfile /\ xattr' = d[i].key
      BY <1>4 DEF on_file_marked, disk
    <2>2. ASSUME NEW j \in Daemons PROVE d'[j].key = d[j].key /\ d'[j].pc = d[j].pc
      <3>1. d[j] \in DaemonStates
        BY <1>0
      <3> QED BY <1>0, <1>4, <3>1 DEF on_file_marked, DaemonStates
    <2>3. Keyed(i)
      <3>1. Phase(i) /\ d[i].pc = "run"
        BY <1>4 DEF KeyInv, TypeInv, BaseInv, DaemonsOK, on_file_marked
      <3> QED BY <3>1 DEF Phase, Hooked, Keyed
    <2> QED BY <2>1, <2>2, <2>3 DEF KeyInv, WriterInv, OneKey, Keyed
  <1>5. CASE RemoveKey
    <2>1. /\ keyfile = "short" /\ keyfile' = None /\ UNCHANGED <<d, xattr>>
          /\ \A i \in Daemons : d[i].pc # "write"
      BY <1>5 DEF RemoveKey, marked
    <2>2. ASSUME NEW j \in Daemons PROVE ~Keyed(j)
      BY <1>0, <2>1, StartupAssumption DEF KeyInv, OneKey
    <2>3. xattr = None
      BY <1>0, <2>1, StartupAssumption DEF KeyInv, OneKey
    <2> QED BY <2>1, <2>2, <2>3 DEF WriterInv, OneKey, Keyed
  <1>6. CASE UNCHANGED vars
    BY <1>6 DEF KeyInv, WriterInv, OneKey, Keyed, vars, startupVars, disk, marked
  <1>7. CASE /\ Next /\ ~RemoveKey
             /\ \A i \in Daemons : /\ ~load_or_create(i) /\ ~persist(i)
                                    /\ ~write_all(i) /\ ~on_file_marked(i)
    BY <1>7, HoldsStep, KeyFrame, HoldsKeeps DEF KeyInv
  <1> QED BY <1>1, <1>2, <1>3, <1>4, <1>5, <1>6, <1>7

\* OneKey: however two daemons that start at once interleave on the key file,
\* die half way or find it short, all that go on use the key in the file, and
\* the mark on disk is under it.
THEOREM OneKeyTheorem == Spec => []OneKey
  <1>1. Init => KeyInv
    <2> SUFFICES ASSUME Init PROVE WriterInv /\ OneKey
      BY InitTypeInv DEF KeyInv
    <2>1. ASSUME NEW i \in Daemons PROVE d[i].key = None /\ d[i].pc = "off"
      BY DEF Init, StartupInit, Off
    <2> QED BY <2>1 DEF WriterInv, OneKey, Keyed, Init, StartupInit
  <1>2. KeyInv => OneKey
    BY DEF KeyInv
  <1> QED BY <1>1, <1>2, KeyStep, PTL DEF Spec

-----------------------------------------------------------------------------
(* The socket.                                                             *)

\* Two daemons that run side by side know of each other.
MetInv ==
    \A i, j \in Daemons : i # j /\ On(i) /\ On(j) => d[i].met

SocketInv == TypeInv /\ MetInv /\ SocketReachable

\* In a daemon's step each daemon is gone or is the one it was, and only
\* bind_control_socket brings one into the event loop.
LEMMA SameDaemon ==
    ASSUME TypeInv, DaemonStep, NEW j \in Daemons
    PROVE  \/ d'[j] = Off
           \/ /\ On(j) /\ d'[j].met = d[j].met
              /\ d'[j].pc = "run" => d[j].pc = "run" \/ bind_control_socket(j)
  <1>0. /\ d \in [Daemons -> DaemonStates] /\ d[j] \in DaemonStates
        /\ ~On(j) => d[j] = Off
    BY DEF TypeInv, BaseInv, DaemonsOK, Phase, On
  <1>1. CASE d'[j] = d[j]
    BY <1>0, <1>1
  <1>2. ASSUME NEW i \in Daemons, d' = Gone(i)
        PROVE  d'[j] = Off \/ d'[j] = d[j]
    BY <1>0, <1>2 DEF Gone
  <1>3. ASSUME NEW i \in Daemons, NEW m, NEW c,
               d' = [d EXCEPT ![i].pc = m, ![i].cfg = c], On(i), m # "run"
        PROVE  d'[j] = d[j] \/ (On(j) /\ d'[j].met = d[j].met /\ d'[j].pc # "run")
    BY <1>0, <1>3 DEF DaemonStates
  <1>4. ASSUME NEW i \in Daemons, execute(i)
        PROVE  d'[j] = Off \/ d'[j] = d[j]
                 \/ (On(j) /\ d'[j].met = d[j].met /\ d'[j].pc # "run")
    BY <1>2, <1>3, <1>4 DEF execute, On
  <1>5. ASSUME NEW i \in Daemons,
               attach(i) \/ seed_rules(i) \/ set_mode(i) \/ write_all(i)
        PROVE  d'[j] = d[j] \/ (On(j) /\ d'[j].met = d[j].met /\ d'[j].pc # "run")
    BY <1>0, <1>5 DEF DaemonStates, attach, seed_rules, set_mode, write_all,
                      Goto, On
  <1>6. ASSUME NEW i \in Daemons, set_key(i)
        PROVE  d'[j] = d[j] \/ (On(j) /\ d'[j].met = d[j].met /\ d'[j].pc # "run")
    <2>1. d'[j] = d[j] \/ (d'[j].met = d[j].met /\ d'[j].pc \in {"k1", "open"}
                              /\ d[j].pc \in {"k0", "k1"})
      BY <1>0, <1>6 DEF set_key, DaemonStates
    <2> QED BY <2>1 DEF On
  <1>7. ASSUME NEW i \in Daemons, open_files(i)
        PROVE  d'[j] = Off \/ d'[j] = d[j]
                 \/ (On(j) /\ d'[j].met = d[j].met /\ d'[j].pc # "run")
    <2>1. CASE d' = [d EXCEPT ![i].pc = "bind"]
      BY <1>0, <1>7, <2>1 DEF DaemonStates, open_files, On
    <2> QED BY <1>2, <1>7, <2>1 DEF open_files
  <1>8. ASSUME NEW i \in Daemons, on_file_marked(i)
        PROVE  d'[j].met = d[j].met /\ d'[j].pc = d[j].pc
    BY <1>0, <1>8 DEF on_file_marked, DaemonStates
  <1>9. CASE Mark
    <2>1. d'[j].met = d[j].met /\ d'[j].pc = d[j].pc
      BY <1>9, MarkFields DEF TypeInv
    <2>2. ~Attached(j) => d'[j] = d[j]
      BY <1>9, MarkOK DEF TypeInv
    <2> QED BY <1>0, <1>1, <2>1, <2>2 DEF On, Attached
  <1>10. CASE Evict
    <2>1. d'[j] = [d[j] EXCEPT !.mark = None]
      BY <1>10 DEF Evict
    <2>2. d'[j].met = d[j].met /\ d'[j].pc = d[j].pc
      BY <1>0, <2>1 DEF DaemonStates
    <2>3. Off \in DaemonStates /\ Off.mark = None
      BY FreshDaemons DEF Off
    <2>4. d[j] = Off => d'[j] = Off
      BY <2>1, <2>3 DEF DaemonStates
    <2> QED BY <1>0, <2>2, <2>4
  <1>11. ASSUME NEW i \in Daemons, load_or_create(i)
        PROVE  d'[j] = Off \/ d'[j] = d[j]
                 \/ (On(j) /\ d'[j].met = d[j].met /\ d'[j].pc # "run")
    <2>1. CASE d' = Gone(i)
      BY <1>2, <2>1
    <2>2. CASE d' = [d EXCEPT ![i].pc = "create"]
      BY <1>0, <1>11, <2>2 DEF DaemonStates, load_or_create, On
    <2>3. CASE d' = [d EXCEPT ![i].pc = "attach", ![i].key = keyfile]
      BY <1>0, <1>11, <2>3 DEF DaemonStates, load_or_create, On
    <2> QED BY <1>11, <2>1, <2>2, <2>3 DEF load_or_create
  <1>12. ASSUME NEW i \in Daemons, persist(i)
        PROVE  d'[j] = Off \/ d'[j] = d[j]
                 \/ (On(j) /\ d'[j].met = d[j].met /\ d'[j].pc # "run")
    <2>1. CASE d' = Gone(i)
      BY <1>2, <2>1
    <2>2. ASSUME NEW k, d' = [d EXCEPT ![i].pc = "write", ![i].key = k]
          PROVE  d'[j] = d[j] \/ (On(j) /\ d'[j].met = d[j].met /\ d'[j].pc # "run")
      BY <1>0, <1>12, <2>2 DEF DaemonStates, persist, On
    <2> QED BY <1>12, <2>1, <2>2 DEF persist
  <1>13. ASSUME NEW i \in Daemons, bind_control_socket(i)
         PROVE  d'[j] = d[j]
                  \/ (i = j /\ On(j) /\ d'[j].met = d[j].met)
    BY <1>0, <1>13 DEF DaemonStates, bind_control_socket, Goto, On
  <1> QED
    <2>1. ASSUME NEW i \in Daemons, on_file_marked(i)
          PROVE  d'[j] = d[j] \/ (On(j) /\ d'[j].met = d[j].met /\ d'[j].pc = d[j].pc)
      <3>1. d[i].pc = "run" /\ (j # i => d'[j] = d[j])
        BY <1>0, <2>1 DEF on_file_marked
      <3> QED BY <1>8, <2>1, <3>1 DEF On
    <2>2. ASSUME NEW i \in Daemons, ctrl_c(i) \/ Kill(i)
          PROVE  d'[j] = Off \/ d'[j] = d[j]
      BY <1>2, <2>2 DEF ctrl_c, Kill
    <2> QED BY <1>0, <1>1, <1>4, <1>5, <1>6, <1>7, <1>9, <1>10, <1>11, <1>12, <1>13,
               <2>1, <2>2
            DEF DaemonStep, StartupNext, StartStep

\* Every step keeps the socket with the daemon that is alone.
LEMMA SocketStep ==
    ASSUME "io" \notin Faults
    PROVE  SocketInv /\ [Next]_vars => SocketInv'
  <1> SUFFICES ASSUME SocketInv, [Next]_vars PROVE MetInv' /\ SocketReachable'
    BY TypeStep DEF SocketInv
  <1>0. /\ TypeInv /\ d \in [Daemons -> DaemonStates]
        /\ Off.pc = "off" /\ \A j \in Daemons : d[j].pc = "off" => d[j] = Off
    BY DEF SocketInv, TypeInv, BaseInv, DaemonsOK, Phase, Off
  <1>1. CASE DaemonStep
    <2>1. ASSUME NEW j \in Daemons, On(j)'
          PROVE  /\ On(j) /\ d'[j].met = d[j].met
                 /\ d'[j].pc = "run" => d[j].pc = "run" \/ bind_control_socket(j)
      BY <1>0, <1>1, <2>1, SameDaemon DEF On
    <2>2. MetInv'
      BY <2>1 DEF SocketInv, MetInv
    <2>3. ASSUME NEW j \in Daemons, d'[j].pc = "run", ~d'[j].met
          PROVE  sock' # None /\ sock'.owner = j
      <3>1. /\ On(j) /\ ~d[j].met
            /\ d[j].pc = "run" \/ bind_control_socket(j)
        BY <2>1, <2>3 DEF On
      <3>2. ASSUME NEW i \in Daemons, On(i) PROVE i = j
        BY <3>1, <3>2 DEF SocketInv, MetInv
      <3>3. CASE bind_control_socket(j)
        <4>1. Bound(j) # None
          <5>1. Bound(j) \in [owner : Daemons, group : BOOLEAN]
            BY <1>0 DEF Bound, TrayOn, TypeInv, BaseInv, DiskOK
          <5> QED BY <5>1, SocketAssumption
        <4> QED BY <3>3, <4>1 DEF bind_control_socket, Bound
      <3>4. CASE sock' = sock /\ d[j].pc = "run"
        BY <3>1, <3>4 DEF SocketInv, SocketReachable
      <3>5. ASSUME NEW i \in Daemons, ctrl_c(i) \/ Kill(i) PROVE FALSE
        <4>1. On(i) /\ d' = Gone(i)
          BY <3>5 DEF ctrl_c, Kill, On
        <4>2. i = j
          BY <3>2, <4>1
        <4> QED BY <1>0, <2>3, <4>1, <4>2 DEF Gone
      <3>6. ASSUME NEW i \in Daemons, bind_control_socket(i) PROVE i = j
        BY <3>2, <3>6 DEF bind_control_socket, On
      <3>7. CASE \A i \in Daemons : ~bind_control_socket(i) /\ ~ctrl_c(i) /\ ~Kill(i)
        <4>1. sock' = sock
          BY <1>1, <3>7
          DEF DaemonStep, StartupNext, StartStep, execute, load_or_create,
              persist, write_all, attach, seed_rules, set_mode, set_key,
              open_files, on_file_marked, Mark, Evict
        <4> QED BY <3>1, <3>4, <3>7, <4>1
      <3> QED BY <3>3, <3>5, <3>6, <3>7
    <2> QED BY <2>2, <2>3 DEF SocketReachable
  <1>2. CASE Launch
    <2>1. ASSUME NEW i \in Daemons, NEW v, NEW cli, d' = Launched(i, v, cli)
          PROVE  MetInv' /\ SocketReachable'
      <3>1. d'[i].pc = "config" /\ (d'[i].met <=> \E k \in Daemons \ {i} : On(k))
        BY <2>1 DEF Launched, Off
      <3>2. ASSUME NEW j \in Daemons, j # i
            PROVE  d'[j].pc = d[j].pc /\ (d'[j].met <=> On(j))
        <4>1. d[j] \in DaemonStates
          BY <1>0
        <4> QED BY <2>1, <3>2, <4>1 DEF Launched, DaemonStates
      <3> QED BY <3>1, <3>2 DEF MetInv, SocketReachable, On
    <2> QED BY <1>2, <2>1, LaunchDaemons DEF Daemons
  <1>3. CASE Quiet \/ UNCHANGED vars
    <2>1. d' = d
      BY <1>3, QuietDaemons DEF vars, startupVars
    <2>2. sock' = sock
      BY <1>3 DEF Quiet, EditConfig, EditTray, EditAllow, RemoveKey, NoInstall,
                  Command, install_to, rename, Abort, SkipRestart, write_config,
                  write_empty_allowlist, ensure_linprov_group,
                  write_systemd_unit, Decline, read_to_string,
                  set_config_notifications_tray, startupVars, vars
    <2> QED BY <2>1, <2>2 DEF SocketInv, MetInv, SocketReachable, On
  <1> QED BY <1>1, <1>2, <1>3, StepKinds

\* SocketReachable: whatever earlier daemons left when they were killed, one
\* that runs alone answers on the socket, unless binding it failed.
THEOREM SocketTheorem ==
    ASSUME "io" \notin Faults
    PROVE  Spec => []SocketReachable
  <1>1. Init => SocketInv
    <2> SUFFICES ASSUME Init PROVE MetInv /\ SocketReachable
      BY InitTypeInv DEF SocketInv
    <2>1. ASSUME NEW i \in Daemons PROVE d[i].pc = "off"
      BY DEF Init, StartupInit, Off
    <2> QED BY <2>1 DEF MetInv, SocketReachable, On
  <1>2. SocketInv => SocketReachable
    BY DEF SocketInv
  <1>3. SocketInv /\ [Next]_vars => SocketInv'
    BY SocketStep
  <1> QED BY <1>1, <1>2, <1>3, PTL DEF Spec

-----------------------------------------------------------------------------
(* Refusals.                                                               *)

\* A mark is under the daemon's key, or under none and its event is waiting.
Healing(i) ==
    d[i].mark # None =>
        /\ d[i].mark.key \in {d[i].key, Raw}
        /\ d[i].mark.key = Raw => d[i].EVENTS # None

HealInv == KeyInv /\ \A i \in Daemons : Healing(i)

\* A daemon whose hooks are attached keeps key, mark and event in every step
\* but those on the file.
LEMMA MarkFrame ==
    ASSUME TypeInv, Next, ~Mark, ~Evict, \A i \in Daemons : ~on_file_marked(i),
           NEW j \in Daemons, d'[j].pc \in Hooked
    PROVE  d'[j].mark = d[j].mark /\ d'[j].key = d[j].key /\ d'[j].EVENTS = d[j].EVENTS
  <1>0. /\ d \in [Daemons -> DaemonStates] /\ d[j] \in DaemonStates
        /\ Off.pc \notin Hooked
    BY DEF TypeInv, BaseInv, DaemonsOK, Off, Hooked
  <1>1. ASSUME NEW i \in Daemons, d' = Gone(i) PROVE d'[j] = d[j]
    BY <1>0, <1>1 DEF Gone
  <1>2. CASE DaemonStep
    <2>1. ASSUME NEW i \in Daemons,
                 execute(i) \/ load_or_create(i) \/ persist(i) \/ write_all(i)
          PROVE  d'[j] = d[j]
      <3>1. CASE i = j
        <4>1. d'[j].pc \in {"key", "create", "attach", "write"} \/ d' = Gone(j)
          BY <1>0, <2>1, <3>1 DEF execute, load_or_create, persist, write_all, Goto,
                                  DaemonStates
        <4> QED BY <1>1, <4>1 DEF Hooked
      <3>2. CASE i # j
        BY <1>0, <2>1, <3>2 DEF execute, load_or_create, persist, write_all, Goto, Gone
      <3> QED BY <3>1, <3>2
    <2>2. ASSUME NEW i \in Daemons,
                 attach(i) \/ seed_rules(i) \/ set_mode(i) \/ bind_control_socket(i)
          PROVE  d'[j].mark = d[j].mark /\ d'[j].key = d[j].key
                   /\ d'[j].EVENTS = d[j].EVENTS
      BY <1>0, <2>2 DEF attach, seed_rules, set_mode, bind_control_socket, Goto,
                        DaemonStates
    <2>3. ASSUME NEW i \in Daemons, set_key(i)
          PROVE  d'[j].mark = d[j].mark /\ d'[j].key = d[j].key
                   /\ d'[j].EVENTS = d[j].EVENTS
      BY <1>0, <2>3 DEF set_key, DaemonStates
    <2>4. ASSUME NEW i \in Daemons, open_files(i)
          PROVE  d'[j].mark = d[j].mark /\ d'[j].key = d[j].key
                   /\ d'[j].EVENTS = d[j].EVENTS
      <3>1. CASE d' = [d EXCEPT ![i].pc = "bind"]
        BY <1>0, <3>1 DEF DaemonStates
      <3> QED BY <1>1, <2>4, <3>1 DEF open_files
    <2>5. ASSUME NEW i \in Daemons, ctrl_c(i) \/ Kill(i) PROVE d'[j] = d[j]
      BY <1>1, <2>5 DEF ctrl_c, Kill
    <2> QED BY <1>2, <2>1, <2>2, <2>3, <2>4, <2>5
            DEF DaemonStep, StartupNext, StartStep
  <1>3. CASE Launch
    <2>1. ASSUME NEW i \in Daemons, NEW v, NEW cli, d' = Launched(i, v, cli)
          PROVE  d'[j].mark = d[j].mark /\ d'[j].key = d[j].key
                   /\ d'[j].EVENTS = d[j].EVENTS
      <3>1. d'[i].pc = "config"
        BY <2>1 DEF Launched, Off
      <3>2. i # j
        BY <3>1 DEF Hooked
      <3> QED BY <1>0, <2>1, <3>2 DEF Launched, DaemonStates
    <2> QED BY <1>3, <2>1, LaunchDaemons DEF Daemons
  <1>4. CASE Quiet
    BY <1>4, QuietDaemons
  <1> QED BY <1>2, <1>3, <1>4, StepKinds

\* Every step keeps the marks healing, if the ring drops no event.
LEMMA HealStep ==
    ASSUME "drop" \notin Faults
    PROVE  HealInv /\ [Next]_vars => HealInv'
  <1> SUFFICES ASSUME HealInv, [Next]_vars, NEW j \in Daemons PROVE Healing(j)'
    BY KeyStep DEF HealInv
  <1>0. /\ TypeInv /\ TypeInv' /\ Healing(j) /\ d \in [Daemons -> DaemonStates]
        /\ d[j] \in DaemonStates /\ Phase(j) /\ Phase(j)'
    BY TypeStep DEF HealInv, KeyInv, TypeInv, BaseInv, DaemonsOK
  <1>1. CASE d'[j].pc \notin Hooked
    BY <1>0, <1>1 DEF Phase, Healing
  <1>2. CASE d'[j].mark = d[j].mark /\ d'[j].key = d[j].key /\ d'[j].EVENTS = d[j].EVENTS
    BY <1>0, <1>2 DEF Healing
  <1>3. CASE Mark
    <2>1. /\ d'[j].key = d[j].key
          /\ d'[j] = d[j] \/ d'[j].EVENTS # None
          /\ \/ d'[j].mark = d[j].mark
             \/ d[j].mark = None /\ d'[j].mark.key = hash_key(j)
      BY <1>0, <1>3, MarkFields DEF TypeInv
    <2> QED BY <1>0, <2>1 DEF Healing, hash_key
  <1>4. CASE Evict
    <2>1. d'[j].mark = None
      BY <1>0, <1>4 DEF Evict, DaemonStates
    <2> QED BY <2>1 DEF Healing
  <1>5. ASSUME NEW i \in Daemons, on_file_marked(i) PROVE Healing(j)'
    <2>1. CASE i # j
      BY <1>0, <1>2, <1>5, <2>1 DEF on_file_marked
    <2>2. CASE i = j
      <3>1. PICK known \in BOOLEAN :
               d' = [d EXCEPT ![i].EVENTS = None,
                              ![i].mark = [key |-> d[i].key, known |-> known]]
        BY <1>5 DEF on_file_marked
      <3> DEFINE m == [key |-> d[j].key, known |-> known]
      <3>2. m.key = d[j].key
        OBVIOUS
      <3>3. d'[j] = [d[j] EXCEPT !.EVENTS = None, !.mark = m]
        BY <1>0, <2>2, <3>1
      <3> HIDE DEF m
      <3>4. d'[j].mark = m /\ d'[j].key = d[j].key
        BY <1>0, <3>3 DEF DaemonStates
      <3>5. d[j].key # Raw
        <4>1. d[j].key \in Keys \cup {None}
          BY <1>0 DEF DaemonStates
        <4> QED BY <4>1, StartupAssumption
      <3> QED BY <3>2, <3>4, <3>5 DEF Healing
    <2> QED BY <2>1, <2>2
  <1>6. CASE UNCHANGED vars
    BY <1>2, <1>6 DEF vars, startupVars
  <1>7. CASE Next /\ ~Mark /\ ~Evict /\ \A i \in Daemons : ~on_file_marked(i)
    BY <1>0, <1>1, <1>2, <1>7, MarkFrame
  <1> QED BY <1>3, <1>4, <1>5, <1>6, <1>7

\* RefusalExplained: a file that a listed rule permits is refused only in the
\* window a start has between its mode and its key, or until the event that
\* is waiting corrects a mark made in that window.
THEOREM RefusalTheorem ==
    ASSUME "drop" \notin Faults
    PROVE  Spec => []RefusalExplained
  <1>1. Init => HealInv
    <2> SUFFICES ASSUME Init PROVE HealInv
      OBVIOUS
    <2>1. ASSUME NEW i \in Daemons
          PROVE  d[i].key = None /\ d[i].pc = "off" /\ d[i].mark = None
      BY DEF Init, StartupInit, Off
    <2>2. WriterInv /\ OneKey
      BY <2>1 DEF WriterInv, OneKey, Keyed, Init, StartupInit
    <2> QED BY <2>1, <2>2, InitTypeInv DEF HealInv, KeyInv, Healing
  <1>2. HealInv => RefusalExplained
    <2> SUFFICES ASSUME HealInv, NEW i \in Daemons, Refuses(i), Given(i) # {},
                        ~(d[i].KEY < 2)
                 PROVE  Record(i) = Raw /\ d[i].EVENTS # None
      BY DEF RefusalExplained
    <2>0. d[i] \in DaemonStates /\ Phase(i) /\ Healing(i) /\ OneKey
      BY DEF HealInv, KeyInv, TypeInv, BaseInv, DaemonsOK
    <2>1. d[i].pc \in {"k0", "k1", "open", "bind", "run"}
      BY <2>0 DEF Refuses, Phase
    <2>2. d[i].key # None /\ Keyed(i)
      BY <2>0, <2>1 DEF Phase, Keyed, Hooked
    <2>3. d[i].KEY = 2
      BY <2>0 DEF DaemonStates
    <2>4. hash_key(i) = d[i].key
      BY <2>3 DEF hash_key
    <2>5. Given(i) = d[i].rules
      BY <2>1 DEF Given
    <2>6. PICK rule \in d[i].rules : TRUE
      BY <2>5
    <2>7. rule = "target" \/ rule = "landing"
      BY <2>0, <2>6 DEF DaemonStates, AllowRules
    <2>8. ~Matches(i, rule)
      BY <2>6 DEF Refuses
    <2>9. Record(i) # d[i].key
      BY <2>4, <2>7, <2>8 DEF Matches
    <2>10. xattr = None \/ xattr = d[i].key
      BY <2>0, <2>2 DEF OneKey
    <2>11. Record(i) # None
      BY DEF Refuses
    <2>12. d[i].mark # None /\ Record(i) = d[i].mark.key
      BY <2>9, <2>10, <2>11 DEF Record
    <2> QED BY <2>0, <2>9, <2>12 DEF Healing
  <1>3. HealInv /\ [Next]_vars => HealInv'
    BY HealStep
  <1> QED BY <1>1, <1>2, <1>3, PTL DEF Spec

-----------------------------------------------------------------------------
(* The service the operator was told of.                                   *)

\* The build that was reported is at the install path and, if the service
\* runs, is the one that runs; an upgrade that comes to its restart has put
\* its build in place.
BuildInv ==
    /\ asked.build # None => asked.build = bin /\ (On(svc) => d[svc].ver = asked.build)
    /\ cmd.pc = "reload" => cmd.build = bin

\* What was asked for is in the config, if that parses at all; a command that
\* has read the config has it as it is.
ConfigInv ==
    /\ asked.mode = "enforce" => config = Bad \/ (config \in Configs /\ config.mode = "enforce")
    /\ asked.tray => config = Bad \/ (config \in Configs /\ TrayOn(config))
    /\ cmd.text # None => cmd.text = config

\* What had been asked for when the service read its config, it has.
ReadInv ==
    /\ d[svc].cli = None
    /\ On(svc) /\ d[svc].pc # "config" =>
          /\ given.mode = "enforce" => d[svc].cfg.mode = "enforce"
          /\ given.tray => TrayOn(d[svc].cfg)

AskedInv == TypeInv /\ BuildInv /\ ConfigInv /\ ReadInv

\* A config with the line turned on offers the tray.
LEMMA TrayLines ==
    ASSUME NEW c
    PROVE  c.tray \in {<<"on">>, <<"hint", "on">>} => TrayOn(c)
  <1>1. ASSUME c.tray = <<"on">> PROVE TrayOn(c)
    <2>1. 1 \in DOMAIN c.tray /\ c.tray[1] = "on"
      BY <1>1
    <2> QED BY <2>1 DEF TrayOn
  <1>2. ASSUME c.tray = <<"hint", "on">> PROVE TrayOn(c)
    <2>1. 2 \in DOMAIN c.tray /\ c.tray[2] = "on"
      BY <1>2
    <2> QED BY <2>1 DEF TrayOn
  <1> QED BY <1>1, <1>2

\* A daemon takes its config in execute and keeps it, its build and its
\* options until it ends.
LEMMA ConfigKept ==
    ASSUME TypeInv, DaemonStep, NEW j \in Daemons
    PROVE  \/ d'[j] = Off
           \/ /\ d'[j].ver = d[j].ver /\ d'[j].cli = d[j].cli
              /\ \/ /\ d[j].pc = "config" /\ d'[j].pc = "key"
                    /\ config # Bad /\ d'[j].cfg = Resolved(j)
                 \/ /\ d'[j].cfg = d[j].cfg
                    /\ d'[j].pc = "config" <=> d[j].pc = "config"
  <1> DEFINE Same == /\ d'[j].ver = d[j].ver /\ d'[j].cli = d[j].cli
                     /\ d'[j].cfg = d[j].cfg
                     /\ d'[j].pc = "config" <=> d[j].pc = "config"
             Took == /\ d'[j].ver = d[j].ver /\ d'[j].cli = d[j].cli
                     /\ d[j].pc = "config" /\ d'[j].pc = "key"
                     /\ config # Bad /\ d'[j].cfg = Resolved(j)
  <1>0. d \in [Daemons -> DaemonStates] /\ d[j] \in DaemonStates
    BY DEF TypeInv, BaseInv, DaemonsOK
  <1>1. ASSUME NEW i \in Daemons, d' = Gone(i)
        PROVE  d'[j] = Off \/ d'[j] = d[j]
    BY <1>0, <1>1 DEF Gone
  <1>2. ASSUME NEW i \in Daemons, execute(i), d'[j] # Off, d'[j] # d[j]
        PROVE  Took
    <2>1. d' # Gone(i)
      BY <1>1, <1>2
    <2>2. /\ d' = [d EXCEPT ![i].pc = "key", ![i].cfg = Resolved(i)]
          /\ config # Bad /\ d[i].pc = "config"
      BY <1>2, <2>1 DEF execute
    <2>3. i = j
      BY <1>0, <1>2, <2>2
    <2> QED BY <1>0, <2>2, <2>3 DEF DaemonStates
  <1>3. ASSUME NEW i \in Daemons,
               attach(i) \/ seed_rules(i) \/ set_mode(i) \/ write_all(i)
                  \/ bind_control_socket(i)
        PROVE  Same
    BY <1>0, <1>3 DEF DaemonStates, attach, seed_rules, set_mode, write_all,
                      bind_control_socket, Goto
  <1>4. ASSUME NEW i \in Daemons, set_key(i) PROVE Same
    <2>1. d'[j] = d[j] \/ (/\ d'[j].ver = d[j].ver /\ d'[j].cli = d[j].cli
                           /\ d'[j].cfg = d[j].cfg
                           /\ d'[j].pc \in {"k1", "open"} /\ d[j].pc \in {"k0", "k1"})
      BY <1>0, <1>4 DEF set_key, DaemonStates
    <2> QED BY <2>1
  <1>5. ASSUME NEW i \in Daemons, open_files(i)
        PROVE  d'[j] = Off \/ Same
    <2>1. CASE d' = [d EXCEPT ![i].pc = "bind"]
      BY <1>0, <1>5, <2>1 DEF DaemonStates, open_files
    <2> QED BY <1>1, <1>5, <2>1 DEF open_files
  <1>6. ASSUME NEW i \in Daemons, on_file_marked(i) PROVE Same
    BY <1>0, <1>6 DEF on_file_marked, DaemonStates
  <1>7. ASSUME Mark PROVE Same
    BY <1>7, MarkFields DEF TypeInv
  <1>8. ASSUME Evict PROVE Same
    BY <1>0, <1>8 DEF Evict, DaemonStates
  <1>9. ASSUME NEW i \in Daemons, load_or_create(i)
        PROVE  d'[j] = Off \/ Same
    <2>1. CASE d' = Gone(i)
      BY <1>1, <2>1
    <2>2. CASE d' = [d EXCEPT ![i].pc = "create"]
      BY <1>0, <1>9, <2>2 DEF DaemonStates, load_or_create
    <2>3. CASE d' = [d EXCEPT ![i].pc = "attach", ![i].key = keyfile]
      BY <1>0, <1>9, <2>3 DEF DaemonStates, load_or_create
    <2> QED BY <1>9, <2>1, <2>2, <2>3 DEF load_or_create
  <1>10. ASSUME NEW i \in Daemons, persist(i)
        PROVE  d'[j] = Off \/ Same
    <2>1. CASE d' = Gone(i)
      BY <1>1, <2>1
    <2>2. ASSUME NEW k, d' = [d EXCEPT ![i].pc = "write", ![i].key = k]
          PROVE  Same
      BY <1>0, <1>10, <2>2 DEF DaemonStates, persist
    <2> QED BY <1>10, <2>1, <2>2 DEF persist
  <1>11. ASSUME NEW i \in Daemons, ctrl_c(i) \/ Kill(i)
         PROVE  d'[j] = Off \/ Same
    <2>1. d'[j] = Off \/ d'[j] = d[j]
      BY <1>1, <1>11 DEF ctrl_c, Kill
    <2> QED BY <2>1
  <1>12. ASSUME NEW i \in Daemons, execute(i)
         PROVE  d'[j] = Off \/ Same \/ Took
    BY <1>2, <1>12
  <1> HIDE DEF Same, Took
  <1>13. ASSUME NEW i \in Daemons, StartStep(i)
         PROVE  d'[j] = Off \/ Same \/ Took
    BY <1>3, <1>4, <1>5, <1>9, <1>10, <1>12, <1>13 DEF StartStep
  <1>14. d'[j] = Off \/ Same \/ Took
    BY <1>6, <1>7, <1>8, <1>11, <1>13 DEF DaemonStep, StartupNext
  <1> QED BY <1>14 DEF Same, Took

\* The builds: what is installed, reported and run.
LEMMA BuildStep == AskedInv /\ Next => BuildInv'
  <1> SUFFICES ASSUME AskedInv, Next PROVE BuildInv'
    OBVIOUS
  <1>0. /\ TypeInv /\ BuildInv /\ cmd \in CommandStates /\ asked \in Told
        /\ svc \in Daemons /\ d \in [Daemons -> DaemonStates] /\ Off.pc = "off"
        /\ svc # fg
    BY StartupAssumption
    DEF AskedInv, TypeInv, BaseInv, DaemonsOK, CommandsOK, Daemons, Off
  <1>1. CASE DaemonStep
    <2>1. UNCHANGED <<bin, cmd, asked>>
      BY <1>1 DEF DaemonStep
    <2>2. On(svc)' => On(svc) /\ d'[svc].ver = d[svc].ver
      BY <1>0, <1>1, SameDaemon, ConfigKept DEF On
    <2> QED BY <1>0, <2>1, <2>2 DEF BuildInv
  <1>2. CASE Launch
    <2>1. UNCHANGED bin /\ (d' = Launched(svc, bin, None) \/ d' = Launched(fg, bin, "soak"))
      BY <1>2, LaunchDaemons
    <2>2. d' = Launched(svc, bin, None) => d'[svc].ver = bin
      BY <1>0 DEF Launched, Off
    <2>3. d' = Launched(fg, bin, "soak") => d'[svc].ver = d[svc].ver /\ d'[svc].pc = d[svc].pc
      <3> DEFINE on == On(svc)
      <3>1. d[svc] \in DaemonStates /\ fg \in Daemons
        BY <1>0 DEF Daemons
      <3>2. ASSUME d' = Launched(fg, bin, "soak")
            PROVE  d'[svc] = d[svc] \/ d'[svc] = [d[svc] EXCEPT !.met = on]
        BY <1>0, <3>1, <3>2 DEF Launched
      <3> HIDE DEF on
      <3> QED BY <3>1, <3>2 DEF DaemonStates
    <2>4. CASE systemctl
      <3>1. asked' = [asked EXCEPT !.build = cmd.build] /\ cmd.build = bin
            /\ cmd' = Idle /\ d' = Launched(svc, bin, None)
        BY <1>0, <2>4 DEF systemctl, At, End, BuildInv, Restart, Start
      <3>2. asked'.build = bin
        BY <1>0, <3>1 DEF Told
      <3> QED BY <2>1, <2>2, <3>1, <3>2 DEF BuildInv, Idle
    <2>5. CASE ~systemctl
      <3>1. asked' = asked
        BY <1>2, <2>5 DEF Launch, SystemdStart, Foreground, restart_system_unit,
                          exec_soak, cmdVars
      <3>2. cmd' = cmd \/ cmd' = Idle \/ (cmd' = [cmd EXCEPT !.pc = "soak"])
        BY <1>2, <2>5 DEF Launch, SystemdStart, Foreground, restart_system_unit,
                          exec_soak, cmdVars, Then, End
      <3>3. cmd'.pc = "reload" => cmd' = cmd
        BY <1>0, <3>2 DEF Idle, CommandStates
      <3> QED BY <1>0, <2>1, <2>2, <2>3, <3>1, <3>3 DEF BuildInv, On
    <2> QED BY <2>4, <2>5
  <1>3. CASE Quiet
    <2>1. d' = d
      BY <1>3, QuietDaemons
    <2>2. CASE rename
      <3>1. /\ asked' = [asked EXCEPT !.build = None] /\ bin' = cmd.build
            /\ cmd' = Installed(TRUE)
        BY <2>2 DEF rename
      <3>2. asked'.build = None
        BY <1>0, <3>1 DEF Told
      <3>3. cmd'.pc = "reload" => cmd'.build = cmd.build
        BY <1>0, <3>1 DEF Installed, CommandStates
      <3> QED BY <3>1, <3>2, <3>3 DEF BuildInv
    <2>3. CASE install_to
      <3>1. bin' = bin /\ asked' = asked
        BY <2>3 DEF install_to
      <3>2. cmd'.pc = "reload" => bin = cmd.build /\ cmd'.build = cmd.build
        <4>1. CASE bin = cmd.build
          BY <1>0, <2>3, <4>1 DEF install_to, Installed, CommandStates
        <4>2. CASE bin # cmd.build
          BY <1>0, <2>3, <4>2 DEF install_to, CommandStates
        <4> QED BY <4>1, <4>2
      <3> QED BY <1>0, <2>1, <3>1, <3>2 DEF BuildInv, On
    <2>4. CASE ~rename /\ ~install_to
      <3>1. bin' = bin
        BY <1>3, <2>4 DEF Quiet, EditConfig, EditTray, EditAllow, RemoveKey,
              NoInstall, Command, Abort, SkipRestart, write_config,
              write_empty_allowlist, ensure_linprov_group, write_systemd_unit,
              Decline, read_to_string, set_config_notifications_tray, cmdVars
      <3>2. asked'.build = asked.build
        <4>1. \/ asked' = asked
              \/ asked' = [asked EXCEPT !.mode = "enforce"]
              \/ asked' = [asked EXCEPT !.tray = TRUE]
              \/ asked' = [asked EXCEPT !.mode = None, !.tray = FALSE]
          BY <1>3, <2>4 DEF Quiet, EditConfig, EditTray, EditAllow, RemoveKey,
                NoInstall, Command, Abort, SkipRestart, write_config,
                write_empty_allowlist, ensure_linprov_group, write_systemd_unit,
                Decline, read_to_string, set_config_notifications_tray, cmdVars
        <4> QED BY <1>0, <4>1 DEF Told
      <3>3. cmd'.pc = "reload" => cmd' = cmd \/ cmd'.build = bin
        <4>1. CASE NoInstall
          BY <4>1 DEF NoInstall, Idle
        <4>2. ASSUME NEW v \in Versions, NEW force \in BOOLEAN,
                     Command("setup", v, force) \/ Command("upgrade", v, FALSE)
              PROVE  cmd'.pc = "install"
          BY <4>2 DEF Command, Idle
        <4>3. CASE Abort \/ SkipRestart
          BY <4>3 DEF Abort, SkipRestart, End, Idle
        <4>4. CASE EditConfig \/ EditTray \/ EditAllow \/ RemoveKey
          BY <4>4 DEF EditConfig, EditTray, EditAllow, RemoveKey, cmdVars
        <4>5. CASE write_config \/ write_empty_allowlist \/ ensure_linprov_group
                     \/ write_systemd_unit \/ Decline
          <5>1. \/ cmd' = Idle
                \/ \E pc \in {"list", "unit", "tray", "restart", "soak"} :
                      cmd' = [cmd EXCEPT !.pc = pc]
                \/ cmd' = [cmd EXCEPT !.pc = "group", !.force = FALSE]
            BY <4>5 DEF write_config, write_empty_allowlist,
                  ensure_linprov_group, write_systemd_unit, Decline, Then, End
          <5>2. cmd \in CommandStates
            BY <1>0
          <5>3. ASSUME NEW pc \in {"list", "unit", "tray", "restart", "soak"},
                       cmd' = [cmd EXCEPT !.pc = pc]
                PROVE  cmd'.pc # "reload"
            BY <5>2, <5>3 DEF CommandStates
          <5>4. CASE cmd' = [cmd EXCEPT !.pc = "group", !.force = FALSE]
            BY <5>2, <5>4 DEF CommandStates
          <5>5. CASE cmd' = Idle
            BY <5>5 DEF Idle
          <5> QED BY <5>1, <5>3, <5>4, <5>5
        <4>6. CASE read_to_string
          BY <1>0, <4>6 DEF read_to_string, CommandStates
        <4>7. CASE set_config_notifications_tray
          <5>1. cmd' = Idle \/ cmd' = [cmd EXCEPT !.pc = "restart", !.text = None]
            BY <4>7 DEF set_config_notifications_tray, End
          <5>2. cmd \in CommandStates
            BY <1>0
          <5>3. CASE cmd' = Idle
            BY <5>3 DEF Idle
          <5>4. CASE cmd' = [cmd EXCEPT !.pc = "restart", !.text = None]
            BY <5>2, <5>4 DEF CommandStates
          <5> QED BY <5>1, <5>3, <5>4
        <4> QED BY <1>3, <2>4, <4>1, <4>2, <4>3, <4>4, <4>5, <4>6, <4>7 DEF Quiet
      <3> QED BY <1>0, <2>1, <3>1, <3>2, <3>3 DEF BuildInv, On
    <2> QED BY <2>2, <2>3, <2>4
  <1> QED BY <1>1, <1>2, <1>3, StepKinds

\* The config: no command and no edit loses what was asked for.
LEMMA ConfigStep ==
    ASSUME Faults \cap {"torn", "race"} = {}
    PROVE  AskedInv /\ Next => ConfigInv'
  <1> SUFFICES ASSUME AskedInv, Next PROVE ConfigInv'
    OBVIOUS
  <1>0. /\ TypeInv /\ ConfigInv /\ cmd \in CommandStates /\ asked \in Told
        /\ config \in Configs \cup {None, Bad}
        /\ cmd.text # None <=> cmd.pc = "patch"
        /\ None \notin Configs /\ Bad \notin Configs /\ Bad # None
    BY ConfigsAssumption DEF AskedInv, TypeInv, BaseInv, DiskOK, CommandsOK
  <1>1. ASSUME UNCHANGED <<config, asked>>, cmd'.text = cmd.text \/ cmd'.text = None
        PROVE  ConfigInv'
    BY <1>0, <1>1 DEF ConfigInv
  <1>2. CASE EditConfig
    <2>1. /\ config \in Configs /\ cmd.text = None /\ cmd' = cmd
          /\ config' = [config EXCEPT !.mode = "enforce", !.listed = TRUE]
          /\ asked' = [asked EXCEPT !.mode = "enforce"]
      BY <1>2 DEF EditConfig
    <2>2. /\ config' \in Configs /\ config'.mode = "enforce"
          /\ config'.tray = config.tray /\ asked'.tray = asked.tray
      BY <1>0, <2>1 DEF Configs, Told
    <2> QED BY <1>0, <2>1, <2>2 DEF ConfigInv, TrayOn
  <1>3. CASE EditTray
    <2>1. /\ config \in Configs /\ cmd.text = None /\ cmd' = cmd
          /\ config' = [config EXCEPT !.tray = <<"on">>]
                \/ config' = [config EXCEPT !.tray = <<"hint", "on">>]
          /\ asked' = [asked EXCEPT !.tray = TRUE]
      BY <1>3 DEF EditTray
    <2>2. /\ config' \in Configs /\ config'.mode = config.mode
          /\ config'.tray \in {<<"on">>, <<"hint", "on">>}
          /\ asked'.mode = asked.mode
      BY <1>0, <2>1 DEF Configs, Told
    <2> QED BY <1>0, <2>1, <2>2, TrayLines DEF ConfigInv
  <1>4. CASE write_config
    <2>1. CASE config # None /\ ~cmd.force
      <3>1. UNCHANGED <<config, asked>> /\ cmd' = [cmd EXCEPT !.pc = "list"]
        BY <1>4, <2>1 DEF write_config, Then
      <3>2. cmd'.text = cmd.text
        BY <1>0, <3>1 DEF CommandStates
      <3> QED BY <1>1, <3>1, <3>2
    <2>2. CASE ~(config # None /\ ~cmd.force)
      <3>1. /\ asked' = [asked EXCEPT !.mode = None, !.tray = FALSE]
            /\ cmd' = Idle \/ cmd' = [cmd EXCEPT !.pc = "list"]
            /\ cmd.pc = "config"
        BY <1>4, <2>2 DEF write_config, Then, End, At
      <3>2. asked'.mode = None /\ asked'.tray = FALSE
        BY <1>0, <3>1 DEF Told
      <3>3. cmd'.text = None
        BY <1>0, <3>1 DEF CommandStates, Idle
      <3> QED BY <3>2, <3>3, ModeAssumption DEF ConfigInv
    <2> QED BY <2>1, <2>2
  <1>5. CASE read_to_string
    <2>1. UNCHANGED <<config, asked>> /\ cmd' = [cmd EXCEPT !.pc = "patch", !.text = config]
      BY <1>5 DEF read_to_string, startupVars, disk
    <2>2. cmd'.text = config
      BY <1>0, <2>1 DEF CommandStates
    <2> QED BY <1>0, <2>1, <2>2 DEF ConfigInv
  <1>6. CASE set_config_notifications_tray
    <2>1. cmd.text = config /\ config \in Configs
      BY <1>0, <1>6 DEF set_config_notifications_tray, At, ConfigInv, CommandStates
    <2>2. /\ config' = ensure_tray_line(config)
          /\ cmd' = [cmd EXCEPT !.pc = "restart", !.text = None]
          /\ asked' = [asked EXCEPT !.tray = TRUE]
      BY <1>6, <2>1 DEF set_config_notifications_tray, Written
    <2>3. cmd'.text = None /\ asked'.mode = asked.mode
      BY <1>0, <2>2 DEF CommandStates, Told
    <2>4. CASE config' = Bad
      BY <2>3, <2>4 DEF ConfigInv
    <2>5. CASE config' # Bad
      <3>1. config' = [config EXCEPT !.tray = <<"on">>]
        BY <2>2, <2>5 DEF ensure_tray_line
      <3>2. config' \in Configs /\ config'.mode = config.mode /\ config'.tray = <<"on">>
        BY <2>1, <3>1 DEF Configs
      <3>3. TrayOn(config')
        BY <3>2, TrayLines
      <3>4. config # Bad /\ config # None
        BY <1>0, <2>1
      <3> QED BY <1>0, <2>3, <2>5, <3>2, <3>3, <3>4 DEF ConfigInv
    <2> QED BY <2>4, <2>5
  <1>7. CASE DaemonStep
    <2>1. UNCHANGED <<config, asked, cmd>>
      BY <1>7 DEF DaemonStep, StartupNext, StartStep, execute, load_or_create,
                  persist, write_all, attach, seed_rules, set_mode, set_key,
                  open_files, bind_control_socket, on_file_marked, ctrl_c, Kill,
                  Mark, Evict, disk
    <2> QED BY <1>1, <2>1
  <1>8. CASE Launch
    <2>1. config' = config
      BY <1>8, LaunchDaemons DEF disk
    <2>2. CASE systemctl
      <3>1. asked' = [asked EXCEPT !.build = cmd.build] /\ cmd' = Idle
        BY <2>2 DEF systemctl, End
      <3>2. asked'.mode = asked.mode /\ asked'.tray = asked.tray /\ cmd'.text = None
        BY <1>0, <3>1 DEF Told, Idle
      <3> QED BY <1>0, <2>1, <3>2 DEF ConfigInv
    <2>3. CASE ~systemctl
      <3>1. asked' = asked
            /\ (cmd' = cmd \/ cmd' = Idle \/ cmd' = [cmd EXCEPT !.pc = "soak"])
        BY <1>8, <2>3 DEF Launch, SystemdStart, Foreground, restart_system_unit,
                          exec_soak, cmdVars, Then, End
      <3>2. cmd'.text = cmd.text \/ cmd'.text = None
        BY <1>0, <3>1 DEF Idle, CommandStates
      <3> QED BY <1>1, <2>1, <3>1, <3>2
    <2> QED BY <2>2, <2>3
  <1>9. CASE rename
    <2>1. config' = config /\ asked' = [asked EXCEPT !.build = None] /\ cmd' = Installed(TRUE)
      BY <1>9 DEF rename, startupVars, disk
    <2>2. asked'.mode = asked.mode /\ asked'.tray = asked.tray /\ cmd'.text = cmd.text
      BY <1>0, <2>1 DEF Told, Installed, CommandStates
    <2> QED BY <1>0, <2>1, <2>2 DEF ConfigInv
  <1>10. CASE EditAllow \/ RemoveKey \/ NoInstall \/ install_to \/ Abort \/ SkipRestart
                \/ write_empty_allowlist \/ ensure_linprov_group
                \/ write_systemd_unit \/ Decline
    <2>1. UNCHANGED <<config, asked>>
      BY <1>10 DEF EditAllow, RemoveKey, NoInstall, install_to, Abort, SkipRestart,
            write_empty_allowlist, ensure_linprov_group, write_systemd_unit,
            Decline, startupVars, disk, cmdVars
    <2>2. cmd'.text = cmd.text \/ cmd'.text = None
      <3>1. \/ cmd' = cmd
            \/ cmd' = Idle
            \/ \E pc \in {"rename", "unit", "tray", "restart", "soak"} :
                  cmd' = [cmd EXCEPT !.pc = pc]
            \/ cmd' = [cmd EXCEPT !.pc = "group", !.force = FALSE]
            \/ cmd' = Installed(FALSE)
            \/ cmd' = [Idle EXCEPT !.op = "upgrade", !.pc = "reload", !.build = bin]
        BY <1>10 DEF EditAllow, RemoveKey, NoInstall, install_to, Abort,
              SkipRestart, write_empty_allowlist, ensure_linprov_group,
              write_systemd_unit, Decline, cmdVars, Then, End
      <3>2. cmd' = Installed(FALSE) => cmd'.text = cmd.text
        BY <1>0 DEF Installed, CommandStates
      <3>3. cmd \in CommandStates
        BY <1>0
      <3>4. ASSUME NEW pc, cmd' = [cmd EXCEPT !.pc = pc]
            PROVE  cmd'.text = cmd.text
        BY <3>3, <3>4 DEF CommandStates
      <3>5. CASE cmd' = [cmd EXCEPT !.pc = "group", !.force = FALSE]
        BY <3>3, <3>5 DEF CommandStates
      <3>6. CASE cmd' = Idle
        BY <3>6 DEF Idle
      <3>7. CASE cmd' = [Idle EXCEPT !.op = "upgrade", !.pc = "reload", !.build = bin]
        BY <3>7 DEF Idle
      <3> QED BY <3>1, <3>2, <3>4, <3>5, <3>6, <3>7
    <2> QED BY <1>1, <2>1, <2>2
  <1>11. ASSUME NEW v \in Versions, NEW force \in BOOLEAN,
                Command("setup", v, force) \/ Command("upgrade", v, FALSE)
         PROVE  ConfigInv'
    <2>1. UNCHANGED <<config, asked>> /\ cmd'.text = None
      BY <1>11 DEF Command, Idle, startupVars, disk
    <2> QED BY <1>1, <2>1
  <1> QED BY <1>2, <1>3, <1>4, <1>5, <1>6, <1>7, <1>8, <1>9, <1>10, <1>11, StepKinds
          DEF Quiet

\* The service: what it read is what had been asked for.
LEMMA ReadStep == AskedInv /\ Next => ReadInv'
  <1> SUFFICES ASSUME AskedInv, Next PROVE ReadInv'
    OBVIOUS
  <1>0. /\ TypeInv /\ ConfigInv /\ ReadInv /\ svc \in Daemons /\ svc # fg
        /\ d \in [Daemons -> DaemonStates] /\ d[svc] \in DaemonStates
        /\ Off.pc = "off" /\ Off.cli = None
    BY StartupAssumption
    DEF AskedInv, TypeInv, BaseInv, DaemonsOK, Daemons, Off
  <1>1. CASE DaemonStep
    <2>1. CASE d'[svc] = Off
      BY <1>0, <2>1 DEF ReadInv, On
    <2>2. CASE /\ d[svc].pc = "config" /\ d'[svc].pc = "key" /\ config # Bad
               /\ d'[svc].cfg = Resolved(svc) /\ d'[svc].cli = d[svc].cli
      <3>1. given' = asked
        BY <1>1, <2>2 DEF DaemonStep
      <3>2. asked.mode = "enforce" => Resolved(svc).mode = "enforce"
        <4> SUFFICES ASSUME asked.mode = "enforce" PROVE Resolved(svc).mode = "enforce"
          OBVIOUS
        <4>1. config \in Configs /\ config.mode = "enforce" /\ config # None
              /\ d[svc].cli = None
          BY <1>0, <2>2, ConfigsAssumption DEF ConfigInv, ReadInv
        <4>2. Resolved(svc) = [config EXCEPT !.mode =
                                 IF config.mode = None THEN "observe" ELSE config.mode]
          BY <4>1 DEF Resolved
        <4>3. config.mode # None
          BY <4>1, ModeAssumption
        <4> QED BY <4>1, <4>2, <4>3 DEF Configs
      <3>3. asked.tray => TrayOn(Resolved(svc))
        <4> SUFFICES ASSUME asked.tray PROVE TrayOn(Resolved(svc))
          OBVIOUS
        <4>1. config \in Configs /\ TrayOn(config) /\ config # None
          BY <1>0, <2>2, ConfigsAssumption DEF ConfigInv
        <4>2. Resolved(svc).tray = config.tray
          BY <4>1 DEF Resolved, Configs
        <4> QED BY <4>1, <4>2 DEF TrayOn
      <3> QED BY <1>0, <2>2, <3>1, <3>2, <3>3 DEF ReadInv
    <2>3. CASE /\ d'[svc] # Off /\ d'[svc].cli = d[svc].cli
               /\ d'[svc].cfg = d[svc].cfg
               /\ d'[svc].pc = "config" <=> d[svc].pc = "config"
      <3>1. On(svc)
        BY <1>0, <1>1, <2>3, SameDaemon
      <3>2. given' = given \/ d'[svc].pc = "off" \/ d'[svc].pc = "config"
        BY <1>1, <2>3 DEF DaemonStep
      <3> QED BY <1>0, <2>3, <3>1, <3>2 DEF ReadInv, On
    <2> QED BY <1>0, <1>1, <2>1, <2>2, <2>3, ConfigKept
  <1>2. CASE Launch
    <2>1. d' = Launched(svc, bin, None) \/ d' = Launched(fg, bin, "soak")
      BY <1>2, LaunchDaemons
    <2>2. given' = given
      BY <1>2 DEF Launch, SystemdStart, Foreground, restart_system_unit, exec_soak,
                  systemctl, cmdVars
    <2>3. CASE d' = Launched(svc, bin, None)
      <3>1. d'[svc].pc = "config" /\ d'[svc].cli = None
        BY <1>0, <2>3 DEF Launched, Off
      <3> QED BY <3>1 DEF ReadInv
    <2>4. CASE d' = Launched(fg, bin, "soak")
      <3>1. d'[svc].cli = d[svc].cli /\ d'[svc].pc = d[svc].pc /\ d'[svc].cfg = d[svc].cfg
        BY <1>0, <2>4 DEF Launched, DaemonStates
      <3> QED BY <1>0, <2>2, <3>1 DEF ReadInv, On
    <2> QED BY <2>1, <2>3, <2>4
  <1>3. CASE Quiet
    <2>1. given' = given
      BY <1>3 DEF Quiet, EditConfig, EditTray, EditAllow, RemoveKey, NoInstall,
            Command, install_to, rename, Abort, SkipRestart, write_config,
            write_empty_allowlist, ensure_linprov_group, write_systemd_unit,
            Decline, read_to_string, set_config_notifications_tray, cmdVars
    <2> QED BY <1>0, <1>3, <2>1, QuietDaemons DEF ReadInv, On
  <1> QED BY <1>1, <1>2, <1>3, StepKinds

\* ServiceAsAsked: if no write is torn and no save lost between a command's read
\* and its write, the service that runs is the one the operator was told of.
THEOREM ServiceTheorem ==
    ASSUME Faults \cap {"torn", "race"} = {}
    PROVE  Spec => []ServiceAsAsked
  <1>1. Init => AskedInv
    <2> SUFFICES ASSUME Init PROVE BuildInv /\ ConfigInv /\ ReadInv
      BY InitTypeInv DEF AskedInv
    <2>1. d[svc] = Off
      BY DEF Init, StartupInit, Daemons
    <2>2. ReadInv
      BY <2>1 DEF ReadInv, On, Off
    <2>3. /\ asked.build = None
          /\ asked.mode = IF config = None THEN None ELSE config.mode
          /\ asked.tray = (config # None /\ TrayOn(config))
      BY DEF Init, Nothing
    <2>4. config = None \/ config \in Configs
      BY DEF Init, Fresh, SetUp
    <2>5. cmd.text = None /\ cmd.pc = "idle"
      BY DEF Init, Idle
    <2>6. BuildInv
      BY <2>3, <2>5 DEF BuildInv
    <2>7. ConfigInv
      BY <2>3, <2>4, <2>5, ModeAssumption DEF ConfigInv
    <2> QED BY <2>2, <2>6, <2>7
  <1>2. AskedInv /\ [Next]_vars => AskedInv'
    <2>1. AskedInv /\ UNCHANGED vars => BuildInv' /\ ConfigInv' /\ ReadInv'
      BY DEF AskedInv, BuildInv, ConfigInv, ReadInv, On, vars, startupVars, disk, cmdVars
    <2> QED BY <2>1, TypeStep, BuildStep, ConfigStep, ReadStep DEF AskedInv
  <1>3. AskedInv => ServiceAsAsked
    BY DEF AskedInv, BuildInv, ReadInv, ServiceAsAsked
  <1> QED BY <1>1, <1>2, <1>3, PTL DEF Spec
=============================================================================
