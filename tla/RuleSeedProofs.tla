--------------------------- MODULE RuleSeedProofs ---------------------------
(***************************************************************************)
(* Proofs about RuleSeed, for every rule set, map size, set of allowlist   *)
(* contents and number of concurrent scans.                                *)
(***************************************************************************)
EXTENDS RuleSeed, TLAPS

\* While seed_rules writes, the slots below `next` already hold the new
\* sequence, slot `next` the fields copied so far, and all of the sequence
\* counts as configured.
WriteInv ==
    pc = "write" =>
        /\ next <= Min2(Len(rules), MAX_RULES)
        /\ Fitting(rules) \subseteq configured
        /\ \A i \in 0 .. next - 1 : ALLOW_RULES[i] = Whole(rules[i + 1])
        /\ copied # {} => next < Min2(Len(rules), MAX_RULES)
        /\ \A f \in copied : ALLOW_RULES[next][f] = rules[next + 1]

\* Every slot holds one whole rule, except the one being copied, which holds
\* the new rule in the fields copied so far and one old rule in the others.
SlotInv ==
    /\ copied # {} => pc = "write"
    /\ \A i \in Slots : \E r \in Rules \cup {NoRule} :
          \A f \in Fields :
              (i = next => f \notin copied) => ALLOW_RULES[i][f] = r

\* After a successful seeding the front of the map is the sequence seeded.
SeededInv ==
    pc = "idle" /\ reply.ok =>
        /\ ALLOW_RULE_COUNT = Min2(Len(rules), MAX_RULES)
        /\ \A i \in 0 .. ALLOW_RULE_COUNT - 1 : ALLOW_RULES[i] = Whole(rules[i + 1])

\* The transient rules are part of what is being, or was last, seeded.
TransientInv ==
    pc = "write" \/ (pc = "idle" /\ reply.ok) =>
        Range(transient) \subseteq Range(rules)

\* One scan: every field it may still read, and every one it has read of the
\* slot it is at, belongs to a rule it is entitled to; of the slots left
\* alone those already read do not match, and the one it is at holds what was
\* read of it; without an update all slots are left alone, and whole.
ScanInv ==
    \A c \in Checks :
        /\ scan[c].state = "run" =>
              /\ scan[c].i <= scan[c].n
              /\ \A j \in 0 .. scan[c].n - 1, f \in Fields :
                    ALLOW_RULES[j][f] \in scan[c].seen
              /\ \A j \in scan[c].kept :
                    /\ j < scan[c].n
                    /\ j < scan[c].i => ALLOW_RULES[j] \notin scan[c].want
              /\ \A f \in Fields \ scan[c].todo :
                    /\ scan[c].got[f] \in scan[c].seen
                    /\ scan[c].i \in scan[c].kept =>
                          scan[c].got[f] = ALLOW_RULES[scan[c].i][f]
              /\ ~scan[c].met =>
                    \A j \in 0 .. scan[c].n - 1 :
                        /\ j \in scan[c].kept
                        /\ \E r \in Rules \cup {NoRule} : ALLOW_RULES[j] = Whole(r)
        /\ scan[c].state = "permit" =>
              /\ scan[c].got \in scan[c].want
              /\ \A f \in Fields : scan[c].got[f] \in scan[c].seen
              /\ scan[c].met \/ \E r \in scan[c].seen : scan[c].got = Whole(r)
              /\ scan[c].i \in scan[c].kept => scan[c].got = ALLOW_RULES[scan[c].i]
        /\ scan[c].state = "deny" =>
              \A j \in scan[c].kept : ALLOW_RULES[j] \notin scan[c].want

IInv ==
    /\ TypeOK /\ NoStaleRule /\ WriteInv /\ SlotInv /\ SeededInv
    /\ TransientInv /\ ScanInv

-----------------------------------------------------------------------------
USE MaxRulesAssumption, FieldsAssumption

\* What seed_rules keeps of a list are rules.
LEMMA FittingType ==
    ASSUME NEW s \in Seq(Rules)
    PROVE  Fitting(s) \in SUBSET Rules
  BY DEF Fitting, Min2

\* Rules::load plus the transient rules is a sequence of rules.
LEMMA CombinedType ==
    ASSUME file \in Seq(Rules), transient \in Seq(Rules)
    PROVE  /\ combined \in Seq(Rules)
           /\ Range(transient) \subseteq Range(combined)
  <1>1. combined \in Seq(Rules)
    BY DEF combined
  <1>2. ASSUME NEW i \in DOMAIN transient
        PROVE  transient[i] \in Range(combined)
    <2>1. Len(file) + i \in DOMAIN combined /\ combined[Len(file) + i] = transient[i]
      BY DEF combined
    <2> QED BY <2>1 DEF Range
  <1> QED BY <1>1, <1>2 DEF Range

\* A slot of rules has its type.
LEMMA WholeType ==
    ASSUME NEW r \in Rules \cup {NoRule}
    PROVE  Whole(r) \in [Fields -> Rules \cup {NoRule}]
  BY DEF Whole

\* A scan that rests has its type.
LEMMA IdleType == Idle \in Scans
  BY WholeType DEF Idle, Scans

\* The program starts with the invariant.
LEMMA InitInv == Init => IInv
  <1> SUFFICES ASSUME Init PROVE IInv
    OBVIOUS
  <1>1. TypeOK
    BY FilesAssumption, IdleType, WholeType
    DEF Init, TypeOK, NoRequest, NoReply, Requests, Replies, Slots
  <1>2. NoStaleRule /\ WriteInv /\ SeededInv /\ TransientInv
    BY DEF Init, NoStaleRule, Effective, WriteInv, SeededInv, TransientInv, NoReply
  <1>3. SlotInv
    BY DEF Init, SlotInv, Whole
  <1>4. ScanInv
    BY DEF Init, ScanInv, Idle
  <1> QED BY <1>1, <1>2, <1>3, <1>4 DEF IInv

\* A request or signal taken up keeps every variable within its type.
LEMMA RequestTypes ==
    ASSUME NEW r \in Rules \cup {NoRule},
           NEW v \in {"none", "startup", "sighup", "allow", "once"}
    PROVE  /\ [verb |-> v, rule |-> r] \in Requests
           /\ [ok |-> FALSE, verb |-> v, rule |-> r] \in Replies
           /\ NoRequest \in Requests
           /\ NoReply \in Replies
  BY DEF Requests, Replies, NoRequest, NoReply

\* A request or signal taken up: neither the map nor a scan changes.
LEMMA RequestInv ==
    IInv /\ (Start \/ Sighup \/ \E r \in Rules : AllowPersistent(r) \/ AllowOnce(r))
        => IInv'
  <1> SUFFICES ASSUME IInv,
                      Start \/ Sighup \/ \E r \in Rules : AllowPersistent(r) \/ AllowOnce(r)
               PROVE  IInv'
    OBVIOUS
  <1> USE DEF IInv
  <1>1. /\ UNCHANGED <<rules, next, copied, scan, mapVars>>
        /\ pc # "write"
        /\ pc' = "load" \/ (pc' = "idle" /\ ~reply'.ok)
    BY DEF Start, Sighup, AllowPersistent, AllowOnce, Fail, Seeding, NoReply
  <1>2. TypeOK'
    <2>1. CASE Start \/ Sighup
      <3>1. /\ request' = [verb |-> "startup", rule |-> NoRule]
               \/ request' = [verb |-> "sighup", rule |-> NoRule]
            /\ reply' = reply \/ reply' = NoReply
            /\ UNCHANGED <<file, transient>>
        BY <2>1 DEF Start, Sighup
      <3>2. request' \in Requests /\ reply' \in Replies
        BY <3>1, RequestTypes DEF TypeOK
      <3> QED BY <1>1, <3>1, <3>2 DEF TypeOK, mapVars
    <2>2. ASSUME NEW r \in Rules, AllowPersistent(r) \/ AllowOnce(r)
          PROVE  TypeOK'
      <3>1. /\ request' = NoRequest \/ request' = [verb |-> "allow", rule |-> r]
               \/ request' = [verb |-> "once", rule |-> r]
            /\ reply' = NoReply \/ reply' = [ok |-> FALSE, verb |-> "allow", rule |-> r]
               \/ reply' = [ok |-> FALSE, verb |-> "once", rule |-> r]
        BY <2>2 DEF AllowPersistent, AllowOnce, Fail, Seeding
      <3>2. request' \in Requests /\ reply' \in Replies
        BY <3>1, RequestTypes
      <3>3. file' = file \/ (file \in Seq(Rules) /\ file' = Append(file, r))
        BY <2>2 DEF TypeOK, AllowPersistent, AllowOnce
      <3>4. transient' = transient \/ transient' = Append(transient, r)
        BY <2>2 DEF AllowPersistent, AllowOnce
      <3>5. file' \in Seq(Rules) \cup {Unreadable} /\ transient' \in Seq(Rules)
        <4>1. transient \in Seq(Rules) /\ file \in Seq(Rules) \cup {Unreadable}
          BY DEF TypeOK
        <4>2. Append(transient, r) \in Seq(Rules)
          BY <4>1
        <4>3. file \in Seq(Rules) => Append(file, r) \in Seq(Rules)
          OBVIOUS
        <4> QED BY <3>3, <3>4, <4>1, <4>2, <4>3
      <3> QED BY <1>1, <3>2, <3>5 DEF TypeOK, mapVars
    <2> QED BY <2>1, <2>2
  <1>3. NoStaleRule' /\ ScanInv'
    BY <1>1 DEF NoStaleRule, Effective, ScanInv, mapVars
  <1>5. SlotInv'
    BY <1>1 DEF SlotInv, mapVars
  <1>4. WriteInv' /\ SeededInv' /\ TransientInv'
    BY <1>1 DEF WriteInv, SeededInv, TransientInv
  <1> QED BY <1>2, <1>3, <1>4, <1>5

\* The state of a dead daemon satisfies the invariant.
LEMMA DownInv ==
    ASSUME TypeOK,
           pc' = "down", request' = NoRequest, reply' \in Replies,
           transient' = <<>>, rules' = <<>>, next' = 0, copied' = {},
           ALLOW_RULES' = [i \in Slots |-> Whole(NoRule)], ALLOW_RULE_COUNT' = 0,
           configured' = {}, scan' = [c \in Checks |-> Idle], file' = file
    PROVE  IInv'
  <1>1. TypeOK'
    BY IdleType, WholeType DEF TypeOK, NoRequest, Requests, Slots
  <1>2. NoStaleRule' /\ WriteInv' /\ SeededInv' /\ TransientInv'
    BY DEF NoStaleRule, Effective, WriteInv, SeededInv, TransientInv
  <1>3. ScanInv'
    BY DEF ScanInv, Idle
  <1>4. SlotInv'
    BY DEF SlotInv, Whole
  <1> QED BY <1>1, <1>2, <1>3, <1>4 DEF IInv

\* A seeding that fails, before or between slot writes.
LEMMA AbortInv ==
    IInv /\ (LoadFails \/ WriteFails) => IInv'
  <1> SUFFICES ASSUME IInv, LoadFails \/ WriteFails
               PROVE  IInv'
    OBVIOUS
  <1>0. Abort /\ next' = 0 /\ file' = file /\ copied = {} /\ copied' = {}
    BY DEF LoadFails, WriteFails, IInv, SlotInv
  <1>1. CASE request.verb = "startup"
    <2>1. reply' \in Replies
      BY <1>0, <1>1 DEF Abort, IInv, TypeOK
    <2> QED BY <1>0, <1>1, <2>1, DownInv DEF Abort, IInv
  <1>2. CASE request.verb # "startup"
    <2>1. /\ pc' = "idle" /\ request' = NoRequest
          /\ reply' = [ok |-> FALSE, verb |-> request.verb, rule |-> request.rule]
          /\ UNCHANGED <<transient, rules, scan, mapVars>>
      BY <1>0, <1>2 DEF Abort, Fail
    <2>2. TypeOK'
      BY <1>0, <2>1, NoRuleAssumption
      DEF IInv, TypeOK, NoRequest, Requests, Replies, mapVars
    <2>3. NoStaleRule' /\ ScanInv'
      BY <2>1 DEF IInv, NoStaleRule, Effective, ScanInv, mapVars
    <2>4. WriteInv' /\ SeededInv' /\ TransientInv'
      BY <2>1 DEF WriteInv, SeededInv, TransientInv
    <2>5. SlotInv'
      BY <1>0, <2>1 DEF IInv, SlotInv, mapVars
    <2> QED BY <2>2, <2>3, <2>4, <2>5 DEF IInv
  <1> QED BY <1>1, <1>2

\* The daemon dies at any point: nothing is enforced any more.
LEMMA CrashInv == IInv /\ Crash => IInv'
  <1> SUFFICES ASSUME IInv, Crash PROVE IInv'
    OBVIOUS
  <1>1. reply' \in Replies
    BY DEF Crash, NoReply, Replies
  <1> QED BY <1>1, DownInv DEF Crash, IInv

\* The file is read: what will be seeded becomes configured.
LEMMA LoadInv == IInv /\ Load => IInv'
  <1> SUFFICES ASSUME IInv, Load PROVE IInv'
    OBVIOUS
  <1>1. /\ combined \in Seq(Rules)
        /\ Range(transient) \subseteq Range(combined)
        /\ Fitting(combined) \in SUBSET Rules
    BY CombinedType, FittingType DEF IInv, TypeOK, Load
  <1>2. TypeOK'
    BY <1>1 DEF IInv, TypeOK, Load
  <1>3. NoStaleRule' /\ ScanInv'
    BY DEF IInv, NoStaleRule, Effective, ScanInv, Load
  <1>5. copied = {} /\ copied' = {}
    BY DEF IInv, SlotInv, Load
  <1>4. WriteInv' /\ SeededInv' /\ TransientInv'
    BY <1>1, <1>5 DEF IInv, WriteInv, SeededInv, TransientInv, Load, Fitting, Min2, Range
  <1>6. SlotInv'
    BY <1>5 DEF IInv, SlotInv, Load
  <1> QED BY <1>2, <1>3, <1>4, <1>6 DEF IInv

\* What copying one field leaves in the slots.
LEMMA CopySlots ==
    ASSUME IInv, NEW f \in Fields, Write(f)
    PROVE  /\ rules[next + 1] \in Rules /\ rules[next + 1] \in Fitting(rules)
           /\ next \in Slots
           /\ ALLOW_RULES' \in [Slots -> [Fields -> Rules \cup {NoRule}]]
           /\ ALLOW_RULES'[next] = [ALLOW_RULES[next] EXCEPT ![f] = rules[next + 1]]
           /\ ALLOW_RULES'[next][f] = rules[next + 1]
           /\ \A g \in Fields \ {f} : ALLOW_RULES'[next][g] = ALLOW_RULES[next][g]
           /\ \A i \in Slots \ {next} : ALLOW_RULES'[i] = ALLOW_RULES[i]
  <1>1. /\ rules \in Seq(Rules) /\ next \in Nat /\ next < Min2(Len(rules), MAX_RULES)
        /\ ALLOW_RULES \in [Slots -> [Fields -> Rules \cup {NoRule}]]
    BY DEF IInv, TypeOK, Write
  <1>2. rules[next + 1] \in Rules /\ next \in Slots
        /\ rules[next + 1] \in Fitting(rules)
    BY <1>1 DEF Min2, Slots, Fitting
  <1>3. ALLOW_RULES' = [ALLOW_RULES EXCEPT ![next] =
                           [ALLOW_RULES[next] EXCEPT ![f] = rules[next + 1]]]
    BY DEF Write, Copy
  <1>4. [ALLOW_RULES[next] EXCEPT ![f] = rules[next + 1]]
            \in [Fields -> Rules \cup {NoRule}]
    BY <1>1, <1>2
  <1>5. /\ ALLOW_RULES' \in [Slots -> [Fields -> Rules \cup {NoRule}]]
        /\ ALLOW_RULES'[next] = [ALLOW_RULES[next] EXCEPT ![f] = rules[next + 1]]
        /\ \A i \in Slots \ {next} : ALLOW_RULES'[i] = ALLOW_RULES[i]
    BY <1>1, <1>2, <1>3, <1>4
  <1>6. /\ ALLOW_RULES'[next][f] = rules[next + 1]
        /\ \A g \in Fields \ {f} : ALLOW_RULES'[next][g] = ALLOW_RULES[next][g]
    BY <1>1, <1>2, <1>5
  <1> QED BY <1>2, <1>5, <1>6

\* What it does to a scan in flight.
LEMMA CopyScan ==
    ASSUME IInv, NEW f \in Fields, Write(f), NEW c \in Checks,
           scan[c].state # "idle"
    PROVE  /\ scan'[c].state = scan[c].state /\ scan'[c].want = scan[c].want
           /\ scan'[c].n = scan[c].n /\ scan'[c].i = scan[c].i
           /\ scan'[c].todo = scan[c].todo /\ scan'[c].got = scan[c].got
           /\ scan'[c].seen = scan[c].seen \cup {rules[next + 1]}
           /\ scan'[c].kept \in SUBSET scan[c].kept
           /\ scan'[c].met = TRUE
           /\ scan'[c] \in Scans
           /\ \A j \in scan'[c].kept : ALLOW_RULES'[j] = ALLOW_RULES[j]
  <1> DEFINE r == rules[next + 1]
             k == IF ALLOW_RULES[next][f] = r THEN scan[c].kept
                  ELSE scan[c].kept \ {next}
  <1>0. scan[c] \in Scans
    BY DEF IInv, TypeOK
  <1>1. scan'[c] =
          [state |-> scan[c].state, want |-> scan[c].want, n |-> scan[c].n,
           i |-> scan[c].i, todo |-> scan[c].todo, got |-> scan[c].got,
           seen |-> scan[c].seen \cup {r}, kept |-> k, met |-> TRUE]
    BY DEF Write, Copy, Observe
  <1>2. k \in SUBSET scan[c].kept /\ k \in SUBSET Slots
    BY <1>0 DEF Scans
  <1>3. r \in Rules
    BY CopySlots
  <1>4. ASSUME NEW j \in k PROVE ALLOW_RULES'[j] = ALLOW_RULES[j]
    <2>1. CASE j # next
      BY <1>2, <2>1, CopySlots
    <2>2. CASE j = next
      <3>1. ALLOW_RULES[next][f] = r
        BY <2>2
      <3>2. ALLOW_RULES[next] \in [Fields -> Rules \cup {NoRule}]
        BY CopySlots DEF IInv, TypeOK
      <3>3. ALLOW_RULES'[next] = [ALLOW_RULES[next] EXCEPT ![f] = r]
        BY CopySlots
      <3>4. [ALLOW_RULES[next] EXCEPT ![f] = r] = ALLOW_RULES[next]
        BY <3>1, <3>2
      <3> QED BY <2>2, <3>3, <3>4
    <2> QED BY <2>1, <2>2
  <1> HIDE DEF k, r
  <1>5. scan'[c] \in Scans
    BY <1>0, <1>1, <1>2, <1>3 DEF Scans
  <1>6. scan'[c].seen = scan[c].seen \cup {rules[next + 1]}
    BY <1>1 DEF r
  <1> QED BY <1>1, <1>2, <1>4, <1>5, <1>6

\* One field is copied: its rule is configured, and every scan in flight is
\* told of it.
LEMMA WriteStepInv ==
    ASSUME NEW f \in Fields
    PROVE  IInv /\ Write(f) => IInv'
  <1> SUFFICES ASSUME IInv, Write(f) PROVE IInv'
    OBVIOUS
  <1> DEFINE r == rules[next + 1]
  <1>1. /\ rules \in Seq(Rules) /\ next \in Nat /\ r \in Rules
        /\ next < Min2(Len(rules), MAX_RULES) /\ next \in Slots /\ pc = "write"
        /\ r \in Fitting(rules) /\ f \notin copied /\ copied \in SUBSET Fields
        /\ next <= MAX_RULES - 1
    <2>1. /\ rules \in Seq(Rules) /\ next \in Nat /\ copied \in SUBSET Fields
          /\ next < Min2(Len(rules), MAX_RULES) /\ pc = "write" /\ f \notin copied
      BY DEF IInv, TypeOK, Write
    <2>2. next <= MAX_RULES - 1
      BY <2>1 DEF Min2
    <2>3. r \in Rules /\ r \in Fitting(rules) /\ next \in Slots
      BY CopySlots
    <2> QED BY <2>1, <2>2, <2>3
  <1>0. \A g \in copied \cup {f} : ALLOW_RULES'[next][g] = r
    <2>1. ASSUME NEW g \in copied PROVE g \in Fields \ {f} /\ ALLOW_RULES[next][g] = r
      BY <1>1, <2>1 DEF IInv, WriteInv
    <2>2. /\ ALLOW_RULES'[next][f] = r
          /\ \A g \in Fields \ {f} : ALLOW_RULES'[next][g] = ALLOW_RULES[next][g]
      BY CopySlots
    <2> HIDE DEF r
    <2> QED BY <2>1, <2>2
  <1>2. \/ copied \cup {f} = Fields /\ next' = next + 1 /\ copied' = {}
        \/ copied \cup {f} # Fields /\ next' = next /\ copied' = copied \cup {f}
    BY DEF Write, Copy
  <1>3. UNCHANGED <<file, transient, ALLOW_RULE_COUNT, pc, request, rules, reply,
                    configured>>
    BY DEF Write
  <1>4. ASSUME NEW c \in Checks, scan[c].state = "idle" PROVE scan'[c] = scan[c]
    BY <1>4 DEF Write, Copy, Observe
  <1>5. TypeOK'
    <2>1. scan' \in [Checks -> Scans]
      <3>1. \A c \in Checks : scan'[c] \in Scans
        BY <1>4, CopyScan DEF IInv, TypeOK
      <3>2. scan' = [c \in Checks |-> scan'[c]]
        BY DEF Write, Copy, Observe
      <3> QED BY <3>1, <3>2
    <2>2. next' \in 0 .. MAX_RULES /\ copied' \in SUBSET Fields
      BY <1>1, <1>2
    <2> QED BY <1>3, <2>1, <2>2, CopySlots DEF IInv, TypeOK
  <1>6. NoStaleRule'
    <2> SUFFICES ASSUME NEW i \in 0 .. ALLOW_RULE_COUNT - 1, NEW g \in Fields
                 PROVE  ALLOW_RULES'[i][g] \in configured
      BY <1>3 DEF NoStaleRule, Effective
    <2>1. i \in Slots /\ ALLOW_RULES[i][g] \in configured
      BY DEF IInv, NoStaleRule, Effective, TypeOK, Slots
    <2>2. r \in configured
      BY <1>1 DEF IInv, WriteInv
    <2>3. ALLOW_RULES'[i][g] = ALLOW_RULES[i][g] \/ ALLOW_RULES'[i][g] = r
      BY <2>1, CopySlots
    <2> QED BY <2>1, <2>2, <2>3
  <1>7. WriteInv'
    <2>1. /\ next' <= Min2(Len(rules), MAX_RULES)
          /\ copied' # {} => next' < Min2(Len(rules), MAX_RULES)
          /\ Fitting(rules) \subseteq configured
      BY <1>1, <1>2 DEF IInv, WriteInv, Min2
    <2>2. \A g \in copied \cup {f} : ALLOW_RULES'[next][g] = r
      BY <1>0
    <2>3. \A i \in 0 .. next - 1 : ALLOW_RULES'[i] = Whole(rules[i + 1])
      <3>1. ASSUME NEW i \in 0 .. next - 1
            PROVE  i \in Slots \ {next} /\ ALLOW_RULES[i] = Whole(rules[i + 1])
        BY <1>1 DEF IInv, WriteInv, Slots
      <3> QED BY <3>1, CopySlots
    <2>4. CASE copied \cup {f} = Fields /\ next' = next + 1 /\ copied' = {}
      <3>1. ALLOW_RULES'[next] = Whole(r)
        <4>1. ALLOW_RULES'[next] \in [Fields -> Rules \cup {NoRule}]
          BY CopySlots
        <4> QED BY <2>2, <2>4, <4>1 DEF Whole
      <3>2. ASSUME NEW i \in 0 .. next' - 1
            PROVE  ALLOW_RULES'[i] = Whole(rules[i + 1])
        <4>1. i \in 0 .. next - 1 \/ i = next
          BY <1>1, <2>4
        <4> QED BY <2>3, <3>1, <4>1
      <3> QED BY <1>3, <2>1, <2>4, <3>2 DEF WriteInv
    <2>5. CASE next' = next /\ copied' = copied \cup {f}
      BY <1>3, <2>1, <2>2, <2>3, <2>5 DEF WriteInv
    <2> QED BY <1>2, <2>4, <2>5
  <1>8. SlotInv'
    <2>1. (copied' # {} => pc' = "write")
      BY <1>1, <1>3
    <2>2. ASSUME NEW i \in Slots
          PROVE  \E q \in Rules \cup {NoRule} : \A g \in Fields :
                    (i = next' => g \notin copied') => ALLOW_RULES'[i][g] = q
      <3>0. PICK q \in Rules \cup {NoRule} : \A g \in Fields :
               (i = next => g \notin copied) => ALLOW_RULES[i][g] = q
        BY DEF IInv, SlotInv
      <3>1. CASE i # next
        <4>1. \A g \in Fields : ALLOW_RULES'[i][g] = q
          BY <3>0, <3>1, CopySlots
        <4> QED BY <4>1
      <3>2. CASE i = next /\ copied \cup {f} = Fields
        <4> QED BY <1>0, <1>1, <3>2
      <3>3. CASE i = next /\ copied \cup {f} # Fields
        <4>1. next' = next /\ copied' = copied \cup {f}
          BY <1>2, <3>3
        <4>2. \A g \in Fields : g \notin copied' => ALLOW_RULES'[next][g] = q
          BY <3>0, <3>3, <4>1, CopySlots
        <4> QED BY <3>0, <3>3, <4>1, <4>2
      <3> QED BY <3>1, <3>2, <3>3
    <2> QED BY <2>1, <2>2 DEF SlotInv
  <1>9. SeededInv' /\ TransientInv'
    BY <1>1, <1>3 DEF IInv, SeededInv, TransientInv
  <1>10. ScanInv'
    <2> SUFFICES ASSUME NEW c \in Checks
                 PROVE  ScanInv!(c)'
      BY DEF ScanInv
    <2>0. scan[c] \in Scans /\ ScanInv!(c)
      BY DEF IInv, TypeOK, ScanInv
    <2>1. CASE scan[c].state = "idle"
      <3>1. scan'[c].state = "idle"
        BY <1>4, <2>1
      <3> QED BY <3>1
    <2>2. CASE scan[c].state # "idle"
      <3>1. /\ scan'[c].state = scan[c].state /\ scan'[c].want = scan[c].want
            /\ scan'[c].n = scan[c].n /\ scan'[c].i = scan[c].i
            /\ scan'[c].todo = scan[c].todo /\ scan'[c].got = scan[c].got
            /\ scan'[c].seen = scan[c].seen \cup {r}
            /\ scan'[c].kept \in SUBSET scan[c].kept
            /\ scan'[c].met = TRUE
            /\ \A j \in scan'[c].kept : ALLOW_RULES'[j] = ALLOW_RULES[j]
        BY <2>2, CopyScan
      <3>2. ASSUME NEW j \in 0 .. scan[c].n - 1, NEW g \in Fields, scan[c].state = "run"
            PROVE  ALLOW_RULES'[j][g] \in scan'[c].seen
        <4>1. j \in Slots /\ ALLOW_RULES[j][g] \in scan[c].seen
          BY <2>0, <3>2 DEF Scans, Slots
        <4>2. ALLOW_RULES'[j][g] = ALLOW_RULES[j][g] \/ ALLOW_RULES'[j][g] = r
          BY <4>1, CopySlots
        <4> QED BY <3>1, <4>1, <4>2
      <3> HIDE DEF r
      <3>3. CASE scan[c].state = "run"
        BY <2>0, <3>1, <3>2, <3>3
      <3>4. CASE scan[c].state \in {"permit", "deny"}
        BY <2>0, <3>1, <3>4
      <3> QED BY <2>0, <2>2, <3>3, <3>4 DEF Scans
    <2> QED BY <2>1, <2>2
  <1> QED BY <1>5, <1>6, <1>7, <1>8, <1>9, <1>10 DEF IInv

\* The count is written: the slots below it are the new sequence.
LEMMA CountInv == IInv /\ Count => IInv'
  <1> SUFFICES ASSUME IInv, Count PROVE IInv'
    OBVIOUS
  <1>1. /\ rules \in Seq(Rules)
        /\ \A i \in 0 .. Min2(Len(rules), MAX_RULES) - 1 :
              ALLOW_RULES[i] = Whole(rules[i + 1])
        /\ Min2(Len(rules), MAX_RULES) \in 0 .. MAX_RULES
        /\ copied = {} /\ copied' = {}
    BY DEF IInv, TypeOK, WriteInv, Count, Min2
  <1>2. TypeOK'
    BY <1>1, FittingType, NoRuleAssumption
    DEF IInv, TypeOK, Count, NoRequest, Requests, Replies
  <1>3. NoStaleRule'
    <2> DEFINE m == Min2(Len(rules), MAX_RULES)
    <2>1. ASSUME NEW i \in 0 .. m - 1, NEW f \in Fields
          PROVE  ALLOW_RULES[i][f] \in Fitting(rules)
      <3>1. i + 1 \in 1 .. m /\ ALLOW_RULES[i] = Whole(rules[i + 1])
        BY <1>1
      <3>2. ALLOW_RULES[i][f] = rules[i + 1]
        BY <3>1 DEF Whole
      <3> QED BY <3>1, <3>2 DEF Fitting
    <2> QED BY <2>1 DEF NoStaleRule, Effective, Count
  <1>4. WriteInv' /\ SeededInv' /\ TransientInv' /\ ScanInv'
    BY <1>1 DEF IInv, WriteInv, SeededInv, TransientInv, ScanInv, Count
  <1>5. SlotInv'
    BY <1>1 DEF IInv, SlotInv, Count
  <1> QED BY <1>2, <1>3, <1>4, <1>5 DEF IInv

\* The operator edits list.allow: the kernel map does not notice.
LEMMA EditInv == IInv /\ Edit => IInv'
  <1> SUFFICES ASSUME IInv, Edit PROVE IInv'
    OBVIOUS
  <1>1. TypeOK'
    BY FilesAssumption DEF IInv, TypeOK, Edit, mapVars
  <1>2. NoStaleRule' /\ WriteInv' /\ SlotInv' /\ SeededInv' /\ TransientInv'
    BY DEF IInv, NoStaleRule, Effective, WriteInv, SlotInv, SeededInv, TransientInv,
           Edit, mapVars
  <1>3. ScanInv'
    BY DEF IInv, ScanInv, Edit, mapVars
  <1> QED BY <1>1, <1>2, <1>3 DEF IInv

\* While nothing is being copied every slot holds one whole rule.
LEMMA WholeSlots ==
    ASSUME IInv, copied = {}, NEW i \in Slots
    PROVE  \E r \in Rules \cup {NoRule} : ALLOW_RULES[i] = Whole(r)
  <1>1. PICK r \in Rules \cup {NoRule} : \A f \in Fields : ALLOW_RULES[i][f] = r
    BY DEF IInv, SlotInv
  <1>2. ALLOW_RULES[i] \in [Fields -> Rules \cup {NoRule}]
    BY DEF IInv, TypeOK
  <1> QED BY <1>1, <1>2 DEF Whole

\* A scan starts: what is enforced now is what it may meet.
LEMMA CheckStartInv ==
    ASSUME NEW c \in Checks, NEW want \in Wants
    PROVE  IInv /\ CheckStart(c, want) => IInv'
  <1> SUFFICES ASSUME IInv, CheckStart(c, want) PROVE IInv'
    OBVIOUS
  <1> DEFINE m == Min2(ALLOW_RULE_COUNT, MAX_RULES)
             s == [state |-> IF m = 0 THEN "deny" ELSE "run", want |-> want,
                   n |-> m, i |-> 0, todo |-> Fields, got |-> Whole(NoRule),
                   seen |-> Effective, kept |-> 0 .. m - 1, met |-> pc = "write"]
  <1>1. /\ m \in 0 .. MAX_RULES /\ m = ALLOW_RULE_COUNT
        /\ want \in SUBSET [Fields -> Rules]
        /\ Effective \in SUBSET (Rules \cup {NoRule})
        /\ 0 .. m - 1 \in SUBSET Slots
    <2>1. m \in 0 .. MAX_RULES /\ m = ALLOW_RULE_COUNT
      BY DEF IInv, TypeOK, Min2
    <2>2. want \in SUBSET [Fields -> Rules]
      BY WantsAssumption
    <2>3. 0 .. m - 1 \in SUBSET Slots
      BY <2>1 DEF Slots
    <2>4. Effective \in SUBSET (Rules \cup {NoRule})
      BY <2>1, <2>3 DEF IInv, TypeOK, Effective
    <2> QED BY <2>1, <2>2, <2>3, <2>4
  <1>2. s \in Scans
    <2> HIDE DEF m
    <2> QED BY <1>1, WholeType DEF Scans
  <1>3. scan' = [scan EXCEPT ![c] = s]
    BY DEF CheckStart
  <1>4. TypeOK'
    BY <1>2, <1>3 DEF IInv, TypeOK, CheckStart, mapVars
  <1>5. NoStaleRule' /\ WriteInv' /\ SlotInv' /\ SeededInv' /\ TransientInv'
    BY DEF IInv, NoStaleRule, Effective, WriteInv, SlotInv, SeededInv, TransientInv,
           CheckStart, mapVars
  <1>6. ScanInv'
    <2> SUFFICES ASSUME NEW d \in Checks PROVE ScanInv!(d)'
      BY DEF ScanInv
    <2>0. ALLOW_RULES' = ALLOW_RULES
      BY DEF CheckStart, mapVars
    <2>1. CASE d # c
      BY <1>3, <2>0, <2>1 DEF IInv, TypeOK, ScanInv
    <2>2. CASE d = c
      <3>1. scan'[d] = s
        BY <1>3, <2>2 DEF IInv, TypeOK
      <3>2. \A j \in 0 .. m - 1, f \in Fields : ALLOW_RULES[j][f] \in Effective
        BY <1>1 DEF Effective
      <3>3. m = 0 => 0 .. m - 1 = {}
        BY <1>1
      <3>4. pc # "write" =>
              \A j \in 0 .. m - 1 :
                  \E r \in Rules \cup {NoRule} : ALLOW_RULES[j] = Whole(r)
        <4>1. pc # "write" => copied = {}
          BY DEF IInv, SlotInv
        <4> QED BY <1>1, <4>1, WholeSlots
      <3>5. /\ scan'[d].state = IF m = 0 THEN "deny" ELSE "run"
            /\ scan'[d].want = want /\ scan'[d].n = m /\ scan'[d].i = 0
            /\ scan'[d].todo = Fields /\ scan'[d].seen = Effective
            /\ scan'[d].kept = 0 .. m - 1 /\ scan'[d].met = (pc = "write")
        <4> HIDE DEF m
        <4> QED BY <3>1
      <3> HIDE DEF m, s
      <3>6. CASE m = 0
        BY <2>0, <3>3, <3>5, <3>6
      <3>7. CASE m # 0
        <4>1. m \in Nat /\ 0 <= m /\ (\A j \in 0 .. m - 1 : j < m /\ ~(j < 0))
          BY <1>1
        <4>2. scan'[d].state = "run"
          BY <3>5, <3>7
        <4> QED BY <2>0, <3>2, <3>4, <3>5, <4>1, <4>2
      <3> QED BY <3>6, <3>7
    <2> QED BY <2>1, <2>2
  <1> QED BY <1>4, <1>5, <1>6 DEF IInv

\* What judging by the fields read makes of a scan.
LEMMA JudgeFacts ==
    ASSUME NEW s \in Scans, s.state = "run", s.i + 1 <= MAX_RULES,
           NEW got \in [Fields -> Rules \cup {NoRule}], NEW todo \in SUBSET Fields,
           NEW t, t = Judge(s, got, todo)
    PROVE  /\ t \in Scans
           /\ t.want = s.want /\ t.seen = s.seen /\ t.kept = s.kept
           /\ t.met = s.met /\ t.n = s.n
           /\ \/ /\ todo = {} /\ got \in s.want
                 /\ t.state = "permit" /\ t.i = s.i /\ t.got = got
              \/ /\ todo = {} /\ got \notin s.want
                 /\ t.state = "run" /\ t.i = s.i + 1 /\ t.todo = Fields
              \/ /\ todo # {}
                 /\ t.state = "run" /\ t.i = s.i /\ t.todo = todo /\ t.got = got
  <1>0. s.i \in 0 .. MAX_RULES /\ s.i + 1 \in 0 .. MAX_RULES
    BY DEF Scans
  <1>1. CASE todo = {} /\ got \in s.want
    <2>1. t = [state |-> "permit", want |-> s.want, n |-> s.n, i |-> s.i, todo |-> todo,
               got |-> got, seen |-> s.seen, kept |-> s.kept, met |-> s.met]
      BY <1>1 DEF Judge
    <2>2. t \in Scans
      BY <2>1 DEF Scans
    <2>3. /\ t.want = s.want /\ t.seen = s.seen /\ t.kept = s.kept /\ t.n = s.n
          /\ t.state = "permit" /\ t.i = s.i /\ t.got = got
      BY <2>1
    <2>4. t.met = s.met
      BY <2>1
    <2> QED BY <1>1, <2>2, <2>3, <2>4
  <1>2. CASE todo = {} /\ got \notin s.want
    <2>1. t = [state |-> "run", want |-> s.want, n |-> s.n, i |-> s.i + 1, todo |-> Fields,
               got |-> Whole(NoRule), seen |-> s.seen, kept |-> s.kept, met |-> s.met]
      BY <1>2 DEF Judge
    <2>2. t \in Scans
      BY <1>0, <2>1, WholeType DEF Scans
    <2>3. /\ t.want = s.want /\ t.seen = s.seen /\ t.kept = s.kept /\ t.n = s.n
          /\ t.state = "run" /\ t.i = s.i + 1 /\ t.todo = Fields
      BY <2>1
    <2>4. t.met = s.met
      BY <2>1
    <2> QED BY <1>2, <2>2, <2>3, <2>4
  <1>3. CASE todo # {}
    <2>1. t = [state |-> "run", want |-> s.want, n |-> s.n, i |-> s.i, todo |-> todo,
               got |-> got, seen |-> s.seen, kept |-> s.kept, met |-> s.met]
      BY <1>3 DEF Judge
    <2>2. t \in Scans
      BY <2>1 DEF Scans
    <2>3. /\ t.want = s.want /\ t.seen = s.seen /\ t.kept = s.kept /\ t.n = s.n
          /\ t.state = "run" /\ t.i = s.i /\ t.todo = todo /\ t.got = got
      BY <2>1
    <2>4. t.met = s.met
      BY <2>1
    <2> QED BY <1>3, <2>2, <2>3, <2>4
  <1> QED BY <1>1, <1>2, <1>3

\* What scan c has read of its slot once it reads field f.
Got(c, f) == [scan[c].got EXCEPT ![f] = ALLOW_RULES[scan[c].i][f]]

\* It is what the slot holds, as far as that was left alone.
LEMMA ReadField ==
    ASSUME IInv, NEW c \in Checks, scan[c].state = "run", scan[c].i < scan[c].n,
           NEW f \in scan[c].todo
    PROVE  /\ Got(c, f) \in [Fields -> Rules \cup {NoRule}]
           /\ scan[c].todo \ {f} \in SUBSET Fields
           /\ \A g \in Fields \ (scan[c].todo \ {f}) :
                 /\ Got(c, f)[g] \in scan[c].seen
                 /\ scan[c].i \in scan[c].kept =>
                       Got(c, f)[g] = ALLOW_RULES[scan[c].i][g]
           /\ scan[c].todo \ {f} = {} /\ scan[c].i \in scan[c].kept =>
                 Got(c, f) = ALLOW_RULES[scan[c].i]
  <1> DEFINE s == scan[c]
             got == Got(c, f)
             todo == s.todo \ {f}
  <1>s. ScanInv!(c)
    BY DEF IInv, ScanInv
  <1>0. /\ s.i \in 0 .. s.n - 1 /\ f \in Fields
        /\ ALLOW_RULES[s.i] \in [Fields -> Rules \cup {NoRule}]
        /\ s.got \in [Fields -> Rules \cup {NoRule}] /\ s.todo \in SUBSET Fields
    <2>1. s \in Scans
      BY DEF IInv, TypeOK
    <2>2. s.i \in Nat /\ s.n \in 0 .. MAX_RULES /\ s.i < s.n
          /\ s.got \in [Fields -> Rules \cup {NoRule}] /\ s.todo \in SUBSET Fields
      BY <2>1 DEF Scans
    <2>3. s.i \in Slots /\ f \in Fields /\ s.i \in 0 .. s.n - 1
      BY <2>2 DEF Slots
    <2>4. ALLOW_RULES[s.i] \in [Fields -> Rules \cup {NoRule}]
      BY <2>3 DEF IInv, TypeOK
    <2> QED BY <2>2, <2>3, <2>4
  <1>1. /\ got \in [Fields -> Rules \cup {NoRule}] /\ got[f] = ALLOW_RULES[s.i][f]
        /\ \A g \in Fields \ {f} : got[g] = s.got[g]
    BY <1>0 DEF Got
  <1> HIDE DEF got
  <1>2. \A g \in Fields \ todo :
            got[g] \in s.seen /\ (s.i \in s.kept => got[g] = ALLOW_RULES[s.i][g])
    <2>1. ALLOW_RULES[s.i][f] \in s.seen
      BY <1>0, <1>s
    <2>2. ASSUME NEW g \in Fields \ s.todo
          PROVE  s.got[g] \in s.seen /\ (s.i \in s.kept => s.got[g] = ALLOW_RULES[s.i][g])
      BY <1>0, <1>s
    <2> QED BY <1>0, <1>1, <2>1, <2>2
  <1>3. todo = {} /\ s.i \in s.kept => got = ALLOW_RULES[s.i]
    BY <1>0, <1>1, <1>2
  <1> QED BY <1>0, <1>1, <1>2, <1>3 DEF got

\* One field is read, and with the last of a slot the rule is judged.
LEMMA StepInv ==
    ASSUME NEW c \in Checks
    PROVE  IInv /\ allow_step(c) => IInv'
  <1> SUFFICES ASSUME IInv, allow_step(c) PROVE IInv'
    OBVIOUS
  <1> DEFINE s == scan[c]
  <1>0. s \in Scans /\ s.state = "run" /\ s.i <= s.n /\ ScanInv!(c)
    BY DEF IInv, TypeOK, ScanInv, allow_step
  <1>a. ALLOW_RULES' = ALLOW_RULES
    BY DEF allow_step, mapVars
  <1>1. ASSUME NEW t, scan' = [scan EXCEPT ![c] = t], t \in Scans, ScanInv!(c)'
        PROVE  scan' \in [Checks -> Scans] /\ ScanInv'
    <2>1. scan' \in [Checks -> Scans]
      BY <1>1 DEF IInv, TypeOK
    <2>2. ASSUME NEW d \in Checks, d # c PROVE ScanInv!(d)'
      <3>1. scan'[d] = scan[d]
        BY <1>1, <2>2 DEF IInv, TypeOK
      <3> QED BY <1>a, <3>1 DEF IInv, ScanInv
    <2>3. \A d \in Checks : ScanInv!(d)'
      BY <1>1, <2>2
    <2> QED BY <2>1, <2>3 DEF ScanInv
  <1>2. scan' \in [Checks -> Scans] /\ ScanInv'
    <2>1. CASE s.i >= s.n /\ scan' = [scan EXCEPT ![c].state = "deny"]
      <3> DEFINE t == [s EXCEPT !.state = "deny"]
      <3>1. scan' = [scan EXCEPT ![c] = t]
        BY <2>1
      <3>2. t \in Scans /\ t.state = "deny" /\ t.kept = s.kept /\ t.want = s.want
        BY <1>0 DEF Scans
      <3>3. \A j \in s.kept : ALLOW_RULES[j] \notin s.want
        BY <1>0, <2>1 DEF Scans, Slots
      <3>4. scan'[c] = t
        BY <3>1 DEF IInv, TypeOK
      <3> HIDE DEF s, t
      <3>5. ScanInv!(c)'
        BY <1>a, <3>2, <3>3, <3>4
      <3> QED BY <1>1, <3>1, <3>2, <3>5
    <2>2. ASSUME s.i < s.n, NEW f \in s.todo,
                 scan' = [scan EXCEPT ![c] =
                     Judge(s, [s.got EXCEPT ![f] = ALLOW_RULES[s.i][f]], s.todo \ {f})]
          PROVE  scan' \in [Checks -> Scans] /\ ScanInv'
      <3>1. PICK got : got = Got(c, f)
        OBVIOUS
      <3>2. PICK todo : todo = s.todo \ {f}
        OBVIOUS
      <3>3. PICK t : t = Judge(s, got, todo)
        OBVIOUS
      <3>4. scan' = [scan EXCEPT ![c] = t] /\ scan'[c] = t
        BY <2>2, <3>1, <3>2, <3>3 DEF IInv, TypeOK, Got
      <3>a. s.state = "run"
        BY <1>0
      <3>5. /\ got \in [Fields -> Rules \cup {NoRule}] /\ todo \in SUBSET Fields
            /\ \A g \in Fields \ todo :
                  /\ got[g] \in s.seen
                  /\ s.i \in s.kept => got[g] = ALLOW_RULES[s.i][g]
            /\ todo = {} /\ s.i \in s.kept => got = ALLOW_RULES[s.i]
        BY <2>2, <3>a, <3>1, <3>2, ReadField
      <3>6. s.i \in Nat /\ s.n \in Nat /\ s.i \in 0 .. s.n - 1 /\ s.i + 1 <= MAX_RULES
            /\ s.kept \in SUBSET Slots
        BY <1>0, <2>2 DEF Scans
      <3>7. /\ t \in Scans
            /\ t.want = s.want /\ t.seen = s.seen /\ t.kept = s.kept
            /\ t.met = s.met /\ t.n = s.n
            /\ \/ /\ todo = {} /\ got \in s.want
                  /\ t.state = "permit" /\ t.i = s.i /\ t.got = got
               \/ /\ todo = {} /\ got \notin s.want
                  /\ t.state = "run" /\ t.i = s.i + 1 /\ t.todo = Fields
               \/ /\ todo # {}
                  /\ t.state = "run" /\ t.i = s.i /\ t.todo = todo /\ t.got = got
        BY <1>0, <3>3, <3>5, <3>6, JudgeFacts
      <3>8. CASE todo = {} /\ got \in s.want /\ t.state = "permit" /\ t.i = s.i /\ t.got = got
        <4>1. s.met \/ \E r \in s.seen : got = Whole(r)
          <5> SUFFICES ASSUME ~s.met PROVE \E r \in s.seen : got = Whole(r)
            OBVIOUS
          <5>1. s.i \in s.kept /\ \E r \in Rules \cup {NoRule} : ALLOW_RULES[s.i] = Whole(r)
            BY <1>0, <3>6
          <5>2. PICK r \in Rules \cup {NoRule} : got = Whole(r)
            BY <3>5, <3>8, <5>1
          <5>3. PICK g \in Fields : TRUE
            OBVIOUS
          <5>4. got[g] = r
            BY <5>2 DEF Whole
          <5> QED BY <3>5, <3>8, <5>2, <5>4
        <4> HIDE DEF s
        <4>2. ScanInv!(c)'
          BY <1>a, <3>4, <3>5, <3>7, <3>8, <4>1
        <4> QED BY <1>1, <3>4, <3>7, <4>2
      <3>9. CASE todo = {} /\ got \notin s.want /\ t.state = "run" /\ t.i = s.i + 1 /\ t.todo = Fields
        <4>1. \A j \in s.kept : j < s.n /\ (j < s.i + 1 => ALLOW_RULES[j] \notin s.want)
          BY <1>0, <3>5, <3>6, <3>9 DEF Slots
        <4>2. /\ s.i + 1 <= s.n
              /\ \A j \in 0 .. s.n - 1, g \in Fields : ALLOW_RULES[j][g] \in s.seen
              /\ ~s.met => \A j \in 0 .. s.n - 1 :
                    j \in s.kept /\ \E r \in Rules \cup {NoRule} : ALLOW_RULES[j] = Whole(r)
          BY <1>0, <3>6
        <4> HIDE DEF s
        <4>3. ScanInv!(c)'
          BY <1>a, <3>4, <3>7, <3>9, <4>1, <4>2
        <4> QED BY <1>1, <3>4, <3>7, <4>3
      <3>10. CASE todo # {} /\ t.state = "run" /\ t.i = s.i /\ t.todo = todo /\ t.got = got
        <4>1. /\ s.i <= s.n
              /\ \A j \in 0 .. s.n - 1, g \in Fields : ALLOW_RULES[j][g] \in s.seen
              /\ \A j \in s.kept : j < s.n /\ (j < s.i => ALLOW_RULES[j] \notin s.want)
              /\ ~s.met => \A j \in 0 .. s.n - 1 :
                    j \in s.kept /\ \E r \in Rules \cup {NoRule} : ALLOW_RULES[j] = Whole(r)
          BY <1>0, <3>6
        <4> HIDE DEF s
        <4>2. ScanInv!(c)'
          BY <1>a, <3>4, <3>5, <3>7, <3>10, <4>1
        <4> QED BY <1>1, <3>4, <3>7, <4>2
      <3> QED BY <3>7, <3>8, <3>9, <3>10
    <2> QED BY <2>1, <2>2 DEF allow_step
  <1>3. TypeOK'
    BY <1>2 DEF IInv, TypeOK, allow_step, mapVars
  <1>4. NoStaleRule' /\ WriteInv' /\ SlotInv' /\ SeededInv' /\ TransientInv'
    BY DEF IInv, NoStaleRule, Effective, WriteInv, SlotInv, SeededInv, TransientInv,
           allow_step, mapVars
  <1> QED BY <1>2, <1>3, <1>4 DEF IInv

\* A scan ends: its verdict is forgotten.
LEMMA DoneInv ==
    ASSUME NEW c \in Checks
    PROVE  IInv /\ CheckDone(c) => IInv'
  <1> SUFFICES ASSUME IInv, CheckDone(c) PROVE IInv'
    OBVIOUS
  <1>2. TypeOK'
    BY IdleType DEF IInv, TypeOK, CheckDone, mapVars
  <1>3. NoStaleRule' /\ WriteInv' /\ SlotInv' /\ SeededInv' /\ TransientInv'
    BY DEF IInv, NoStaleRule, Effective, WriteInv, SlotInv, SeededInv, TransientInv,
           CheckDone, mapVars
  <1>4. ScanInv'
    BY DEF IInv, TypeOK, ScanInv, CheckDone, mapVars, Idle
  <1> QED BY <1>2, <1>3, <1>4 DEF IInv

\* Every step keeps the invariant.
LEMMA NextInv == IInv /\ [Next]_vars => IInv'
  <1>1. IInv /\ UNCHANGED vars => IInv'
    <2> SUFFICES ASSUME IInv, UNCHANGED vars PROVE IInv'
      OBVIOUS
    <2>1. TypeOK' /\ ScanInv'
      BY DEF IInv, vars, TypeOK, ScanInv
    <2>2. NoStaleRule' /\ WriteInv' /\ SlotInv' /\ SeededInv' /\ TransientInv'
      BY DEF IInv, vars, NoStaleRule, Effective, WriteInv, SlotInv, SeededInv, TransientInv
    <2> QED BY <2>1, <2>2 DEF IInv
  <1>2. IInv /\ Daemon => IInv'
    BY RequestInv, AbortInv, LoadInv, WriteStepInv, CountInv DEF Daemon
  <1>3. IInv /\ Kernel => IInv'
    BY CheckStartInv, StepInv, DoneInv DEF Kernel
  <1> QED BY <1>1, <1>2, <1>3, CrashInv, EditInv DEF Next

-----------------------------------------------------------------------------
(* The theorems. *)

\* IInv is an invariant of the specification.
THEOREM Invariance == Spec => []IInv
  BY InitInv, NextInv, PTL DEF Spec

\* Type correctness: for every map size the count stays within the map and no
\* scan ever indexes outside it.
THEOREM TypeCorrect == Spec => []TypeOK
  <1>1. IInv => TypeOK
    BY DEF IInv
  <1> QED BY <1>1, Invariance, PTL

\* seed_rules never exposes a stale slot: the kernel enforces only rules of
\* the last completed seeding or of one begun since, for every number of
\* rules, map size and interleaving of reloads, failures and crashes.
THEOREM NoStaleRuleTheorem == Spec => []NoStaleRule
  <1>1. IInv => NoStaleRule
    BY DEF IInv
  <1> QED BY <1>1, Invariance, PTL

\* check_allowlist against concurrent reseeding, for every map, every layout
\* of a rule and any number of scans and updates: a permit is by fields of
\* rules the scan was entitled to meet, by one whole rule unless it met an
\* update, and by what its slot holds unless that slot was rewritten.
THEOREM PermitJustifiedTheorem == Spec => []PermitJustified
  <1>1. IInv => PermitJustified
    BY DEF IInv, ScanInv, PermitJustified
  <1> QED BY <1>1, Invariance, PTL

\* check_allowlist never misses a matching rule whose slot was left alone.
THEOREM StableRuleTheorem == Spec => []StableRuleNeverMissed
  <1>1. IInv => StableRuleNeverMissed
    BY DEF IInv, ScanInv, StableRuleNeverMissed
  <1> QED BY <1>1, Invariance, PTL

\* A request answered OK leaves the kernel enforcing exactly the part of
\* file and transient rules that fits the map.
THEOREM SeedCompleteTheorem == Spec => []SeedComplete
  <1>1. IInv => SeedComplete
    <2> SUFFICES ASSUME IInv, pc = "idle", reply.ok
                 PROVE  {ALLOW_RULES[i] : i \in 0 .. ALLOW_RULE_COUNT - 1}
                            = {Whole(r) : r \in Fitting(rules)}
      BY DEF SeedComplete
    <2>1. /\ ALLOW_RULE_COUNT = Min2(Len(rules), MAX_RULES)
          /\ \A i \in 0 .. ALLOW_RULE_COUNT - 1 : ALLOW_RULES[i] = Whole(rules[i + 1])
          /\ Min2(Len(rules), MAX_RULES) \in Nat
      BY DEF IInv, SeededInv, TypeOK
    <2>2. ASSUME NEW i \in 0 .. ALLOW_RULE_COUNT - 1
          PROVE  \E r \in Fitting(rules) : ALLOW_RULES[i] = Whole(r)
      <3>1. /\ i + 1 \in 1 .. Min2(Len(rules), MAX_RULES)
            /\ ALLOW_RULES[i] = Whole(rules[i + 1])
        BY <2>1
      <3>2. rules[i + 1] \in Fitting(rules)
        BY <3>1 DEF Fitting
      <3> QED BY <3>1, <3>2
    <2>3. ASSUME NEW i \in 1 .. Min2(Len(rules), MAX_RULES)
          PROVE  \E j \in 0 .. ALLOW_RULE_COUNT - 1 : Whole(rules[i]) = ALLOW_RULES[j]
      <3>1. i - 1 \in 0 .. ALLOW_RULE_COUNT - 1 /\ (i - 1) + 1 = i
        BY <2>1
      <3>2. ALLOW_RULES[i - 1] = Whole(rules[i])
        BY <2>1, <3>1
      <3> QED BY <3>1, <3>2
    <2>4. ASSUME NEW r \in Fitting(rules)
          PROVE  \E j \in 0 .. ALLOW_RULE_COUNT - 1 : Whole(r) = ALLOW_RULES[j]
      BY <2>3 DEF Fitting
    <2> QED BY <2>2, <2>4
  <1> QED BY <1>1, Invariance, PTL

\* `allow --once` rules stay enforced over every reload that fits the map.
THEOREM TransientActiveTheorem == Spec => []TransientActive
  <1>1. IInv => TransientActive
    <2> SUFFICES ASSUME IInv, pc = "idle", reply.ok, Len(rules) <= MAX_RULES
                 PROVE  Range(transient) \subseteq Effective
      BY DEF TransientActive
    <2>1. /\ Range(transient) \subseteq Range(rules)
          /\ rules \in Seq(Rules)
          /\ ALLOW_RULE_COUNT = Len(rules)
          /\ \A i \in 0 .. ALLOW_RULE_COUNT - 1 : ALLOW_RULES[i] = Whole(rules[i + 1])
      BY DEF IInv, TransientInv, SeededInv, TypeOK, Min2
    <2>2. ASSUME NEW i \in DOMAIN rules PROVE rules[i] \in Effective
      <3>1. i - 1 \in 0 .. ALLOW_RULE_COUNT - 1 /\ (i - 1) + 1 = i
        BY <2>1
      <3>2. ALLOW_RULES[i - 1] = Whole(rules[i])
        BY <2>1, <3>1
      <3>3. PICK f \in Fields : TRUE
        OBVIOUS
      <3>4. ALLOW_RULES[i - 1][f] = rules[i]
        BY <3>2 DEF Whole
      <3> QED BY <3>1, <3>4 DEF Effective
    <2> QED BY <2>1, <2>2 DEF Range
  <1> QED BY <1>1, Invariance, PTL

-----------------------------------------------------------------------------
(* The refinement: every step of RuleSeed is a step of Policy or leaves    *)
(* its variables alone.                                                    *)

\* No OK stands while a seeding is under way or the daemon is down.
OkInv == pc # "idle" => ~reply.ok

\* A scan that rests holds nothing of the last one.
IdleInv == \A c \in Checks : scan[c].state = "idle" => scan[c] = Idle

RInv == IInv /\ OkInv /\ IdleInv

\* The rules the kernel enforces are rules.
LEMMA EffectiveRules ==
    ASSUME IInv
    PROVE  Effective \in SUBSET Rules
  BY DEF IInv, NoStaleRule, TypeOK

\* The program starts with the refinement's invariant.
LEMMA InitRInv == Init => RInv
  BY InitInv DEF Init, RInv, OkInv, IdleInv, NoReply, Idle

\* Every step keeps it.
LEMMA NextRInv == RInv /\ [Next]_vars => RInv'
  <1> SUFFICES ASSUME RInv, [Next]_vars PROVE RInv'
    OBVIOUS
  <1>0. IInv /\ IInv'
    BY NextInv DEF RInv
  <1>1. OkInv'
    <2>1. CASE UNCHANGED vars
      BY <2>1 DEF RInv, OkInv, vars
    <2>2. CASE Daemon
      BY <2>2 DEF RInv, OkInv, Daemon, Start, Sighup, LoadFails, Load, Write,
                  WriteFails, Count, AllowPersistent, AllowOnce, Fail, Seeding,
                  Abort, NoReply
    <2>3. CASE Kernel
      BY <2>3 DEF RInv, OkInv, Kernel, CheckStart, allow_step, CheckDone
    <2>4. CASE Crash \/ Edit
      BY <2>4 DEF RInv, OkInv, Crash, Edit, NoReply
    <2> QED BY <2>1, <2>2, <2>3, <2>4 DEF Next
  <1>3. IdleInv'
    <2> SUFFICES ASSUME NEW c \in Checks, scan'[c].state = "idle"
                 PROVE  scan'[c] = Idle
      BY DEF IdleInv
    <2>0. (scan[c].state = "idle" => scan[c] = Idle) /\ scan \in [Checks -> Scans]
      BY <1>0 DEF RInv, IdleInv, IInv, TypeOK
    <2>1. CASE scan'[c] = scan[c]
      BY <2>0, <2>1
    <2>2. CASE scan' = [d \in Checks |-> Idle]
      BY <2>2
    <2>3. ASSUME NEW f \in Fields, Write(f)
          PROVE  scan'[c] = Idle
      <3>1. CASE scan[c].state = "idle"
        BY <2>0, <2>3, <3>1 DEF Write, Copy, Observe
      <3>2. CASE scan[c].state # "idle"
        BY <1>0, <2>3, <3>2, CopyScan
      <3> QED BY <3>1, <3>2
    <2>4. ASSUME NEW d \in Checks, NEW want \in Wants, CheckStart(d, want)
          PROVE  scan'[c] = Idle
      BY <2>0, <2>4 DEF CheckStart
    <2>5. ASSUME NEW d \in Checks, allow_step(d)
          PROVE  scan'[c] = Idle
      <3>1. CASE c # d
        BY <2>0, <2>5, <3>1 DEF allow_step
      <3>2. CASE c = d
        <4>0. scan[c].state = "run" /\ scan[c] \in Scans
          BY <2>0, <2>5, <3>2 DEF allow_step
        <4>1. CASE scan' = [scan EXCEPT ![d].state = "deny"]
          BY <2>0, <3>2, <4>0, <4>1 DEF Scans
        <4>2. ASSUME NEW t, NEW got, NEW todo, t = Judge(scan[d], got, todo),
                     scan' = [scan EXCEPT ![d] = t]
              PROVE  FALSE
          <5>1. t.state \in {"permit", scan[d].state}
            BY <4>2 DEF Judge
          <5>2. scan'[c] = t
            BY <2>0, <3>2, <4>2
          <5> QED BY <3>2, <4>0, <5>1, <5>2
        <4> QED BY <2>5, <4>1, <4>2 DEF allow_step
      <3> QED BY <3>1, <3>2
    <2>6. ASSUME NEW d \in Checks, CheckDone(d)
          PROVE  scan'[c] = Idle
      BY <2>0, <2>6 DEF CheckDone
    <2>7. CASE LoadFails \/ WriteFails
      BY <2>1, <2>2, <2>7 DEF LoadFails, WriteFails, Abort
    <2>8. Start \/ Sighup \/ Load \/ Count \/ Edit
             \/ (\E r \in Rules : AllowPersistent(r) \/ AllowOnce(r))
             \/ UNCHANGED vars
          => scan' = scan
      BY DEF Start, Sighup, Load, Count, Edit, AllowPersistent, AllowOnce, vars
    <2>9. CASE Crash
      BY <2>2, <2>9 DEF Crash
    <2> QED BY <2>1, <2>3, <2>4, <2>5, <2>6, <2>7, <2>8, <2>9
            DEF Next, Daemon, Kernel
  <1> QED BY <1>0, <1>1, <1>3 DEF RInv

\* The view a check has of the map follows from its scan and the slots.
LEMMA SameViews ==
    ASSUME UNCHANGED <<scan, ALLOW_RULES>>
    PROVE  [c \in Checks |-> View(c)]' = [c \in Checks |-> View(c)]
  BY DEF View

\* The initial states of RuleSeed are initial states of Policy.
LEMMA InitRefines == Init => promise!Init
  <1> SUFFICES ASSUME Init PROVE promise!Init
    OBVIOUS
  <1>1. Effective = {} /\ pc # "write" /\ Installing = {} /\ reply.ok = FALSE
    BY DEF Init, Effective, Installing, NoReply
  <1>2. \A c \in Checks : View(c) = promise!Resting
    BY DEF Init, View, Idle, promise!Resting
  <1> QED BY <1>1, <1>2 DEF promise!Init

\* A request or signal is taken up, or a seeding fails before it wrote
\* anything: a request of Policy.
LEMMA RequestRefines ==
    ASSUME RInv, pc # "write", pc' # "write", ~reply'.ok,
           reply'.ok \in BOOLEAN,
           UNCHANGED <<scan, ALLOW_RULES, ALLOW_RULE_COUNT>>
    PROVE  promise!Request
  <1>1. Effective' = Effective
    BY DEF Effective
  <1>2. Installing' = {} /\ Installing = {}
    BY DEF Installing
  <1> QED BY <1>1, <1>2, SameViews DEF promise!Request

\* The daemon is gone, and its maps with it.
LEMMA DownRefines ==
    ASSUME pc' # "write", ~reply'.ok, reply'.ok \in BOOLEAN,
           ALLOW_RULE_COUNT' = 0, scan' = [c \in Checks |-> Idle]
    PROVE  promise!Down
  <1>1. Effective' = {} /\ Installing' = {}
    BY DEF Effective, Installing
  <1>2. \A c \in Checks : View(c)' = promise!Resting
    BY DEF View, Idle, promise!Resting
  <1> QED BY <1>1, <1>2 DEF promise!Down

\* The file is read: an update to what fits begins.
LEMMA LoadRefines ==
    ASSUME RInv, Load
    PROVE  promise!BeginUpdate
  <1>1. combined \in Seq(Rules)
    BY CombinedType DEF RInv, IInv, TypeOK, Load
  <1>2. Installing' \in SUBSET Rules
    BY <1>1, FittingType DEF Load, Installing
  <1>3. Effective' = Effective /\ ~reply.ok /\ reply' = reply /\ reply.ok \in BOOLEAN
    BY DEF Load, Effective, RInv, OkInv, IInv, TypeOK, Replies
  <1> QED BY <1>2, <1>3, SameViews DEF Load, promise!BeginUpdate

\* One field is copied: its rule is installed.
LEMMA WriteRefines ==
    ASSUME RInv, NEW f \in Fields, Write(f)
    PROVE  \E r \in Rules : promise!Install(r)
  <1> DEFINE r == rules[next + 1]
  <1>0. IInv /\ scan \in [Checks -> Scans]
    BY DEF RInv, IInv, TypeOK
  <1>1. next \in Slots /\ r \in Rules /\ r \in Fitting(rules)
    BY <1>0, CopySlots
  <1>2. /\ r \in Installing /\ Installing' = Installing /\ pc = "write" /\ pc' = "write"
        /\ reply' = reply
    BY <1>1 DEF Write, Installing
  <1>3. Effective' \in SUBSET (Effective \cup {r})
    <2> SUFFICES ASSUME NEW i \in 0 .. ALLOW_RULE_COUNT - 1, NEW g \in Fields
                 PROVE  ALLOW_RULES'[i][g] \in Effective \cup {r}
      BY DEF Effective, Write
    <2>1. i \in Slots /\ ALLOW_RULES[i][g] \in Effective
      BY <1>0 DEF IInv, TypeOK, Effective, Slots
    <2>2. ALLOW_RULES'[i][g] = ALLOW_RULES[i][g] \/ ALLOW_RULES'[i][g] = r
      BY <1>0, <2>1, CopySlots
    <2> QED BY <2>1, <2>2
  <1>4. DEFINE left == [c \in Checks |-> View(c).must']
  <1>5. left \in [Checks -> SUBSET Rules]
    BY DEF View
  <1>6. ASSUME NEW c \in Checks
        PROVE  View(c)' =
                 IF View(c).state = "idle" THEN View(c)
                 ELSE [state |-> View(c).state, want |-> View(c).want,
                       may |-> View(c).may \cup {r},
                       must |-> View(c).must \cap left[c], met |-> TRUE]
    <2>1. CASE scan[c].state = "idle"
      <3>1. scan'[c] = scan[c]
        BY <2>1 DEF Write, Copy, Observe
      <3>2. scan[c].kept = {}
        BY <2>1 DEF RInv, IdleInv, Idle
      <3> QED BY <2>1, <3>1, <3>2 DEF View
    <2>2. CASE scan[c].state # "idle"
      <3>1. /\ scan'[c].state = scan[c].state /\ scan'[c].want = scan[c].want
            /\ scan'[c].seen = scan[c].seen \cup {r}
            /\ scan'[c].kept \in SUBSET scan[c].kept
            /\ scan'[c].met = TRUE
            /\ \A j \in scan'[c].kept : ALLOW_RULES'[j] = ALLOW_RULES[j]
        BY <1>0, <2>2, CopyScan
      <3> DEFINE new == {q \in Rules : \E i \in scan'[c].kept : ALLOW_RULES'[i] = Whole(q)}
                 old == {q \in Rules : \E i \in scan[c].kept : ALLOW_RULES[i] = Whole(q)}
      <3>2. new = old \cap new
        BY <3>1
      <3> HIDE DEF r
      <3>3. View(c)' = [state |-> scan[c].state, want |-> scan[c].want,
                        may |-> scan[c].seen \cup {r}, must |-> new, met |-> TRUE]
        BY <3>1 DEF View
      <3>4. View(c).must' = new
        BY <3>3
      <3>5. View(c).state = scan[c].state /\ View(c).want = scan[c].want
            /\ View(c).may = scan[c].seen /\ View(c).must = old
        BY DEF View
      <3> HIDE DEF new, old
      <3>6. left[c] = new
        BY <3>4
      <3> HIDE DEF left
      <3> QED BY <2>2, <3>2, <3>3, <3>5, <3>6
    <2> QED BY <2>1, <2>2
  <1> HIDE DEF r, left
  <1> DEFINE check == [c \in Checks |-> View(c)]
  <1>7. check' = [c \in Checks |->
              IF check[c].state = "idle" THEN check[c]
              ELSE [state |-> check[c].state, want |-> check[c].want,
                    may |-> check[c].may \cup {r},
                    must |-> check[c].must \cap left[c], met |-> TRUE]]
    BY <1>6
  <1> HIDE DEF check
  <1>8. promise!Install(r)
    BY <1>2, <1>3, <1>5, <1>7 DEF promise!Install, check
  <1> QED BY <1>1, <1>8

\* A seeding that ends with an error: at startup the daemon goes down; later
\* the update is given up, or the request refused if nothing was begun.
LEMMA AbortRefines ==
    ASSUME RInv, LoadFails \/ WriteFails
    PROVE  promise!Request \/ promise!FailUpdate \/ promise!Down
  <1>0. Abort /\ ~reply.ok /\ reply.ok \in BOOLEAN
    BY DEF LoadFails, WriteFails, RInv, OkInv, IInv, TypeOK, Replies
  <1>1. CASE request.verb = "startup"
    BY <1>0, <1>1, DownRefines DEF Abort
  <1>2. CASE request.verb # "startup"
    <2>1. /\ pc' = "idle" /\ reply'.ok = FALSE
          /\ UNCHANGED <<scan, ALLOW_RULES, ALLOW_RULE_COUNT>>
      BY <1>0, <1>2 DEF Abort, Fail, mapVars
    <2>2. CASE LoadFails
      BY <2>1, <2>2, RequestRefines DEF LoadFails
    <2>3. CASE WriteFails
      <3>1. Effective' = Effective /\ Installing' = {}
        BY <2>1 DEF Effective, Installing
      <3> QED BY <2>1, <2>3, <3>1, SameViews DEF WriteFails, promise!FailUpdate
    <2> QED BY <2>2, <2>3
  <1> QED BY <1>1, <1>2

\* The count is written: exactly the rules of the update are in force.
LEMMA CountRefines ==
    ASSUME RInv, RInv', Count
    PROVE  promise!EndUpdate
  <1>1. /\ pc = "write" /\ pc' = "idle" /\ reply'.ok = TRUE
        /\ rules' = rules /\ UNCHANGED <<scan, ALLOW_RULES>>
    BY DEF Count
  <1>2. /\ rules \in Seq(Rules)
        /\ Min2(Len(rules), MAX_RULES) \in Nat
        /\ ALLOW_RULE_COUNT' = Min2(Len(rules), MAX_RULES)
        /\ \A i \in 0 .. Min2(Len(rules), MAX_RULES) - 1 :
              ALLOW_RULES'[i] = Whole(rules[i + 1])
    BY DEF RInv, IInv, TypeOK, WriteInv, Count, Min2
  <1>3. Effective' = Fitting(rules)
    <2> DEFINE m == Min2(Len(rules), MAX_RULES)
    <2>1. ASSUME NEW i \in 0 .. m - 1, NEW f \in Fields
          PROVE  ALLOW_RULES'[i][f] \in Fitting(rules)
      <3>1. i + 1 \in 1 .. m /\ ALLOW_RULES'[i] = Whole(rules[i + 1])
        BY <1>2
      <3>2. ALLOW_RULES'[i][f] = rules[i + 1]
        BY <3>1 DEF Whole
      <3> QED BY <3>1, <3>2 DEF Fitting
    <2>2. ASSUME NEW i \in 1 .. m
          PROVE  rules[i] \in Effective'
      <3>1. i - 1 \in 0 .. m - 1 /\ (i - 1) + 1 = i
        BY <1>2
      <3>2. ALLOW_RULES'[i - 1] = Whole(rules[i])
        BY <1>2, <3>1
      <3>3. PICK f \in Fields : TRUE
        OBVIOUS
      <3>4. ALLOW_RULES'[i - 1][f] = rules[i]
        BY <3>2 DEF Whole
      <3> QED BY <1>2, <3>1, <3>4 DEF Effective
    <2>3. Effective' \subseteq Fitting(rules)
      BY <1>2, <2>1 DEF Effective
    <2>4. Fitting(rules) \subseteq Effective'
      BY <2>2 DEF Fitting
    <2> QED BY <2>3, <2>4
  <1>4. Installing = Fitting(rules) /\ Installing' = {}
    BY <1>1 DEF Installing
  <1> QED BY <1>1, <1>3, <1>4, SameViews DEF promise!EndUpdate

\* The rules of the slots a check can count on.
Must(kept) == {r \in Rules : \E i \in kept : ALLOW_RULES[i] = Whole(r)}

\* The kernel side leaves all but one check of Policy alone.
LEMMA CheckView ==
    ASSUME NEW c \in Checks, NEW s, RInv,
           scan' = [scan EXCEPT ![c] = s],
           UNCHANGED <<pc, reply, rules, ALLOW_RULES, ALLOW_RULE_COUNT>>
    PROVE  /\ Effective' = Effective /\ Installing' = Installing
           /\ [d \in Checks |-> View(d)]' =
                [[d \in Checks |-> View(d)] EXCEPT ![c] =
                    [state |-> s.state, want |-> s.want, may |-> s.seen,
                     must |-> Must(s.kept), met |-> s.met]]
  <1>1. Effective' = Effective /\ Installing' = Installing
    BY DEF Effective, Installing
  <1>2. scan \in [Checks -> Scans]
    BY DEF RInv, IInv, TypeOK
  <1>3. ASSUME NEW d \in Checks, d # c
        PROVE  View(d)' = View(d)
    BY <1>2, <1>3 DEF View
  <1>4. View(c)' = [state |-> s.state, want |-> s.want, may |-> s.seen,
                    must |-> Must(s.kept), met |-> s.met]
    <2>1. scan'[c] = s
      BY <1>2
    <2> QED BY <2>1 DEF View, Must
  <1> QED BY <1>1, <1>3, <1>4

\* Of the rules in force, those in no whole slot are the one being replaced and
\* the one that replaces it, and there are none unless a slot is being copied.
LEMMA LostRules ==
    ASSUME IInv, NEW lost,
           lost = Effective \ Must(0 .. ALLOW_RULE_COUNT - 1)
    PROVE  /\ Must(0 .. ALLOW_RULE_COUNT - 1) = Effective \ lost
           /\ lost # {} => pc = "write" /\ \E a, b \in Effective : lost = {a, b}
  <1> DEFINE low == 0 .. ALLOW_RULE_COUNT - 1
  <1>0. low \subseteq Slots /\ ALLOW_RULES \in [Slots -> [Fields -> Rules \cup {NoRule}]]
    BY DEF IInv, TypeOK, Slots
  <1>1. Must(low) \subseteq Effective
    <2>1. ASSUME NEW r \in Rules, NEW i \in low, ALLOW_RULES[i] = Whole(r)
          PROVE  r \in Effective
      <3>1. PICK f \in Fields : TRUE
        OBVIOUS
      <3>2. ALLOW_RULES[i][f] = r
        BY <2>1 DEF Whole
      <3> QED BY <3>2 DEF Effective
    <2> QED BY <2>1 DEF Must
  <1>2. Effective \subseteq Rules
    BY EffectiveRules
  <1>3. PICK old \in Rules \cup {NoRule} : next \in Slots =>
           \A f \in Fields \ copied : ALLOW_RULES[next][f] = old
    BY DEF IInv, SlotInv
  <1>4. ASSUME NEW x \in lost
        PROVE  copied # {} /\ x \in {old, rules[next + 1]}
    <2>1. PICK i \in low, f \in Fields : x = ALLOW_RULES[i][f]
      BY DEF Effective
    <2>2. i \in Slots /\ x \in Rules /\ ALLOW_RULES[i] # Whole(x)
      BY <1>0, <1>2 DEF Must
    <2>3. ~(\A g \in Fields : ALLOW_RULES[i][g] = x)
      BY <1>0, <2>2 DEF Whole
    <2>4. i = next /\ copied # {}
      BY <2>1, <2>2, <2>3 DEF IInv, SlotInv
    <2>5. pc = "write" /\ \A g \in copied : ALLOW_RULES[next][g] = rules[next + 1]
      BY <2>4 DEF IInv, SlotInv, WriteInv
    <2> QED BY <1>3, <2>1, <2>2, <2>4, <2>5
  <1>5. lost # {} => pc = "write"
    BY <1>4 DEF IInv, SlotInv
  <1>6. lost # {} => \E a, b \in Effective : lost = {a, b}
    <2>0. PICK new : new = rules[next + 1]
      OBVIOUS
    <2>1. lost \subseteq {old, new} /\ lost \subseteq Effective
      BY <1>4, <2>0
    <2>2. CASE old \in lost /\ new \in lost
      BY <2>1, <2>2
    <2>3. CASE old \in lost /\ new \notin lost
      <3>1. lost = {old, old} /\ old \in Effective
        BY <2>1, <2>3
      <3> QED BY <3>1
    <2>4. CASE old \notin lost /\ new \in lost
      <3>1. lost = {new, new} /\ new \in Effective
        BY <2>1, <2>4
      <3> QED BY <3>1
    <2> QED BY <2>1, <2>2, <2>3, <2>4
  <1> QED BY <1>1, <1>5, <1>6

\* A scan starts with the rules in force, or is over at once if there are none.
LEMMA CheckStartRefines ==
    ASSUME RInv, NEW c \in Checks, NEW want \in Wants, CheckStart(c, want)
    PROVE  promise!Start(c, want)
  <1> DEFINE m == Min2(ALLOW_RULE_COUNT, MAX_RULES)
             s == [state |-> IF m = 0 THEN "deny" ELSE "run", want |-> want,
                   n |-> m, i |-> 0, todo |-> Fields, got |-> Whole(NoRule),
                   seen |-> Effective, kept |-> 0 .. m - 1, met |-> pc = "write"]
  <1>1. m \in Nat /\ m = ALLOW_RULE_COUNT /\ IInv
    BY DEF RInv, IInv, TypeOK, Min2
  <1>2. scan' = [scan EXCEPT ![c] = s]
        /\ UNCHANGED <<pc, reply, rules, ALLOW_RULES, ALLOW_RULE_COUNT>>
    BY DEF CheckStart, mapVars
  <1>3. PICK lost : lost = Effective \ Must(0 .. ALLOW_RULE_COUNT - 1)
    OBVIOUS
  <1>4. /\ Must(0 .. ALLOW_RULE_COUNT - 1) = Effective \ lost
        /\ lost # {} => pc = "write" /\ \E a, b \in Effective : lost = {a, b}
    BY <1>1, <1>3, LostRules
  <1>5. lost \in SUBSET Effective
    BY <1>3
  <1>6. m = 0 => Effective = {}
    BY <1>1 DEF Effective
  <1>7. /\ s.state = (IF m = 0 THEN "deny" ELSE "run") /\ s.want = want
        /\ s.seen = Effective /\ s.kept = 0 .. m - 1
    <2> HIDE DEF m
    <2> QED OBVIOUS
  <1>8. s.met = (pc = "write")
    <2> HIDE DEF m
    <2> QED OBVIOUS
  <1> HIDE DEF s, m
  <1>9. /\ Effective' = Effective /\ Installing' = Installing
        /\ [d \in Checks |-> View(d)]' =
             [[d \in Checks |-> View(d)] EXCEPT ![c] =
                 [state |-> IF m = 0 THEN "deny" ELSE "run", want |-> want,
                  may |-> Effective, must |-> Effective \ lost, met |-> pc = "write"]]
    <2>1. /\ Effective' = Effective /\ Installing' = Installing
          /\ [d \in Checks |-> View(d)]' =
               [[d \in Checks |-> View(d)] EXCEPT ![c] =
                   [state |-> s.state, want |-> s.want, may |-> s.seen,
                    must |-> Must(s.kept), met |-> s.met]]
      BY <1>2, CheckView
    <2>2. Must(s.kept) = Effective \ lost
      BY <1>1, <1>4, <1>7
    <2> QED BY <1>7, <1>8, <2>1, <2>2
  <1>10. [d \in Checks |-> View(d)][c].state = "idle"
    BY DEF CheckStart, View
  <1>11. CASE m = 0
    BY <1>2, <1>4, <1>5, <1>6, <1>9, <1>10, <1>11 DEF promise!Start, promise!Started
  <1>12. CASE m # 0
    BY <1>2, <1>4, <1>5, <1>9, <1>10, <1>12 DEF promise!Start, promise!Started
  <1> QED BY <1>11, <1>12

\* One turn of the scan permits through a rule it has met, or, having met an
\* update, through fields of several; denies when no slot left alone matches;
\* or goes on.
LEMMA StepRefines ==
    ASSUME RInv, RInv', NEW c \in Checks, allow_step(c)
    PROVE  promise!Permit(c) \/ promise!Deny(c) \/ UNCHANGED promise!vars
  <1>0. /\ scan \in [Checks -> Scans] /\ scan[c] \in Scans /\ IInv
        /\ scan[c].state = "run"
    BY DEF RInv, IInv, TypeOK, allow_step
  <1>s. ScanInv!(c)
    BY DEF RInv, IInv, ScanInv
  <1>t. ScanInv!(c)'
    BY DEF RInv, IInv, ScanInv
  <1>a. UNCHANGED <<pc, reply, rules, ALLOW_RULES, ALLOW_RULE_COUNT>>
    BY DEF allow_step, mapVars
  <1>1. /\ View(c).state = "run" /\ View(c).want = scan[c].want
        /\ View(c).may = scan[c].seen /\ View(c).must = Must(scan[c].kept)
    BY <1>0 DEF View, Must
  <1>m. View(c).met = scan[c].met
    BY DEF View
  <1>b. View(c) = [state |-> "run", want |-> scan[c].want, may |-> scan[c].seen,
                   must |-> Must(scan[c].kept), met |-> scan[c].met]
    BY <1>0 DEF View, Must
  <1> DEFINE check == [d \in Checks |-> View(d)]
  <1>2. ASSUME NEW t, scan' = [scan EXCEPT ![c] = t],
               t.want = scan[c].want, t.seen = scan[c].seen, t.kept = scan[c].kept,
               t.met = scan[c].met
        PROVE  /\ Effective' = Effective /\ Installing' = Installing
               /\ check' = [check EXCEPT ![c].state = t.state]
               /\ t.state = "run" => check' = check
    <2>1. /\ Effective' = Effective /\ Installing' = Installing
          /\ check' = [check EXCEPT ![c] =
                 [state |-> t.state, want |-> t.want, may |-> t.seen,
                  must |-> Must(t.kept), met |-> t.met]]
      BY <1>a, <1>2, CheckView
    <2>2. [View(c) EXCEPT !.state = t.state] =
              [state |-> t.state, want |-> scan[c].want, may |-> scan[c].seen,
               must |-> Must(scan[c].kept), met |-> scan[c].met]
      BY <1>b
    <2>3. [state |-> t.state, want |-> t.want, may |-> t.seen,
           must |-> Must(t.kept), met |-> t.met] =
              [state |-> t.state, want |-> scan[c].want, may |-> scan[c].seen,
               must |-> Must(scan[c].kept), met |-> scan[c].met]
      BY <1>2
    <2>4. check' = [check EXCEPT ![c] = [View(c) EXCEPT !.state = t.state]]
      BY <2>1, <2>2, <2>3
    <2>5. check' = [check EXCEPT ![c].state = t.state]
      BY <2>4
    <2>6. t.state = "run" => [View(c) EXCEPT !.state = t.state] = View(c)
      BY <1>b
    <2>7. t.state = "run" => check' = check
      BY <2>4, <2>6
    <2> QED BY <2>1, <2>5, <2>7
  <1>3. CASE scan[c].i >= scan[c].n /\ scan' = [scan EXCEPT ![c].state = "deny"]
    <2> DEFINE t == [scan[c] EXCEPT !.state = "deny"]
    <2>1. /\ t.state = "deny" /\ t.want = scan[c].want /\ t.seen = scan[c].seen
          /\ t.kept = scan[c].kept /\ scan' = [scan EXCEPT ![c] = t]
      BY <1>0, <1>3 DEF Scans
    <2>m. t.met = scan[c].met
      BY <1>0, <1>3 DEF Scans
    <2> HIDE DEF t
    <2>2. Effective' = Effective /\ Installing' = Installing
          /\ check' = [check EXCEPT ![c].state = "deny"]
      BY <1>2, <2>1, <2>m
    <2>3. \A r \in View(c).must : Whole(r) \notin View(c).want
      <3>1. \A j \in scan[c].kept : ALLOW_RULES[j] \notin scan[c].want
        BY <1>0, <1>s, <1>3 DEF Scans, Slots
      <3> QED BY <1>1, <3>1 DEF Must
    <2>4. promise!Deny(c)
      BY <1>a, <1>1, <2>2, <2>3 DEF promise!Deny, promise!Whole, Whole
    <2> QED BY <2>4
  <1>4. ASSUME scan[c].i < scan[c].n, NEW f \in scan[c].todo,
               scan' = [scan EXCEPT ![c] = Judge(scan[c], Got(c, f), scan[c].todo \ {f})]
        PROVE  promise!Permit(c) \/ UNCHANGED promise!vars
    <2>1. PICK got : got = Got(c, f)
      OBVIOUS
    <2>2. PICK todo : todo = scan[c].todo \ {f}
      OBVIOUS
    <2>3. PICK t : t = Judge(scan[c], got, todo)
      OBVIOUS
    <2>4. scan' = [scan EXCEPT ![c] = t] /\ scan'[c] = t
      BY <1>0, <1>4, <2>1, <2>2, <2>3
    <2>5. /\ got \in [Fields -> Rules \cup {NoRule}] /\ todo \in SUBSET Fields
          /\ scan[c].i + 1 <= MAX_RULES
      <3>1. Got(c, f) \in [Fields -> Rules \cup {NoRule}]
            /\ scan[c].todo \ {f} \in SUBSET Fields
        BY <1>0, <1>4, ReadField
      <3>2. scan[c].i + 1 <= MAX_RULES
        BY <1>0, <1>4 DEF Scans
      <3> QED BY <2>1, <2>2, <3>1, <3>2
    <2>6. /\ t \in Scans
          /\ t.want = scan[c].want /\ t.seen = scan[c].seen /\ t.kept = scan[c].kept
          /\ t.met = scan[c].met
          /\ t.state \in {"permit", "run"}
      BY <1>0, <2>3, <2>5, JudgeFacts
    <2>7. /\ Effective' = Effective /\ Installing' = Installing
          /\ check' = [check EXCEPT ![c].state = t.state]
          /\ t.state = "run" => check' = check
      BY <1>2, <2>4, <2>6
    <2>8. CASE t.state = "permit"
      <3>1. /\ t.got \in t.want /\ (\A g \in Fields : t.got[g] \in t.seen)
            /\ t.met \/ \E r \in t.seen : t.got = Whole(r)
        BY <1>t, <2>4, <2>8
      <3>2. t.got \in [Fields -> t.seen]
        <4>1. t.got \in [Fields -> Rules \cup {NoRule}]
          BY <2>6 DEF Scans
        <4> QED BY <3>1, <4>1
      <3>3. CASE scan[c].met
        <4>1. View(c).met
          BY <1>m, <3>3
        <4>2. View(c).want \cap [Fields -> View(c).may] # {}
          BY <1>1, <2>6, <3>1, <3>2
        <4> QED BY <1>a, <1>1, <2>7, <2>8, <4>1, <4>2 DEF promise!Permit
      <3>4. CASE ~scan[c].met
        <4>1. PICK r \in View(c).may : Whole(r) \in View(c).want
          BY <1>1, <2>6, <3>1, <3>4
        <4> QED BY <1>a, <1>1, <2>7, <2>8, <4>1 DEF promise!Permit, promise!Whole, Whole
      <3> QED BY <3>3, <3>4
    <2>9. CASE t.state = "run"
      BY <1>a, <2>7, <2>9 DEF promise!vars
    <2> QED BY <2>6, <2>8, <2>9
  <1> QED BY <1>3, <1>4 DEF allow_step, Got

\* The hook returns and its check rests.
LEMMA DoneRefines ==
    ASSUME RInv, NEW c \in Checks, CheckDone(c)
    PROVE  promise!Done(c)
  <1>1. /\ scan' = [scan EXCEPT ![c] = Idle]
        /\ UNCHANGED <<pc, reply, rules, ALLOW_RULES, ALLOW_RULE_COUNT>>
    BY DEF CheckDone, mapVars
  <1>2. promise!Resting = [state |-> Idle.state, want |-> Idle.want, may |-> Idle.seen,
                           must |-> Must(Idle.kept), met |-> Idle.met]
    BY DEF promise!Resting, Idle, Must
  <1>3. /\ Effective' = Effective /\ Installing' = Installing
        /\ [d \in Checks |-> View(d)]' =
             [[d \in Checks |-> View(d)] EXCEPT ![c] = promise!Resting]
    BY <1>1, <1>2, CheckView
  <1>4. View(c).state \in {"permit", "deny"}
    BY DEF View, CheckDone
  <1> QED BY <1>1, <1>3, <1>4 DEF promise!Done

\* Every step of the daemon and of the kernel is a step of Policy or leaves
\* what Policy speaks of alone.
LEMMA NextRefines ==
    ASSUME RInv, RInv', [Next]_vars
    PROVE  [promise!Next]_(promise!vars)
  <1>1. CASE LoadFails \/ WriteFails
    BY <1>1, AbortRefines DEF promise!Next
  <1>2. CASE Load
    BY <1>2, LoadRefines DEF promise!Next
  <1>3. ASSUME NEW f \in Fields, Write(f)
        PROVE  promise!Next
    BY <1>3, WriteRefines DEF promise!Next
  <1>4. CASE Count
    BY <1>4, CountRefines DEF promise!Next
  <1>5. CASE Crash
    <2>1. promise!Down
      BY <1>5, DownRefines DEF Crash, NoReply
    <2> QED BY <2>1 DEF promise!Next
  <1>6. CASE Sighup \/ \E r \in Rules : AllowPersistent(r) \/ AllowOnce(r)
    <2>1. /\ pc = "idle" /\ pc' # "write" /\ reply'.ok = FALSE
          /\ UNCHANGED <<scan, ALLOW_RULES, ALLOW_RULE_COUNT>>
      BY <1>6 DEF Sighup, AllowPersistent, AllowOnce, Fail, Seeding, NoReply, mapVars
    <2>2. promise!Request
      BY <2>1, RequestRefines
    <2> QED BY <2>2 DEF promise!Next
  <1>7. CASE Start \/ Edit \/ UNCHANGED vars
    <2>1. /\ (pc' = "write") = (pc = "write")
          /\ UNCHANGED <<reply, rules, scan, ALLOW_RULES, ALLOW_RULE_COUNT>>
      BY <1>7 DEF Start, Edit, vars, mapVars
    <2>2. Effective' = Effective /\ Installing' = Installing
      BY <2>1 DEF Effective, Installing
    <2> QED BY <2>1, <2>2, SameViews DEF promise!vars
  <1>8. ASSUME NEW c \in Checks, NEW want \in Wants, CheckStart(c, want)
        PROVE  promise!Next
    BY <1>8, CheckStartRefines DEF promise!Next
  <1>9. ASSUME NEW c \in Checks, allow_step(c)
        PROVE  [promise!Next]_(promise!vars)
    BY <1>9, StepRefines DEF promise!Next
  <1>10. ASSUME NEW c \in Checks, CheckDone(c)
         PROVE  promise!Next
    BY <1>10, DoneRefines DEF promise!Next
  <1> QED BY <1>1, <1>2, <1>3, <1>4, <1>5, <1>6, <1>7, <1>8, <1>9, <1>10
          DEF Next, Daemon, Kernel

\* seed_rules and check_allowlist implement module Policy: for every map size,
\* layout of a rule, file and number of scans, an exec is answered as if the
\* allowlist were a set of rules replaced by updates.  Only a check that meets
\* an update may see it half done, the rule being replaced included.
THEOREM PolicyRefined == Spec => KeepsPolicy
  <1>1. Init => promise!Init
    BY InitRefines
  <1>2. RInv /\ RInv' /\ [Next]_vars => [promise!Next]_(promise!vars)
    BY NextRefines
  <1>3. Spec => []RInv
    BY InitRInv, NextRInv, PTL DEF Spec
  <1> QED BY <1>1, <1>2, <1>3, PTL DEF Spec, KeepsPolicy, promise!Spec
=============================================================================
