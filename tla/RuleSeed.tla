------------------------------ MODULE RuleSeed ------------------------------
(***************************************************************************)
(* The allowlist on its way from disk to the kernel.                       *)
(*                                                                         *)
(* Userspace (run.rs, control.rs): the daemon loads the allowlist file,    *)
(* adds the in-memory `allow --once` rules, and writes the result into the *)
(* BPF array ALLOW_RULES one slot at a time, ALLOW_RULE_COUNT last.  It    *)
(* does so at startup, on SIGHUP and for every `allow` / `once` request.   *)
(*                                                                         *)
(* Kernel (linprov-ebpf main.rs): check_allowlist reads the count once and *)
(* then scans that many slots.  Nothing locks the two sides against each   *)
(* other: a scan may overlap any number of slot writes, and since the      *)
(* array update is a plain copy and allow_step reads the slot in place,    *)
(* each of its fields by itself, it may also read half of an old rule and  *)
(* half of a new one.                                                      *)
(*                                                                         *)
(* A rule is an opaque value; a slot holds, per field, the rule that field *)
(* was copied from.  A scan looks for any combination of fields in `want`  *)
(* (the ones whose conditions the exec meets; module Allowlist says what   *)
(* meeting a rule means).  `file` is what Rules::load makes of the file's  *)
(* bytes: a sequence without duplicates, or Unreadable.                    *)
(***************************************************************************)
EXTENDS Integers, Sequences, FiniteSets

CONSTANTS
    Rules,       \* the rules that may be in the file or be approved
    NoRule,      \* an ALLOW_RULES slot that was never written (flags = 0)
    Unreadable,  \* a file that cannot be opened or does not parse
    Files,       \* the contents an operator may leave in the allowlist file
    MAX_RULES,   \* slots of ALLOW_RULES (8192 in linprov_common)
    Fields,      \* the parts of an AllowRule copied, and read, in one go
    Checks,      \* concurrent runs of check_allowlist
    Wants        \* the sets of field combinations an exec may meet

Range(s) == {s[i] : i \in DOMAIN s}
Distinct(s) == \A i, j \in DOMAIN s : s[i] = s[j] => i = j

ASSUME MaxRulesAssumption == MAX_RULES \in Nat \ {0}
ASSUME NoRuleAssumption == NoRule \notin Rules
ASSUME FilesAssumption ==
    \A f \in Files : f = Unreadable \/ (f \in Seq(Rules) /\ Distinct(f))
ASSUME FieldsAssumption == Fields # {}
ASSUME WantsAssumption == Wants \subseteq SUBSET [Fields -> Rules]
ASSUME UnreadableAssumption == Unreadable \notin Seq(Rules)

VARIABLES
    file,              \* the allowlist on disk
    transient,         \* Control.transient: the `allow --once` rules
    ALLOW_RULES,       \* the kernel's slots
    ALLOW_RULE_COUNT,  \* how many of them check_allowlist reads
    pc,                \* where the daemon is
    request,           \* what it is serving: verb and rule
    rules,             \* seed_rules: the sequence being (or last) seeded
    next,              \* seed_rules: the next slot to write
    copied,            \* the fields of that slot the update has copied
    reply,             \* the verdict of the last finished request
    scan,              \* the state of each run of check_allowlist
    configured         \* ghost: rules of the last complete seeding and of
                       \* every seeding begun since

vars == <<file, transient, ALLOW_RULES, ALLOW_RULE_COUNT, pc, request,
          rules, next, copied, reply, scan, configured>>
mapVars == <<ALLOW_RULES, ALLOW_RULE_COUNT, configured>>

Slots == 0 .. MAX_RULES - 1
Min2(a, b) == IF a < b THEN a ELSE b

\* The contents of a slot that holds all of one rule.
Whole(r) == [f \in Fields |-> r]

\* The rules the kernel enforces right now, all or part of each.
Effective == {ALLOW_RULES[i][f] : i \in 0 .. ALLOW_RULE_COUNT - 1, f \in Fields}

\* The part of a sequence that fits the map.
Fitting(s) == {s[i] : i \in 1 .. Min2(Len(s), MAX_RULES)}

NoRequest == [verb |-> "none", rule |-> NoRule]
NoReply == [ok |-> FALSE, verb |-> "none", rule |-> NoRule]
Idle == [state |-> "idle", want |-> {}, n |-> 0, i |-> 0, todo |-> Fields,
         got |-> Whole(NoRule), seen |-> {}, kept |-> {}, met |-> FALSE]

Init ==
    /\ file \in Files
    /\ transient = <<>>
    /\ ALLOW_RULES = [i \in Slots |-> Whole(NoRule)]
    /\ ALLOW_RULE_COUNT = 0
    /\ pc = "down"
    /\ request = NoRequest
    /\ rules = <<>>
    /\ next = 0
    /\ copied = {}
    /\ reply = NoReply
    /\ scan = [c \in Checks |-> Idle]
    /\ configured = {}

-----------------------------------------------------------------------------
(* The daemon.  Every seeding is Load, then Write per field of each slot,  *)
(* then Count.                                                             *)

combinedFileOnly == file

\* Control::combined: the file read afresh, then the transient rules.
combined == file \o transient

\* daemon(): startup, after the LSM hooks are attached.
Start ==
    /\ pc = "down"
    /\ pc' = "load"
    /\ request' = [verb |-> "startup", rule |-> NoRule]
    /\ UNCHANGED <<file, transient, rules, next, copied, reply, scan, mapVars>>

\* The SIGHUP arm of the event loop.
Sighup ==
    /\ pc = "idle"
    /\ pc' = "load"
    /\ request' = [verb |-> "sighup", rule |-> NoRule]
    /\ reply' = NoReply
    /\ UNCHANGED <<file, transient, rules, next, copied, scan, mapVars>>

Fail(verb, r) ==
    /\ pc' = "idle"
    /\ request' = NoRequest
    /\ reply' = [ok |-> FALSE, verb |-> verb, rule |-> r]

Seeding(verb, r) ==
    /\ pc' = "load"
    /\ request' = [verb |-> verb, rule |-> r]
    /\ reply' = NoReply

\* apply_with_dims(once = false) and append_persistent: dedup against disk,
\* append otherwise; an unreadable file is an error, as is a failed append.
AllowPersistent(r) ==
    /\ pc = "idle"
    /\ \/ /\ file # Unreadable => r \notin Range(file)
          /\ Fail("allow", r)
          /\ UNCHANGED file
       \/ /\ file # Unreadable
          /\ Seeding("allow", r)
          /\ file' = IF r \in Range(file) THEN file ELSE Append(file, r)
    /\ UNCHANGED <<transient, rules, next, copied, scan, mapVars>>

\* apply_with_dims(once = true): already active is OK; a full map, or a file
\* that cannot be read for the capacity check, is an error.
AllowOnce(r) ==
    /\ pc = "idle"
    /\ \/ /\ r \in Range(transient)
          /\ Seeding("once", r)
          /\ UNCHANGED transient
       \/ /\ r \notin Range(transient)
          /\ file # Unreadable => Len(combined) >= MAX_RULES
          /\ Fail("once", r)
          /\ UNCHANGED transient
       \/ /\ r \notin Range(transient)
          /\ file # Unreadable
          /\ Len(combined) < MAX_RULES
          /\ Seeding("once", r)
          /\ transient' = Append(transient, r)
    /\ UNCHANGED <<file, rules, next, copied, scan, mapVars>>

\* A seeding that ends with an error: fatal at startup, else the running
\* rules stay and the request is answered ERR.
Abort ==
    IF request.verb = "startup"
    THEN /\ pc' = "down"
         /\ request' = NoRequest
         /\ transient' = <<>>
         /\ ALLOW_RULES' = [i \in Slots |-> Whole(NoRule)]
         /\ ALLOW_RULE_COUNT' = 0
         /\ configured' = {}
         /\ rules' = <<>>
         /\ scan' = [c \in Checks |-> Idle]
         /\ UNCHANGED reply
    ELSE /\ Fail(request.verb, request.rule)
         /\ UNCHANGED <<transient, rules, scan, mapVars>>

\* reseed_from_control: combined() may fail before the map is touched.
LoadFails ==
    /\ pc = "load"
    /\ file = Unreadable
    /\ Abort
    /\ next' = 0
    /\ UNCHANGED <<file, copied>>

LoadCountFirst ==
    /\ pc = "load"
    /\ file # Unreadable
    /\ pc' = "write"
    /\ rules' = combined
    /\ next' = 0
    /\ configured' = configured \cup Fitting(combined)
    /\ ALLOW_RULE_COUNT' = Min2(Len(combined), MAX_RULES)
    /\ UNCHANGED <<file, transient, copied, request, reply, scan, ALLOW_RULES>>

Load ==
    /\ pc = "load"
    /\ file # Unreadable
    /\ pc' = "write"
    /\ rules' = combined
    /\ next' = 0
    /\ configured' = configured \cup Fitting(combined)
    /\ UNCHANGED <<file, transient, copied, request, reply, scan, ALLOW_RULES,
                   ALLOW_RULE_COUNT>>

\* What copying a field of rule r does to the scans in flight (ghosts only):
\* they met the update, r becomes a rule they may meet, and a slot whose
\* contents changed is no longer one they can count on.
Observe(i, f, r) ==
    scan' = [c \in Checks |->
        IF scan[c].state = "idle" THEN scan[c]
        ELSE LET s == scan[c] IN
             [state |-> s.state, want |-> s.want, n |-> s.n, i |-> s.i,
              todo |-> s.todo, got |-> s.got, seen |-> s.seen \cup {r},
              kept |-> IF ALLOW_RULES[i][f] = r THEN s.kept ELSE s.kept \ {i},
              met |-> TRUE]]

\* Field f of slot `next` is copied from rule r; the last one ends the call.
Copy(f, r) ==
    /\ ALLOW_RULES' = [ALLOW_RULES EXCEPT ![next][f] = r]
    /\ Observe(next, f, r)
    /\ IF copied \cup {f} = Fields
       THEN next' = next + 1 /\ copied' = {}
       ELSE copied' = copied \cup {f} /\ UNCHANGED next

WriteFirstRule(f) ==
    /\ pc = "write"
    /\ next < Min2(Len(rules), MAX_RULES)
    /\ f \notin copied
    /\ Copy(f, rules[1])
    /\ UNCHANGED <<file, transient, ALLOW_RULE_COUNT, pc, request, rules,
                   reply, configured>>

WriteSameSlot(f) ==
    /\ pc = "write"
    /\ next < Min2(Len(rules), MAX_RULES)
    /\ ALLOW_RULES' = [ALLOW_RULES EXCEPT ![next][f] = rules[next + 1]]
    /\ Observe(next, f, rules[next + 1])
    /\ UNCHANGED <<file, transient, ALLOW_RULE_COUNT, pc, request, rules,
                   next, copied, reply, configured>>

\* seed_rules, the loop over the first MAX_RULES rules: the array update
\* copies a rule into its slot field by field, in any order.
Write(f) ==
    /\ pc = "write"
    /\ next < Min2(Len(rules), MAX_RULES)
    /\ f \notin copied
    /\ Copy(f, rules[next + 1])
    /\ UNCHANGED <<file, transient, ALLOW_RULE_COUNT, pc, request, rules,
                   reply, configured>>

\* rule_map.set returns an error, having copied nothing: the slots written so
\* far stay written.
WriteFails ==
    /\ pc = "write"
    /\ next < Min2(Len(rules), MAX_RULES)
    /\ copied = {}
    /\ Abort
    /\ next' = 0
    /\ UNCHANGED <<file, copied>>

CountNeverLowered ==
    /\ pc = "write"
    /\ next = Min2(Len(rules), MAX_RULES)
    /\ ALLOW_RULE_COUNT' = IF Len(rules) < ALLOW_RULE_COUNT
                           THEN ALLOW_RULE_COUNT ELSE Min2(Len(rules), MAX_RULES)
    /\ configured' = Fitting(rules)
    /\ pc' = "idle"
    /\ request' = NoRequest
    /\ reply' = [ok |-> TRUE, verb |-> request.verb, rule |-> request.rule]
    /\ next' = 0
    /\ UNCHANGED <<file, transient, rules, copied, scan, ALLOW_RULES>>

\* seed_rules: the count goes last, and the request is answered OK.
Count ==
    /\ pc = "write"
    /\ next = Min2(Len(rules), MAX_RULES)
    /\ ALLOW_RULE_COUNT' = Min2(Len(rules), MAX_RULES)
    /\ configured' = Fitting(rules)
    /\ pc' = "idle"
    /\ request' = NoRequest
    /\ reply' = [ok |-> TRUE, verb |-> request.verb, rule |-> request.rule]
    /\ next' = 0
    /\ UNCHANGED <<file, transient, rules, copied, scan, ALLOW_RULES>>

\* The daemon dies: the kernel drops the programs and their maps with it.
Crash ==
    /\ pc # "down"
    /\ pc' = "down"
    /\ request' = NoRequest
    /\ reply' = NoReply
    /\ transient' = <<>>
    /\ rules' = <<>>
    /\ ALLOW_RULES' = [i \in Slots |-> Whole(NoRule)]
    /\ ALLOW_RULE_COUNT' = 0
    /\ configured' = {}
    /\ scan' = [c \in Checks |-> Idle]
    /\ next' = 0
    /\ copied' = {}
    /\ UNCHANGED file

\* An operator edits the file at any moment.
Edit ==
    /\ file' \in Files
    /\ UNCHANGED <<transient, pc, request, rules, next, copied, reply, scan,
                   mapVars>>

-----------------------------------------------------------------------------
(* The kernel.                                                             *)

\* check_allowlist: no rule at all denies at once, otherwise bound the scan.
CheckStart(c, want) ==
    /\ pc # "down"
    /\ scan[c].state = "idle"
    /\ LET n == Min2(ALLOW_RULE_COUNT, MAX_RULES)
       IN scan' = [scan EXCEPT ![c] =
              [state |-> IF n = 0 THEN "deny" ELSE "run", want |-> want,
               n |-> n, i |-> 0, todo |-> Fields, got |-> Whole(NoRule),
               seen |-> Effective, kept |-> 0 .. n - 1, met |-> pc = "write"]]
    /\ UNCHANGED <<file, transient, pc, request, rules, next, copied, reply,
                   mapVars>>

JudgeKeepsField(s, got, todo) ==
    LET match == todo = {} /\ got \in s.want
        miss == todo = {} /\ got \notin s.want
    IN  [state |-> IF match THEN "permit" ELSE s.state, want |-> s.want,
         n |-> s.n, i |-> IF miss THEN s.i + 1 ELSE s.i,
         todo |-> IF miss THEN Fields \ {CHOOSE f \in Fields : TRUE} ELSE todo,
         got |-> got, seen |-> s.seen, kept |-> s.kept, met |-> s.met]

\* The scan s, having read what is in `got`: with fields left to read it goes
\* on; else it ends at a rule that matches, and moves on from one that does
\* not.
Judge(s, got, todo) ==
    LET match == todo = {} /\ got \in s.want
        miss == todo = {} /\ got \notin s.want
    IN  [state |-> IF match THEN "permit" ELSE s.state, want |-> s.want,
         n |-> s.n, i |-> IF miss THEN s.i + 1 ELSE s.i,
         todo |-> IF miss THEN Fields ELSE todo,
         got |-> IF miss THEN Whole(NoRule) ELSE got,
         seen |-> s.seen, kept |-> s.kept, met |-> s.met]

StepStopsEarly(c) ==
    /\ scan[c].state = "run"
    /\ LET s == scan[c] IN
       \/ /\ s.i + 1 >= s.n
          /\ scan' = [scan EXCEPT ![c].state = "deny"]
       \/ /\ s.i + 1 < s.n
          /\ \E f \in s.todo :
                scan' = [scan EXCEPT ![c] =
                    Judge(s, [s.got EXCEPT ![f] = ALLOW_RULES[s.i][f]],
                          s.todo \ {f})]
    /\ UNCHANGED <<file, transient, pc, request, rules, next, copied, reply,
                   mapVars>>

\* allow_step, the bpf_loop callback, on slot i: the flags and the values are
\* read from the live slot one at a time, and the rule is judged by what was
\* read.
allow_step(c) ==
    /\ scan[c].state = "run"
    /\ LET s == scan[c] IN
       \/ /\ s.i >= s.n
          /\ scan' = [scan EXCEPT ![c].state = "deny"]
       \/ /\ s.i < s.n
          /\ \E f \in s.todo :
                scan' = [scan EXCEPT ![c] =
                    Judge(s, [s.got EXCEPT ![f] = ALLOW_RULES[s.i][f]],
                          s.todo \ {f})]
    /\ UNCHANGED <<file, transient, pc, request, rules, next, copied, reply,
                   mapVars>>

\* The hook returns the verdict.
CheckDone(c) ==
    /\ scan[c].state \in {"permit", "deny"}
    /\ scan' = [scan EXCEPT ![c] = Idle]
    /\ UNCHANGED <<file, transient, pc, request, rules, next, copied, reply,
                   mapVars>>

Daemon ==
    \/ Start \/ Sighup \/ LoadFails \/ Load \/ WriteFails \/ Count
    \/ \E f \in Fields : Write(f)
    \/ \E r \in Rules : AllowPersistent(r) \/ AllowOnce(r)

Kernel ==
    \E c \in Checks :
        \/ \E want \in Wants : CheckStart(c, want)
        \/ allow_step(c)
        \/ CheckDone(c)

Next == Daemon \/ Kernel \/ Crash \/ Edit

Spec == Init /\ [][Next]_vars

\* The daemon keeps running its own code.
Fairness ==
    /\ WF_vars(LoadFails \/ Load)
    /\ WF_vars((\E f \in Fields : Write(f)) \/ Count)
FairSpec == Spec /\ Fairness

-----------------------------------------------------------------------------
Requests ==
    [verb : {"none", "startup", "sighup", "allow", "once"},
     rule : Rules \cup {NoRule}]
Replies ==
    [ok : BOOLEAN, verb : {"none", "startup", "sighup", "allow", "once"},
     rule : Rules \cup {NoRule}]
Scans ==
    [state : {"idle", "run", "permit", "deny"}, want : SUBSET [Fields -> Rules],
     n : 0 .. MAX_RULES, i : 0 .. MAX_RULES, todo : SUBSET Fields,
     got : [Fields -> Rules \cup {NoRule}],
     seen : SUBSET (Rules \cup {NoRule}), kept : SUBSET Slots, met : BOOLEAN]

\* Every variable has its type: the kernel count never exceeds the map and no
\* scan index leaves it (ALLOW_RULES.get(i) never misses).
TypeOK ==
    /\ file \in Seq(Rules) \cup {Unreadable}
    /\ transient \in Seq(Rules)
    /\ ALLOW_RULES \in [Slots -> [Fields -> Rules \cup {NoRule}]]
    /\ ALLOW_RULE_COUNT \in 0 .. MAX_RULES
    /\ pc \in {"down", "load", "write", "idle"}
    /\ request \in Requests
    /\ rules \in Seq(Rules)
    /\ next \in 0 .. MAX_RULES
    /\ copied \in SUBSET Fields
    /\ reply \in Replies
    /\ scan \in [Checks -> Scans]
    /\ configured \in SUBSET Rules

\* seed_rules leaves stale tail slots unread: whatever the sequence of
\* growing, shrinking and failed reloads, every field of every slot the kernel
\* reads comes from a rule of the last completed seeding or of a seeding begun
\* after it, never from an unwritten slot or an older allowlist.
NoStaleRule == Effective \subseteq configured

\* check_allowlist against concurrent seed_rules: what a scan permits an exec
\* by meets the exec, and each part of it comes from a rule that was enforced
\* when the scan began or that an update brought while it ran.  It is one
\* whole rule unless the scan met an update, and then it is what its slot
\* holds unless that very slot was rewritten under the scan.
PermitJustified ==
    \A c \in Checks :
        LET s == scan[c] IN
        s.state = "permit" =>
            /\ s.got \in s.want
            /\ \A f \in Fields : s.got[f] \in s.seen
            /\ s.met \/ \E r \in s.seen : s.got = Whole(r)
            /\ s.i \in s.kept => s.got = ALLOW_RULES[s.i]

\* README 231: enforce is to "block any marked execve whose origin doesn't
\* match a rule": every permit is by a rule that exists.
PermitByARule ==
    \A c \in Checks :
        scan[c].state = "permit" => \E r \in Rules : scan[c].got = Whole(r)

\* A scan denies only if every matching rule it started with was moved or
\* removed while it ran: a rule whose slot is not rewritten is never missed.
StableRuleNeverMissed ==
    \A c \in Checks :
        scan[c].state = "deny" =>
            \A i \in scan[c].kept : ALLOW_RULES[i] \notin scan[c].want

\* After a request or reload is answered OK the kernel enforces exactly the
\* rules read from the file and the transient ones, as far as they fit, and
\* each of them whole.
SeedComplete ==
    pc = "idle" /\ reply.ok =>
        {ALLOW_RULES[i] : i \in 0 .. ALLOW_RULE_COUNT - 1}
            = {Whole(r) : r \in Fitting(rules)}

\* `allow --once` survives SIGHUP reloads: whenever the last seeding succeeded
\* and file and transient rules fit the map together, each transient rule is
\* enforced.
TransientActive ==
    pc = "idle" /\ reply.ok /\ Len(rules) <= MAX_RULES
        => Range(transient) \subseteq Effective

\* README 289: `--once` rules are "active right away and across `SIGHUP`
\* reloads": every transient rule is enforced after any successful seeding.
OnceActiveAcrossReloads ==
    pc = "idle" /\ reply.ok => Range(transient) \subseteq Effective

\* README 283: `linprov allow` means "append the rule to list.allow
\* (permanent) + apply live": a rule answered OK is enforced, as long as the
\* file was not edited away in between.
AllowAppliesLive ==
    pc = "idle" /\ reply.ok /\ reply.verb = "allow" /\ reply.rule \in Range(rules)
        => reply.rule \in Effective

\* Every seeding ends: a reload or request that reached the daemon is
\* answered, or the daemon dies; no order of slot writes gets stuck.
SeedingEnds == pc \in {"load", "write"} ~> pc \in {"idle", "down"}

-----------------------------------------------------------------------------
(* The promise of module Policy, with the rules in force, the set being    *)
(* installed and what a check may and must count on read off the slots.    *)

Installing == IF pc = "write" THEN Fitting(rules) ELSE {}

\* What check c has met: it may permit through the rules it has seen, must
\* not miss those whose slots were left alone, and may find rules mixed once
\* it met an update.
View(c) ==
    [state |-> scan[c].state, want |-> scan[c].want, may |-> scan[c].seen,
     must |-> {r \in Rules : \E i \in scan[c].kept : ALLOW_RULES[i] = Whole(r)},
     met |-> scan[c].met]

promise == INSTANCE Policy WITH
    active <- Effective,
    updating <- pc = "write",
    target <- Installing,
    ok <- reply.ok,
    check <- [c \in Checks |-> View(c)]

\* seed_rules and check_allowlist together keep the promise: field by field
\* writes and reads under way, growing, shrinking, failing and repeated
\* seedings included, every update and every verdict is one that Policy
\* allows.  So a check that meets no update is exact, and only one that does
\* may take parts of two rules for one.
KeepsPolicy == promise!Spec
=============================================================================
