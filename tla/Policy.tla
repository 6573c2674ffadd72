------------------------------- MODULE Policy -------------------------------
(***************************************************************************)
(* What the allowlist promises to an exec, without slots, counts or a scan *)
(* index: a set of rules is in force, an update replaces it by another set *)
(* and may be seen half done, and a check answers from what it met.        *)
(*                                                                         *)
(* While no update is under way a check is exact.  A check that overlaps   *)
(* an update permits only through a rule that was in force when it began   *)
(* or that the update brought meanwhile, or, as rules are replaced field   *)
(* by field under it, through fields of several of them; and it denies     *)
(* only when no matching rule stayed in force, undisturbed, from its       *)
(* beginning.  OK is answered only for an update that put exactly its      *)
(* rules in force.  Module RuleSeed implements this specification.         *)
(***************************************************************************)
CONSTANTS
    Rules,   \* the rules there may be
    Fields,  \* the parts of a rule that are read one by one
    Checks,  \* the checks that may run side by side
    Wants    \* the sets of field combinations an exec may meet

VARIABLES
    active,    \* the rules in force
    updating,  \* an update is under way
    target,    \* the set it is installing
    ok,        \* the last request was answered OK
    check      \* what each check has met

vars == <<active, updating, target, ok, check>>

Whole(r) == [f \in Fields |-> r]

Resting ==
    [state |-> "idle", want |-> {}, may |-> {}, must |-> {}, met |-> FALSE]

Init ==
    /\ active = {}
    /\ updating = FALSE
    /\ target = {}
    /\ ok = FALSE
    /\ check = [c \in Checks |-> Resting]

-----------------------------------------------------------------------------
(* Updates.                                                                *)

\* A request comes in; it may end here, refused.
Request ==
    /\ ~updating
    /\ ok' = FALSE
    /\ UNCHANGED <<active, updating, target, check>>

BeginUpdate ==
    /\ ~updating
    /\ updating' = TRUE
    /\ target' \in SUBSET Rules
    /\ ok' = FALSE
    /\ UNCHANGED <<active, check>>

\* The new rule r comes in, all or part of it, and any old ones go: a check
\* under way has met the update, may meet r and can count only on those of
\* its rules that were left alone.
Install(r) ==
    /\ updating
    /\ r \in target
    /\ active' \in SUBSET (active \cup {r})
    /\ \E left \in [Checks -> SUBSET Rules] :
          check' = [c \in Checks |->
              IF check[c].state = "idle" THEN check[c]
              ELSE [state |-> check[c].state, want |-> check[c].want,
                    may |-> check[c].may \cup {r},
                    must |-> check[c].must \cap left[c], met |-> TRUE]]
    /\ UNCHANGED <<updating, target, ok>>

\* The update is complete: exactly its rules are in force, and only this is
\* answered OK.
EndUpdate ==
    /\ updating
    /\ active' = target
    /\ ok' = TRUE
    /\ updating' = FALSE /\ target' = {}
    /\ UNCHANGED check

\* It is given up: what it brought so far stays.
FailUpdate ==
    /\ updating
    /\ ok' = FALSE
    /\ updating' = FALSE /\ target' = {}
    /\ UNCHANGED <<active, check>>

\* The daemon and its hooks are gone.
Down ==
    /\ active' = {}
    /\ ok' = FALSE
    /\ updating' = FALSE /\ target' = {}
    /\ check' = [c \in Checks |-> Resting]

-----------------------------------------------------------------------------
(* Checks.                                                                 *)

Started(state, want, lost) ==
    [state |-> state, want |-> want, may |-> active, must |-> active \ lost,
     met |-> updating]

\* A check begins with the rules in force.  While an update is under way it
\* cannot count on the one being replaced, nor on the one that replaces it.
Start(c, want) ==
    /\ check[c].state = "idle"
    /\ \E lost \in SUBSET active :
          /\ lost # {} => updating /\ \E a, b \in active : lost = {a, b}
          /\ \/ check' = [check EXCEPT ![c] = Started("run", want, lost)]
             \/ /\ active = {}
                /\ check' = [check EXCEPT ![c] = Started("deny", want, lost)]
    /\ UNCHANGED <<active, updating, target, ok>>

\* A rule matches, or, for a check that met an update, parts of several do.
Permit(c) ==
    /\ check[c].state = "run"
    /\ \/ \E r \in check[c].may : Whole(r) \in check[c].want
       \/ check[c].met /\ check[c].want \cap [Fields -> check[c].may] # {}
    /\ check' = [check EXCEPT ![c].state = "permit"]
    /\ UNCHANGED <<active, updating, target, ok>>

Deny(c) ==
    /\ check[c].state = "run"
    /\ \A r \in check[c].must : Whole(r) \notin check[c].want
    /\ check' = [check EXCEPT ![c].state = "deny"]
    /\ UNCHANGED <<active, updating, target, ok>>

Done(c) ==
    /\ check[c].state \in {"permit", "deny"}
    /\ check' = [check EXCEPT ![c] = Resting]
    /\ UNCHANGED <<active, updating, target, ok>>

Next ==
    \/ Request \/ BeginUpdate \/ EndUpdate \/ FailUpdate \/ Down
    \/ \E r \in Rules : Install(r)
    \/ \E c \in Checks :
          \/ \E want \in Wants : Start(c, want)
          \/ Permit(c) \/ Deny(c) \/ Done(c)

Spec == Init /\ [][Next]_vars
=============================================================================
