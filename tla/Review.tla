------------------------------- MODULE Review -------------------------------
(***************************************************************************)
(* The review window (`linprov review`, review.rs) beside the daemon, the  *)
(* tray and the other clients of module Blocks.                            *)
(*                                                                         *)
(* The window shows a snapshot of the pending blocks, one row each, and a  *)
(* button applies one action to the selected rows, a request per row, each *)
(* on a connection of its own.  It waits five seconds for a reply and then *)
(* shows an error; its request stays in the daemon's queue and is carried  *)
(* out later, with nobody to read the answer.                              *)
(***************************************************************************)
EXTENDS Blocks

VARIABLES
    window,    \* "closed", "opening", "ready", "refresh", "apply", "wait"
    rows,      \* each token's row: "none", "open", "error" or "done" (hidden)
    selected,  \* the rows a button's action has still to go through
    verb,      \* that action
    again      \* ghost: hidden rows whose token was blocked again

reviewVars == <<window, rows, selected, verb, again>>
allVars == <<vars, reviewVars>>

NoRows == [t \in Tokens |-> "none"]

ReviewInit ==
    /\ Init
    /\ window = "closed" /\ rows = NoRows
    /\ selected = {} /\ verb = "none"
    /\ again = {}

\* What the window may not disturb by itself.
daemonSide == <<up, busy, wake, table, stream, trayVars, actions, lost>>

-----------------------------------------------------------------------------
(* The window.                                                             *)

\* fetch_pending, when the window opens and on Refresh.
fetch_pending ==
    /\ window \in {"closed", "ready"}
    /\ up
    /\ window' = IF window = "closed" THEN "opening" ELSE "refresh"
    /\ conns' = Append(conns, Conn("review", "list", NoToken))
    /\ UNCHANGED <<daemonSide, inflight, rows, selected, verb, again>>

\* A button, for the rows that are checked and not hidden.
apply(v) ==
    /\ window = "ready"
    /\ \E chosen \in SUBSET {t \in Tokens : rows[t] \in {"open", "error"}} :
          chosen # {} /\ selected' = chosen
    /\ window' = "apply" /\ verb' = v
    /\ UNCHANGED <<vars, rows, again>>

RowAgain(t, outcome) ==
    /\ rows' = [rows EXCEPT ![t] = outcome]
    /\ selected' = IF outcome = "done" THEN selected \ {t} ELSE selected
    /\ IF selected' = {} THEN window' = "ready" /\ verb' = "none"
       ELSE window' = "apply" /\ UNCHANGED verb

\* The row's result is recorded, and the loop goes to the next row.
RowResult(t, outcome) ==
    /\ rows' = [rows EXCEPT ![t] = outcome]
    /\ selected' = selected \ {t}
    /\ IF selected' = {} THEN window' = "ready" /\ verb' = "none"
       ELSE window' = "apply" /\ UNCHANGED verb

\* An allow without a component to allow by is not sent; nor is anything
\* without a daemon to connect to.
Unsent(t) ==
    /\ window = "apply" /\ t \in selected
    /\ verb = "apply" \/ ~up
    /\ RowResult(t, "error")
    /\ UNCHANGED <<vars, again>>

send_command(t) ==
    /\ window = "apply" /\ t \in selected
    /\ up
    /\ conns' = Append(conns, Conn("review", verb, t))
    /\ window' = "wait"
    /\ UNCHANGED <<daemonSide, inflight, rows, selected, verb, again>>

\* The row whose answer the window waits for.
Sent(t) ==
    \/ \E i \in DOMAIN conns : conns[i].client = "review" /\ conns[i].token = t
    \/ ~Queued("review") /\ t \in selected

\* Bound on the requests given up and still in the queue: one per row.
LATE == Cardinality({t \in Tokens : rows[t] # "none"})

\* The read fails: five seconds are over, or the daemon has ended.  A request
\* that was given up stays in the queue; a list that nobody reads changes
\* nothing.
GiveUp ==
    /\ window \in {"opening", "refresh", "wait"}
    /\ IF window = "wait"
       THEN /\ Cardinality({i \in DOMAIN conns : conns[i].client = "late"}) < LATE
            /\ conns' = [i \in DOMAIN conns |->
                          IF conns[i].client = "review"
                          THEN [conns[i] EXCEPT !.client = "late"]
                          ELSE conns[i]]
            /\ \E t \in Tokens : Sent(t) /\ RowResult(t, "error")
       ELSE /\ conns' = SelectSeq(conns, LAMBDA c : c.client # "review")
            /\ window' = IF window = "opening" THEN "closed" ELSE "ready"
            /\ UNCHANGED <<rows, selected, verb>>
    /\ UNCHANGED <<daemonSide, inflight, again>>

Close ==
    /\ window = "ready"
    /\ window' = "closed" /\ rows' = NoRows
    /\ again' = {}
    /\ UNCHANGED <<vars, selected, verb>>

-----------------------------------------------------------------------------
(* The daemon, serving it.                                                 *)

ServeFetch ==
    /\ Served("review") /\ conns[1].verb = "list"
    /\ rows' = [t \in Tokens |-> IF t \in Range(list) THEN "open" ELSE "none"]
    /\ window' = "ready"
    /\ again' = {}
    /\ UNCHANGED <<daemonSide, selected, verb>>

OutcomeAny(ok) == "done"

\* A reply that starts with OK hides the row; any other is shown in it.
Outcome(ok) == IF ok THEN "done" ELSE "error"

ServeRow ==
    /\ conns # <<>> /\ conns[1].verb # "list"
    /\ ServeRequest("review")
    /\ LET t == conns[1].token
           ok == t \in map \ map'
       IN  /\ RowResult(t, Outcome(ok))
           /\ again' = again \ {t}

ServeLate ==
    /\ ServeRequest("late")
    /\ UNCHANGED <<window, rows, selected, verb, again>>

BlocksStep ==
    /\ Next
    /\ again' = again \cup {t \in map' \ map : rows[t] = "done"}
    /\ UNCHANGED <<window, rows, selected, verb>>

ServeReview == ServeFetch \/ ServeRow \/ ServeLate

Window ==
    \/ fetch_pending \/ GiveUp \/ Close
    \/ \E v \in Verbs : apply(v)
    \/ \E t \in Tokens : Unsent(t) \/ send_command(t)

ReviewNext == BlocksStep \/ ServeReview \/ Window

\* The window's thread runs on through a pass; the rest is as in Blocks.
ReviewFairness ==
    /\ WF_vars(Drain)
    /\ WF_vars(Serve) /\ WF_vars(Timeout) /\ WF_vars(stream_blocks)
    /\ WF_vars(Restart)
    /\ WF_vars(Subscribe) /\ WF_vars(list_pending) /\ WF_vars(Backfill)
    /\ WF_vars(ReadLine) /\ WF_vars(Disconnect) /\ WF_vars(action_worker)
    /\ WF_allVars(ServeReview)
    /\ WF_allVars(\E t \in Tokens : Unsent(t) \/ send_command(t))
    /\ WF_allVars(GiveUp)

ReviewSpec == ReviewInit /\ [][ReviewNext]_allVars /\ ReviewFairness

-----------------------------------------------------------------------------
(* Correctness.                                                            *)

\* HiddenMeansResolved: a row the window has hidden as dealt with is a block
\* the daemon no longer holds, or one that was blocked again afterwards,
\* whatever other commands and requests given up do meanwhile.
HiddenMeansResolved ==
    \A t \in Tokens : rows[t] = "done" => t \notin map \/ t \in again

\* PassEnds: a bulk action comes to its end, past every selected row, although
\* the daemon refuses some, is slow, serves others first or ends.
PassEnds == window \in {"apply", "wait"} ~> window = "ready"

-----------------------------------------------------------------------------
(* What the repository's comments say, beyond the above.                   *)

\* apply: "a success hides the row, an error keeps it with the daemon's
\* message": no request is carried out whose row shows an error.
ErrorMeansUndone ==
    [][\A t \in map \ map' :
          up' /\ conns # <<>> /\ conns' = Tail(conns) /\ rows'[t] = "error"
          => conns[1].client # "late"]_allVars
=============================================================================
