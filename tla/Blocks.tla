------------------------------- MODULE Blocks -------------------------------
(***************************************************************************)
(* Blocked execs awaiting a decision: the daemon's table (control.rs), the *)
(* control socket that lists, resolves and follows it (run.rs), and the    *)
(* tray agent that shows it on the desktop (notify.rs).                    *)
(*                                                                         *)
(* A token stands for a block: it is the keyed hash of the candidate rule, *)
(* assumed to have no collisions.  What a record holds besides its token   *)
(* is only displayed, or belongs to module RuleSeed (the rule).            *)
(*                                                                         *)
(* The daemon is one task: it serves a connection to its end, or handles   *)
(* up to DRAIN_BUDGET events of the ring, before it looks at anything      *)
(* else.  A stream_blocks task, the tray's two threads and its menu, and   *)
(* the other clients run beside it.                                        *)
(***************************************************************************)
EXTENDS Integers, Sequences, FiniteSets, Functions

CONSTANTS
    Tokens,
    MAX_BLOCKS,  \* pending blocks the daemon remembers (512)
    MAX_RECENT,  \* entries of the tray menu (20)
    CHANNEL,     \* capacity of the broadcast channel (256)
    WIRE,        \* events a socket buffer holds
    SOCKET,      \* list entries a socket buffer holds
    DRAIN_BUDGET, \* events handled before the loop looks up (256)
    CLICKS,      \* bound on menu clicks waiting for the worker
    Trays,       \* whether there is a tray: subset of {"off", "absent"}
    Faults       \* subset of {"restart", "silent", "unread"}

ASSUME BlocksAssumption ==
    /\ IsFiniteSet(Tokens)
    /\ MAX_BLOCKS \in Nat \ {0} /\ MAX_RECENT \in Nat /\ CHANNEL \in Nat \ {0}
    /\ WIRE \in Nat \ {0} /\ SOCKET \in Nat /\ CLICKS \in Nat
    /\ DRAIN_BUDGET \in Nat \ {0}
    /\ Trays \subseteq {"off", "absent"}

VARIABLES
    up,          \* the daemon runs
    busy,        \* what it waits for: "no", a request to "read", a reply to
                 \* "write"
    wake,        \* events handled since the ring's arm was taken; 0: select
    map, order,  \* BlocksTable: the pending tokens, and oldest first
    conns,       \* connections in the listener's queue
    sub,         \* the tray's subscription: "none", "queued", "open", "closed"
    rx,          \* its broadcast receiver: events not yet forwarded
    wire,        \* its socket: events not yet read
    tray,        \* the subscribe thread: "off", "list", "wait", "backfill",
                 \* "follow"; "absent" where no tray agent runs
    backlog,     \* list reply not yet pushed
    recent,      \* LinprovTray.recent, newest first
    actions,     \* menu clicks on their way to the worker
    inflight     \* the worker waits for a reply

\* Ghosts.
VARIABLES
    recency,     \* pending tokens, by the time they were last blocked
    lost,        \* tokens whose latest change was not announced to the tray
    acted        \* tokens the user has dealt with in the tray's menu

table == <<map, order, recency>>
stream == <<sub, rx, wire>>
trayVars == <<tray, backlog, recent, acted>>
worker == <<actions, inflight>>
vars == <<up, busy, wake, map, order, conns, sub, rx, wire, tray, backlog, recent,
          actions, inflight, recency, lost, acted>>

\* VecDeque::retain: the entries other than t, in their order.
Without(s, t) ==
    LET kept == {i \in DOMAIN s : s[i] # t}
        nth(n) == CHOOSE i \in kept : Cardinality({j \in kept : j <= i}) = n
    IN  [n \in 1 .. Cardinality(kept) |-> s[nth(n)]]

Mentions(events) == {events[i].token : i \in DOMAIN events}

\* Requests to the daemon: allow, once and quarantine differ only in what
\* they do besides the table; all three may fail and leave it alone.
Verbs == {"apply", "dismiss"}
Conn(client, verb, t) == [client |-> client, verb |-> verb, token |-> t]
Queued(client) == \E i \in DOMAIN conns : conns[i].client = client
NoToken == "-"

Init ==
    /\ up = TRUE /\ busy = "no" /\ wake = 0
    /\ map = {} /\ order = <<>> /\ recency = <<>>
    /\ conns = <<>>
    /\ sub = "none" /\ rx = <<>> /\ wire = <<>>
    /\ tray \in Trays /\ backlog = <<>> /\ recent = <<>>
    /\ actions = <<>> /\ inflight = FALSE
    /\ lost = {} /\ acted = {}

-----------------------------------------------------------------------------
(* The table.                                                              *)

\* block_tx.send: without a receiver the event is gone; a full channel
\* drops the receiver's oldest event (RecvError::Lagged, which stream_blocks
\* skips).  `unannounced` are tokens that leave the table with no event.
Send(kind, t, unannounced) ==
    LET ev == [kind |-> kind, token |-> t]
        full == Len(rx) = CHANNEL
        queue == IF full THEN Append(Tail(rx), ev) ELSE Append(rx, ev)
        gap == IF full THEN {rx[1].token} \ Mentions(queue) ELSE {}
    IN  IF sub = "open"
        THEN /\ rx' = queue
             /\ lost' = (lost \ {t}) \cup gap \cup unannounced
        ELSE /\ lost' = lost \cup {t} \cup unannounced
             /\ UNCHANGED rx

\* BlocksTable::record: a known token keeps its place, a new one evicts the
\* front when the table is full.
record(t) ==
    IF t \in map
    THEN UNCHANGED <<map, order>>
    ELSE LET full == Len(order) >= MAX_BLOCKS
         IN  /\ order' = Append(IF full THEN Tail(order) ELSE order, t)
             /\ map' = (IF full THEN map \ {order[1]} ELSE map) \cup {t}

DrainedForever(n) == 1

\* One more event is handled; after DRAIN_BUDGET of them the loop looks up.
Drained(n) == IF n + 1 >= DRAIN_BUDGET THEN 0 ELSE n + 1

\* The ring delivers a blocked exec or script: record_block_token.  The
\* select is biased: the ring's arm is taken only when no connection waits.
Block(t) ==
    LET evicts == t \notin map /\ Len(order) >= MAX_BLOCKS
        evicted == IF evicts THEN {order[1]} ELSE {}
        older == IF evicts THEN Without(recency, order[1]) ELSE recency
    IN  /\ up /\ busy = "no"
        /\ wake = 0 => conns = <<>>
        /\ wake' = Drained(wake)
        /\ record(t)
        /\ recency' = Append(Without(older, t), t)
        /\ Send("BLOCK", t, evicted)
        /\ UNCHANGED <<up, busy, conns, sub, wire, trayVars, worker>>

\* The ring is empty before the budget is used up: back to the select.
RingEmpty ==
    /\ wake > 0
    /\ wake' = 0
    /\ UNCHANGED <<up, busy, table, conns, stream, trayVars, worker, lost>>

removeForgetsOrder(t) == map' = map \ {t} /\ UNCHANGED order

\* BlocksTable::remove.
remove(t) == map' = map \ {t} /\ order' = Without(order, t)

-----------------------------------------------------------------------------
(* The control socket.                                                     *)

\* The connection being served; the worker's reply ends its request.
Served(client) ==
    /\ up /\ busy = "no" /\ wake = 0
    /\ conns # <<>> /\ conns[1].client = client
    /\ conns' = Tail(conns)
    /\ inflight' = IF client = "worker" THEN FALSE ELSE inflight

ServeSubscribe ==
    /\ Served("subscribe")
    /\ sub' = "open" /\ rx' = <<>>
    /\ UNCHANGED <<up, busy, wake, table, wire, trayVars, actions, lost>>

listUnfinished == SubSeq(order, 2, Len(order))

\* BlocksTable::list, oldest first.
list == order

\* Ghost: the list makes up for what was lost before, unless an older event
\* is still under way or the menu has an entry the table has not.
ServeList ==
    /\ Served("list")
    /\ backlog' = list
    /\ tray' = "backfill"
    /\ lost' = {t \in lost : \/ t \in Mentions(wire \o rx)
                             \/ t \in Range(recent) \ map}
    /\ UNCHANGED <<up, busy, wake, table, stream, recent, acted, actions>>

ServeRequestSilently(client) ==
    /\ Served(client)
    /\ LET t == conns[1].token
       IN  \/ /\ t \in map
              /\ remove(t)
              /\ recency' = Without(recency, t)
              /\ UNCHANGED <<rx, lost>>
           \/ /\ t \notin map \/ conns[1].verb = "apply"
              /\ UNCHANGED <<table, rx, lost>>
    /\ UNCHANGED <<up, busy, wake, sub, wire, trayVars, actions>>

\* process_control_request: a token that is not pending is an error, and
\* allow, once and quarantine may fail; otherwise the token is removed and
\* every subscriber told.
ServeRequest(client) ==
    /\ Served(client)
    /\ LET t == conns[1].token
       IN  \/ /\ t \in map
              /\ remove(t)
              /\ recency' = Without(recency, t)
              /\ Send("RESOLVED", t, {})
           \/ /\ t \notin map \/ conns[1].verb = "apply"
              /\ UNCHANGED <<table, rx, lost>>
    /\ UNCHANGED <<up, busy, wake, sub, wire, trayVars, actions>>

\* A client that connects and sends nothing, or does not read its reply.
ServeStuck ==
    /\ Served("stuck")
    /\ busy' = IF conns[1].verb = "silent" THEN "read"
               ELSE IF Len(list) > SOCKET THEN "write" ELSE "no"
    /\ UNCHANGED <<up, wake, table, stream, trayVars, actions, lost>>

\* The five-second limit on reading a request.
Timeout ==
    /\ busy = "read"
    /\ busy' = "no"
    /\ UNCHANGED <<up, wake, table, conns, stream, trayVars, worker, lost>>

\* The stuck client reads on or goes away.
StuckEnds ==
    /\ busy # "no"
    /\ busy' = "no"
    /\ UNCHANGED <<up, wake, table, conns, stream, trayVars, worker, lost>>

\* stream_blocks: write_all waits for room in the socket.
stream_blocks ==
    /\ sub = "open"
    /\ rx # <<>> /\ Len(wire) < WIRE
    /\ wire' = Append(wire, rx[1])
    /\ rx' = Tail(rx)
    /\ UNCHANGED <<up, busy, wake, table, conns, sub, trayVars, worker, lost>>

\* The daemon ends.  Every connection closes; what is in the tray's socket
\* can still be read; a client waiting for a reply reads end of file.
Crash ==
    /\ "restart" \in Faults
    /\ up
    /\ up' = FALSE /\ busy' = "no" /\ wake' = 0
    /\ map' = {} /\ order' = <<>> /\ recency' = <<>>
    /\ conns' = <<>>
    /\ sub' = IF sub \in {"queued", "open"} THEN "closed" ELSE sub
    /\ rx' = <<>>
    /\ tray' = IF tray = "wait" THEN "follow" ELSE tray
    /\ inflight' = FALSE
    /\ lost' = Tokens
    /\ UNCHANGED <<wire, backlog, recent, acted, actions>>

Restart ==
    /\ ~up
    /\ up' = TRUE
    /\ UNCHANGED <<busy, wake, table, conns, stream, trayVars, worker, lost>>

-----------------------------------------------------------------------------
(* The tray.                                                               *)

\* LinprovTray::push: newest first, no duplicates, at most MAX_RECENT.
push(t) ==
    LET s == <<t>> \o Without(recent, t)
    IN  recent' = SubSeq(s, 1, IF Len(s) < MAX_RECENT THEN Len(s)
                               ELSE MAX_RECENT)

\* subscribe_once: connect and ask for the stream ...
Subscribe ==
    /\ tray = "off" /\ up
    /\ tray' = "list"
    /\ sub' = "queued"
    /\ conns' = Append(conns, Conn("subscribe", "subscribe", NoToken))
    /\ UNCHANGED <<up, busy, wake, table, rx, wire, backlog, recent, acted, worker,
                   lost>>

\* ... then ask for the list; without an answer the menu is not filled.
list_pending ==
    /\ tray = "list"
    /\ IF up
       THEN /\ tray' = "wait"
            /\ conns' = Append(conns, Conn("list", "list", NoToken))
       ELSE /\ tray' = "follow"
            /\ UNCHANGED conns
    /\ UNCHANGED <<up, busy, wake, table, stream, backlog, recent, acted, worker,
                   lost>>

Backfill ==
    /\ tray = "backfill"
    /\ IF backlog = <<>>
       THEN tray' = "follow" /\ UNCHANGED <<backlog, recent, acted>>
       ELSE /\ push(backlog[1])
            /\ backlog' = Tail(backlog)
            /\ acted' = acted \ {backlog[1]}
            /\ UNCHANGED tray
    /\ UNCHANGED <<up, busy, wake, table, conns, stream, worker, lost>>

\* One line of the stream: a block is shown, a resolved token dropped.
ReadLine ==
    /\ tray = "follow"
    /\ wire # <<>>
    /\ wire' = Tail(wire)
    /\ LET ev == wire[1]
       IN  IF ev.kind = "BLOCK"
           THEN push(ev.token) /\ acted' = acted \ {ev.token}
           ELSE recent' = Without(recent, ev.token) /\ UNCHANGED acted
    /\ UNCHANGED <<up, busy, wake, table, conns, sub, rx, tray, backlog, worker,
                   lost>>

\* End of file: subscribe_loop waits and connects again; the menu stays.
Disconnect ==
    /\ tray = "follow"
    /\ sub = "closed" /\ wire = <<>>
    /\ tray' = "off"
    /\ sub' = "none"
    /\ UNCHANGED <<up, busy, wake, table, conns, rx, wire, backlog, recent, acted,
                   worker, lost>>

\* LinprovTray::dispatch, on a click in the menu.
dispatch(t, verb) ==
    /\ t \in Range(recent)
    /\ Len(actions) < CLICKS
    /\ actions' = Append(actions, Conn("worker", verb, t))
    /\ recent' = Without(recent, t)
    /\ acted' = acted \cup {t}
    /\ UNCHANGED <<up, busy, wake, table, conns, stream, tray, backlog, inflight,
                   lost>>

\* action_worker: one request at a time; none when it cannot connect.
action_worker ==
    /\ actions # <<>> /\ ~inflight
    /\ actions' = Tail(actions)
    /\ IF up
       THEN conns' = Append(conns, actions[1]) /\ inflight' = TRUE
       ELSE UNCHANGED <<conns, inflight>>
    /\ UNCHANGED <<up, busy, wake, table, stream, trayVars, lost>>

-----------------------------------------------------------------------------
(* Other clients: `linprov allow` and a client that gets stuck.  The       *)
(* review window is module Review.                                         *)

Ask(conn) ==
    /\ up /\ ~Queued(conn.client)
    /\ conns' = Append(conns, conn)
    /\ UNCHANGED <<up, busy, wake, table, stream, trayVars, worker, lost>>

Command(t, verb) == Ask(Conn("cli", verb, t))

Stick(how) == how \in Faults /\ Ask(Conn("stuck", how, NoToken))

-----------------------------------------------------------------------------
Serve ==
    \/ ServeSubscribe \/ ServeList \/ ServeStuck
    \/ \E client \in {"worker", "cli"} : ServeRequest(client)

Tray ==
    \/ Subscribe \/ list_pending \/ Backfill \/ ReadLine \/ Disconnect
    \/ \E t \in Tokens, verb \in Verbs : dispatch(t, verb)
    \/ action_worker

Others ==
    \/ \E t \in Tokens, verb \in Verbs : Command(t, verb)
    \/ \E how \in {"silent", "unread"} : Stick(how)
    \/ StuckEnds

Next ==
    \/ \E t \in Tokens : Block(t)
    \/ RingEmpty
    \/ Serve \/ Timeout \/ stream_blocks \/ Crash \/ Restart
    \/ Tray \/ Others

Spec == Init /\ [][Next]_vars

\* The rest of a wake: the next event, or none.
Drain == wake > 0 /\ (RingEmpty \/ \E t \in Tokens : Block(t))

\* The daemon's task, the stream's task and the tray's threads keep running;
\* nothing obliges a user, a client or the kernel, and the ring may never run
\* dry.
FairSpec ==
    /\ Spec
    /\ WF_vars(Drain)
    /\ WF_vars(Serve) /\ WF_vars(Timeout) /\ WF_vars(stream_blocks)
    /\ WF_vars(Restart)
    /\ WF_vars(Subscribe) /\ WF_vars(list_pending) /\ WF_vars(Backfill)
    /\ WF_vars(ReadLine) /\ WF_vars(Disconnect) /\ WF_vars(action_worker)

-----------------------------------------------------------------------------
(* Correctness.                                                            *)

Events == [kind : {"BLOCK", "RESOLVED"}, token : Tokens]
Requests ==
    [client : {"worker", "cli"}, verb : Verbs, token : Tokens]
        \cup [client : {"subscribe"}, verb : {"subscribe"}, token : {NoToken}]
        \cup [client : {"list"}, verb : {"list"}, token : {NoToken}]
        \cup [client : {"stuck"}, verb : {"silent", "unread"},
              token : {NoToken}]

\* Every variable keeps its type; the table, the channel, the socket and
\* the menu stay within their capacities.
TypeOK ==
    /\ up \in BOOLEAN /\ busy \in {"no", "read", "write"}
    /\ wake \in 0 .. DRAIN_BUDGET - 1
    /\ map \subseteq Tokens /\ order \in Seq(Tokens)
    /\ recency \in Seq(Tokens)
    /\ conns \in Seq(Requests)
    /\ sub \in {"none", "queued", "open", "closed"}
    /\ rx \in Seq(Events) /\ wire \in Seq(Events)
    /\ Len(rx) <= CHANNEL /\ Len(wire) <= WIRE
    /\ tray \in {"absent", "off", "list", "wait", "backfill", "follow"}
    /\ backlog \in Seq(Tokens)
    /\ recent \in Seq(Tokens) /\ Len(recent) <= MAX_RECENT
    /\ actions \in Seq(Requests) /\ inflight \in BOOLEAN
    /\ lost \subseteq Tokens /\ acted \subseteq Tokens

\* TableConsistent: the map and the order of BlocksTable hold the same
\* tokens, each once, never more than MAX_BLOCKS, through any mix of
\* recurrences, evictions and resolutions.
TableConsistent ==
    /\ map = Range(order)
    /\ \A i, j \in DOMAIN order : order[i] = order[j] => i = j
    /\ Len(order) <= MAX_BLOCKS

\* What the menu will show of t once everything under way has arrived: the
\* last event about it decides, else the list reply, else the menu.
Shown(t) ==
    LET coming == wire \o rx
        about == {i \in DOMAIN coming : coming[i].token = t}
        latest == CHOOSE i \in about : \A j \in about : j <= i
    IN  IF about # {} THEN coming[latest].kind = "BLOCK"
        ELSE t \in Range(backlog) \cup Range(recent)

Following == sub = "open" /\ tray \in {"backfill", "follow"}

\* NoPhantom: whatever order clicks, commands, blocks and stream events come
\* in, the menu ends up without a block that is no longer pending, unless
\* the change was never announced (lag, eviction, restart).
NoPhantom ==
    Following => \A t \in Tokens \ lost : Shown(t) => t \in map

\* NothingMissed: a pending block ends up in the menu, the ones from before
\* the tray subscribed and the ones during its list request included, unless
\* its event was lost to lag or the user has dealt with it there.
NothingMissed ==
    Following /\ MAX_RECENT >= Cardinality(Tokens)
        => \A t \in map \ (lost \cup acted) : Shown(t)

\* EveryRequestServed: the daemon comes back to its queue, silent clients and
\* a ring that never runs dry notwithstanding: each request is answered or
\* the daemon ends.
EveryRequestServed ==
    \A client \in {"cli", "worker", "list", "subscribe"} :
        Queued(client) ~> ~Queued(client)

\* BlockReachesTray: a pending block gets into the menu, is resolved, or was
\* lost or dealt with there.
BlockReachesTray ==
    \A t \in Tokens :
        t \in map ~> (t \notin map \/ t \in Range(recent) \cup lost \cup acted)

-----------------------------------------------------------------------------
(* What the repository's comments say, beyond the above.                   *)

\* control.rs calls the cap on remembered tokens LRU: what is evicted is
\* what was blocked least recently.
EvictsLeastRecent ==
    [][\A t \in map \ map' : order' # <<>> /\ map' \ map # {}
                                => t = recency[1]]_vars

\* notify.rs: a RESOLVED drops the entry "so every view stays in sync": when
\* nothing is under way, the menu shows pending blocks only.
ViewsInSync ==
    Following /\ tray = "follow" /\ wire = <<>> /\ rx = <<>>
        => Range(recent) \subseteq map

\* run.rs: the read timeout is there "so a stuck client can't wedge the
\* loop".
LoopNeverWedged == busy # "no" ~> busy = "no"
=============================================================================
