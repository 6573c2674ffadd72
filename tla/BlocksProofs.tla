---------------------------- MODULE BlocksProofs ----------------------------
(***************************************************************************)
(* Proofs about the table of pending blocks, the tray's view of it (module *)
(* Blocks) and the review window (module Review): the type invariant, and  *)
(* TableConsistent, NoPhantom, NothingMissed and HiddenMeansResolved, for  *)
(* any set of tokens, any capacities and every fault.                      *)
(***************************************************************************)
EXTENDS Review, FiniteSetTheorems, TLAPS

-----------------------------------------------------------------------------
(* What retain does to a sequence.                                         *)

\* A sequence that holds no value twice.
Distinct(s) == \A i, j \in DOMAIN s : s[i] = s[j] => i = j

\* The rank of a position among the ones that are kept.
Rank(kept, i) == Cardinality({j \in kept : j <= i})

\* Ranks grow with the positions, between 1 and the number of positions.
LEMMA RankGrows ==
    ASSUME NEW n \in Nat, NEW kept \in SUBSET (1 .. n)
    PROVE  /\ IsFiniteSet(kept)
           /\ Cardinality(kept) \in Nat /\ Cardinality(kept) <= n
           /\ \A i \in kept : Rank(kept, i) \in 1 .. Cardinality(kept)
           /\ \A i, k \in kept : i < k => Rank(kept, i) < Rank(kept, k)
<1> DEFINE upto(i) == {j \in kept : j <= i}
<1>1. IsFiniteSet(1 .. n) /\ Cardinality(1 .. n) = n
  BY FS_Interval
<1>2. IsFiniteSet(kept) /\ Cardinality(kept) \in Nat /\ Cardinality(kept) <= n
  BY <1>1, FS_Subset, FS_CardinalityType
<1>3. ASSUME NEW i \in kept
      PROVE  /\ IsFiniteSet(upto(i)) /\ Cardinality(upto(i)) \in Nat
             /\ Cardinality(upto(i)) <= Cardinality(kept)
             /\ Cardinality(upto(i)) # 0
  <2>1. upto(i) \in SUBSET kept /\ i \in upto(i)
    OBVIOUS
  <2>2. IsFiniteSet(upto(i)) /\ Cardinality(upto(i)) <= Cardinality(kept)
    BY <1>2, <2>1, FS_Subset
  <2>3. Cardinality(upto(i)) \in Nat
    BY <2>2, FS_CardinalityType
  <2>4. Cardinality(upto(i)) # 0
    BY <2>1, <2>2, FS_EmptySet
  <2> QED
    BY <2>2, <2>3, <2>4
<1>4. ASSUME NEW i \in kept, NEW k \in kept, i < k
      PROVE  Cardinality(upto(i)) < Cardinality(upto(k))
  <2>0. \A j \in kept : j \in Int
    OBVIOUS
  <2>1. upto(i) \in SUBSET upto(k) /\ k \in upto(k) /\ k \notin upto(i)
    <3>1. \A j \in kept : j <= i => j <= k
      BY <1>4, <2>0
    <3>2. k <= k /\ ~(k <= i)
      BY <1>4, <2>0
    <3> QED
      BY <3>1, <3>2
  <2>2. /\ Cardinality(upto(i)) <= Cardinality(upto(k))
        /\ Cardinality(upto(k)) = Cardinality(upto(i)) => upto(k) = upto(i)
    BY <2>1, <1>3, FS_Subset
  <2> QED
    BY <2>1, <2>2, <1>3
<1> HIDE DEF upto
<1>5. \A i \in kept : Rank(kept, i) = Cardinality(upto(i))
  BY DEF Rank, upto
<1> QED
  BY <1>2, <1>3, <1>4, <1>5

\* Every rank is taken.
LEMMA RankTaken ==
    ASSUME NEW n \in Nat, NEW kept \in SUBSET (1 .. n),
           NEW r \in 1 .. Cardinality(kept)
    PROVE  \E i \in kept : Rank(kept, i) = r
<1> DEFINE rank == [i \in kept |-> Rank(kept, i)]
           ranks == 1 .. Cardinality(kept)
<1>1. IsFiniteSet(kept) /\ Cardinality(kept) \in Nat
  BY RankGrows
<1>2. \A i \in kept : Rank(kept, i) \in ranks
  BY RankGrows
<1>3. rank \in [kept -> ranks]
  BY <1>2
<1>4. IsInjective(rank)
  <2>1. \A i, k \in kept : i < k => Rank(kept, i) < Rank(kept, k)
    BY RankGrows
  <2>2. \A i \in kept : Rank(kept, i) \in Int
    BY <1>2, <1>1
  <2>3. ASSUME NEW i \in kept, NEW k \in kept, Rank(kept, i) = Rank(kept, k)
        PROVE  i = k
    <3>1. ~(i < k) /\ ~(k < i)
      BY <2>1, <2>2, <2>3
    <3> QED
      BY <3>1
  <2> QED
    BY <2>3 DEF IsInjective
<1>5. rank \in Injection(kept, ranks)
  BY <1>3, <1>4 DEF Injection
<1>6. IsFiniteSet(ranks) /\ Cardinality(ranks) = Cardinality(kept)
  BY <1>1, FS_Interval
<1>7. rank \in Surjection(kept, ranks)
  BY <1>5, <1>6, FS_Injection
<1> QED
  BY <1>7 DEF Surjection

\* Without(s, t) is a sequence of the entries of s other than t, no longer
\* than s; it repeats nothing that s does not.
LEMMA WithoutProps ==
    ASSUME NEW S, NEW s \in Seq(S), NEW t
    PROVE  /\ Without(s, t) \in Seq(S)
           /\ Len(Without(s, t)) <= Len(s)
           /\ Range(Without(s, t)) = Range(s) \ {t}
           /\ Distinct(s) => Distinct(Without(s, t))
<1> DEFINE kept == {i \in DOMAIN s : s[i] # t}
           nth(n) == CHOOSE i \in kept : Rank(kept, i) = n
           w == [n \in 1 .. Cardinality(kept) |-> s[nth(n)]]
<1>1. Without(s, t) = w
  BY DEF Without, Rank
<1>2. kept \in SUBSET (1 .. Len(s)) /\ Len(s) \in Nat
  OBVIOUS
<1>3. Cardinality(kept) \in Nat /\ Cardinality(kept) <= Len(s)
  BY <1>2, RankGrows
<1>4. \A i \in kept : Rank(kept, i) \in 1 .. Cardinality(kept)
  BY <1>2, RankGrows
<1>5. \A i, k \in kept : i < k => Rank(kept, i) < Rank(kept, k)
  BY <1>2, RankGrows
<1>6. \A n \in 1 .. Cardinality(kept) : \E i \in kept : Rank(kept, i) = n
  BY <1>2, RankTaken
<1>7. \A n \in 1 .. Cardinality(kept) :
         nth(n) \in kept /\ Rank(kept, nth(n)) = n
  BY <1>6
<1>8. \A i \in kept : nth(Rank(kept, i)) = i
  <2> SUFFICES ASSUME NEW i \in kept PROVE nth(Rank(kept, i)) = i
    OBVIOUS
  <2> DEFINE k == nth(Rank(kept, i))
  <2>1. k \in kept /\ Rank(kept, k) = Rank(kept, i)
    BY <1>4, <1>7
  <2>2. Rank(kept, k) \in Int /\ k \in Int /\ i \in Int
    BY <2>1, <1>4, <1>3, <1>2
  <2> HIDE DEF k, kept, nth
  <2>3. ~(i < k) /\ ~(k < i)
    BY <2>1, <2>2, <1>5
  <2> QED
    BY <2>2, <2>3 DEF k
<1> HIDE DEF nth
<1>9. \A n \in 1 .. Cardinality(kept) : nth(n) \in DOMAIN s /\ s[nth(n)] # t
  BY <1>7
<1>10. /\ \A n \in 1 .. Cardinality(kept) : s[nth(n)] \in S
       /\ w \in [1 .. Cardinality(kept) -> S]
  BY <1>9
<1>11. w \in Seq(S) /\ Len(w) = Cardinality(kept)
  BY <1>10, <1>3
<1>12. Range(w) = Range(s) \ {t}
  <2>1. Range(w) \subseteq Range(s) \ {t}
    BY <1>9 DEF Range
  <2>2. ASSUME NEW i \in DOMAIN s, s[i] # t PROVE s[i] \in Range(w)
    <3>1. i \in kept
      BY <2>2
    <3>2. Rank(kept, i) \in DOMAIN w /\ w[Rank(kept, i)] = s[i]
      BY <3>1, <1>4, <1>8
    <3> QED
      BY <3>2 DEF Range
  <2> QED
    BY <2>1, <2>2 DEF Range
<1>13. ASSUME Distinct(s) PROVE Distinct(w)
  <2> SUFFICES ASSUME NEW m \in 1 .. Cardinality(kept),
                      NEW n \in 1 .. Cardinality(kept),
                      s[nth(m)] = s[nth(n)]
               PROVE  m = n
    BY DEF Distinct
  <2>1. nth(m) = nth(n)
    BY <1>13, <1>9 DEF Distinct
  <2> QED
    BY <2>1, <1>7
<1> QED
  BY <1>1, <1>3, <1>11, <1>12, <1>13

\* Tail and Append on a sequence.
LEMMA TailProps ==
    ASSUME NEW S, NEW s \in Seq(S), s # <<>>
    PROVE  /\ s[1] \in S /\ 1 \in DOMAIN s /\ DOMAIN s = 1 .. Len(s)
           /\ Len(s) \in Nat \ {0}
           /\ Tail(s) \in Seq(S) /\ Len(Tail(s)) = Len(s) - 1
           /\ DOMAIN Tail(s) = 1 .. Len(s) - 1
           /\ \A i \in 1 .. Len(s) - 1 : Tail(s)[i] = s[i + 1]
  OBVIOUS

\* What Append does, position by position.
LEMMA AppendProps ==
    ASSUME NEW S, NEW s \in Seq(S), NEW e \in S
    PROVE  /\ Append(s, e) \in Seq(S) /\ Len(Append(s, e)) = Len(s) + 1
           /\ DOMAIN Append(s, e) = 1 .. Len(s) + 1
           /\ \A i \in 1 .. Len(s) : Append(s, e)[i] = s[i]
           /\ Append(s, e)[Len(s) + 1] = e
           /\ Len(s) \in Nat /\ DOMAIN s = 1 .. Len(s)
  OBVIOUS

-----------------------------------------------------------------------------
(* Types.                                                                  *)

\* What push leaves in the menu: the token first, then the others as far as
\* there is room.
pushed(t) ==
    LET s == <<t>> \o Without(recent, t)
    IN  SubSeq(s, 1, IF Len(s) < MAX_RECENT THEN Len(s) ELSE MAX_RECENT)

\* The menu after a push is a menu.
LEMMA PushType ==
    ASSUME NEW t \in Tokens, recent \in Seq(Tokens)
    PROVE  pushed(t) \in Seq(Tokens) /\ Len(pushed(t)) <= MAX_RECENT
<1> DEFINE w == Without(recent, t)
           s == <<t>> \o w
           m == IF Len(s) < MAX_RECENT THEN Len(s) ELSE MAX_RECENT
<1>1. w \in Seq(Tokens)
  BY WithoutProps
<1> HIDE DEF w
<1>2. s \in Seq(Tokens) /\ Len(s) \in Nat
  BY <1>1
<1> HIDE DEF s
<1>3. m \in Nat /\ m <= Len(s) /\ m <= MAX_RECENT
  BY <1>2, BlocksAssumption
<1> HIDE DEF m
<1>4. SubSeq(s, 1, m) \in Seq(Tokens) /\ Len(SubSeq(s, 1, m)) = m
  BY <1>2, <1>3
<1> QED
  BY <1>3, <1>4 DEF pushed, s, m, w

\* Sending keeps the channel's type and bound.
LEMMA SendType ==
    ASSUME TypeOK, NEW kind \in {"BLOCK", "RESOLVED"}, NEW t \in Tokens,
           NEW U \in SUBSET Tokens, Send(kind, t, U)
    PROVE  rx' \in Seq(Events) /\ Len(rx') <= CHANNEL /\ lost' \subseteq Tokens
<1> DEFINE ev == [kind |-> kind, token |-> t]
<1>1. ev \in Events
  BY DEF Events
<1> HIDE DEF ev
<1>2. rx \in Seq(Events) /\ Len(rx) <= CHANNEL /\ CHANNEL \in Nat \ {0}
      /\ lost \subseteq Tokens
  BY BlocksAssumption DEF TypeOK
<1>3. CASE sub # "open"
  BY <1>2, <1>3 DEF Send
<1>4. CASE sub = "open" /\ Len(rx) = CHANNEL
  <2>1. rx # <<>>
    BY <1>2, <1>4
  <2>2. rx' = Append(Tail(rx), ev)
    BY <1>4 DEF Send, ev
  <2>3. rx' \in Seq(Events) /\ Len(rx') <= CHANNEL
    BY <1>1, <1>2, <2>1, <2>2
  <2>4. rx[1].token \in Tokens
    <3>1. rx[1] \in Events
      BY <1>2, <2>1
    <3> QED
      BY <3>1 DEF Events
  <2>5. lost' \subseteq lost \cup {rx[1].token} \cup U
    BY <1>4 DEF Send
  <2> QED
    BY <1>2, <2>3, <2>4, <2>5
<1>5. CASE sub = "open" /\ Len(rx) # CHANNEL
  <2>1. rx' = Append(rx, ev) /\ lost' \subseteq lost \cup U
    BY <1>5 DEF Send, ev
  <2> QED
    BY <1>1, <1>2, <1>5, <2>1
<1> QED
  BY <1>3, <1>4, <1>5

\* Every request on its way is one the daemon knows.
LEMMA ConnType ==
    /\ \A t \in Tokens, v \in Verbs :
          Conn("worker", v, t) \in Requests /\ Conn("cli", v, t) \in Requests
    /\ Conn("subscribe", "subscribe", NoToken) \in Requests
    /\ Conn("list", "list", NoToken) \in Requests
    /\ \A how \in {"silent", "unread"} : Conn("stuck", how, NoToken) \in Requests
  BY DEF Conn, Requests, Verbs

\* Serving a connection takes the first one off the queue.
LEMMA ServedType ==
    ASSUME TypeOK, NEW client, Served(client)
    PROVE  /\ conns' \in Seq(Requests) /\ inflight' \in BOOLEAN
           /\ conns # <<>> /\ conns[1].client = client
           /\ conns[1] \in Requests
<1>1. conns # <<>> /\ conns[1].client = client /\ conns' = Tail(conns)
  BY DEF Served
<1>2. conns \in Seq(Requests)
  BY DEF TypeOK
<1>3. conns' \in Seq(Requests) /\ conns[1] \in Requests
  BY <1>1, <1>2, TailProps
<1>4. inflight' \in BOOLEAN
  BY DEF TypeOK, Served
<1> QED
  BY <1>1, <1>3, <1>4

\* The table keeps its type when a block is recorded and when one is removed.
LEMMA RecordType ==
    ASSUME TypeOK, NEW t \in Tokens, record(t)
    PROVE  map' \subseteq Tokens /\ order' \in Seq(Tokens)
<1>1. map \subseteq Tokens /\ order \in Seq(Tokens) /\ MAX_BLOCKS \in Nat \ {0}
  BY BlocksAssumption DEF TypeOK
<1>2. CASE Len(order) >= MAX_BLOCKS
  <2>1. order # <<>>
    BY <1>1, <1>2
  <2>2. Tail(order) \in Seq(Tokens)
    BY <1>1, <2>1, TailProps
  <2>3. Append(Tail(order), t) \in Seq(Tokens)
    BY <2>2
  <2> QED
    BY <1>1, <1>2, <2>3 DEF record
<1>3. CASE ~(Len(order) >= MAX_BLOCKS)
  <2>1. Append(order, t) \in Seq(Tokens)
    BY <1>1
  <2> QED
    BY <1>1, <1>3, <2>1 DEF record
<1> QED
  BY <1>2, <1>3

\* Removing a token keeps the types of the table and its order.
LEMMA RemoveType ==
    ASSUME TypeOK, NEW t, remove(t)
    PROVE  map' \subseteq Tokens /\ order' \in Seq(Tokens)
  BY WithoutProps DEF TypeOK, remove

\* A blocked exec keeps every variable's type.
LEMMA BlockType ==
    ASSUME TypeOK, NEW t \in Tokens, Block(t)
    PROVE  TypeOK'
<1> DEFINE evicts == t \notin map /\ Len(order) >= MAX_BLOCKS
           evicted == IF evicts THEN {order[1]} ELSE {}
           older == IF evicts THEN Without(recency, order[1]) ELSE recency
<1>1. /\ wake' = Drained(wake) /\ record(t)
      /\ recency' = Append(Without(older, t), t)
      /\ Send("BLOCK", t, evicted)
      /\ UNCHANGED <<up, busy, conns, sub, wire, trayVars, worker>>
  BY DEF Block
<1>2. map' \subseteq Tokens /\ order' \in Seq(Tokens)
  BY <1>1, RecordType
<1>3. evicted \in SUBSET Tokens
  <2>1. CASE evicts
    <3>1. order \in Seq(Tokens) /\ MAX_BLOCKS \in Nat \ {0}
      BY BlocksAssumption DEF TypeOK
    <3>2. order # <<>>
      BY <2>1, <3>1
    <3> QED
      BY <2>1, <3>1, <3>2
  <2> QED
    BY <2>1
<1>4. rx' \in Seq(Events) /\ Len(rx') <= CHANNEL /\ lost' \subseteq Tokens
  BY <1>1, <1>3, SendType
<1>5. older \in Seq(Tokens)
  BY WithoutProps DEF TypeOK
<1> HIDE DEF older
<1>6. recency' \in Seq(Tokens)
  <2>1. Without(older, t) \in Seq(Tokens)
    BY <1>5, WithoutProps
  <2> QED
    BY <1>1, <2>1
<1>7. wake' \in 0 .. DRAIN_BUDGET - 1
  BY <1>1, BlocksAssumption DEF TypeOK, Drained
<1> QED
  BY <1>1, <1>2, <1>4, <1>6, <1>7 DEF TypeOK, trayVars, worker

\* So does a request to the daemon, carried out or refused.
LEMMA RequestType ==
    ASSUME TypeOK, NEW client, ServeRequest(client)
    PROVE  TypeOK'
<1> DEFINE t == conns[1].token
<1>1. /\ Served(client)
      /\ UNCHANGED <<up, busy, wake, sub, wire, trayVars, actions>>
  BY DEF ServeRequest
<1>2. conns' \in Seq(Requests) /\ inflight' \in BOOLEAN
  BY <1>1, ServedType
<1>3. ASSUME t \in map, remove(t), recency' = Without(recency, t),
             Send("RESOLVED", t, {})
      PROVE  TypeOK'
  <2>1. t \in Tokens
    BY <1>3 DEF TypeOK
  <2>2. map' \subseteq Tokens /\ order' \in Seq(Tokens)
    BY <1>3, RemoveType
  <2>3. rx' \in Seq(Events) /\ Len(rx') <= CHANNEL /\ lost' \subseteq Tokens
    BY <1>3, <2>1, SendType
  <2>4. recency' \in Seq(Tokens)
    BY <1>3, WithoutProps DEF TypeOK
  <2> QED
    BY <1>1, <1>2, <2>2, <2>3, <2>4 DEF TypeOK, trayVars
<1>4. ASSUME UNCHANGED <<table, rx, lost>>
      PROVE  TypeOK'
  BY <1>1, <1>2, <1>4 DEF TypeOK, trayVars, table
<1> QED
  BY <1>3, <1>4 DEF ServeRequest

\* The types hold at first.
LEMMA TypeInit == Init => TypeOK
<1> SUFFICES ASSUME Init PROVE TypeOK
  OBVIOUS
<1>1. /\ <<>> \in Seq(Tokens) /\ <<>> \in Seq(Requests) /\ <<>> \in Seq(Events)
      /\ Len(<<>>) = 0
  OBVIOUS
<1>2. /\ 0 \in 0 .. DRAIN_BUDGET - 1
      /\ 0 <= CHANNEL /\ 0 <= WIRE /\ 0 <= MAX_RECENT
  BY BlocksAssumption
<1> QED
  BY <1>1, <1>2, BlocksAssumption DEF Init, TypeOK

\* Every step of the daemon keeps them.
LEMMA DaemonType ==
    ASSUME TypeOK,
           \/ \E t \in Tokens : Block(t)
           \/ RingEmpty \/ Serve \/ Timeout \/ stream_blocks \/ Crash \/ Restart
    PROVE  TypeOK'
<1>1. CASE \E t \in Tokens : Block(t)
  BY <1>1, BlockType
<1>2. CASE RingEmpty
  BY <1>2, BlocksAssumption DEF RingEmpty, TypeOK, table, stream, trayVars, worker
<1>3. CASE ServeSubscribe
  <2>1. conns' \in Seq(Requests) /\ inflight' \in BOOLEAN
    BY <1>3, ServedType DEF ServeSubscribe
  <2>2. rx' \in Seq(Events) /\ Len(rx') <= CHANNEL
    <3>1. <<>> \in Seq(Events) /\ Len(<<>>) = 0
      OBVIOUS
    <3> QED
      BY <1>3, <3>1, BlocksAssumption DEF ServeSubscribe
  <2> QED
    BY <1>3, <2>1, <2>2 DEF ServeSubscribe, TypeOK, table, trayVars
<1>4. CASE ServeList
  <2>1. conns' \in Seq(Requests) /\ inflight' \in BOOLEAN
    BY <1>4, ServedType DEF ServeList
  <2>2. lost' \subseteq Tokens
    BY <1>4 DEF ServeList, TypeOK
  <2> QED
    BY <1>4, <2>1, <2>2 DEF ServeList, list, TypeOK, table, stream
<1>5. CASE ServeStuck
  <2>1. conns' \in Seq(Requests) /\ inflight' \in BOOLEAN
    BY <1>5, ServedType DEF ServeStuck
  <2> QED
    BY <1>5, <2>1 DEF ServeStuck, TypeOK, table, stream, trayVars
<1>6. CASE \E client \in {"worker", "cli"} : ServeRequest(client)
  BY <1>6, RequestType
<1>7. CASE Timeout
  BY <1>7 DEF Timeout, TypeOK, table, stream, trayVars, worker
<1>8. CASE stream_blocks
  <2>1. rx \in Seq(Events) /\ wire \in Seq(Events) /\ rx # <<>>
        /\ Len(wire) < WIRE /\ Len(rx) <= CHANNEL /\ WIRE \in Nat
        /\ CHANNEL \in Nat
    BY <1>8, BlocksAssumption DEF stream_blocks, TypeOK
  <2>2. rx' = Tail(rx) /\ wire' = Append(wire, rx[1])
    BY <1>8 DEF stream_blocks
  <2>3. rx' \in Seq(Events) /\ Len(rx') <= CHANNEL /\ rx[1] \in Events
    BY <2>1, <2>2
  <2>4. wire' \in Seq(Events) /\ Len(wire') <= WIRE
    BY <2>1, <2>2, <2>3
  <2> QED
    BY <1>8, <2>3, <2>4 DEF stream_blocks, TypeOK, table, trayVars, worker
<1>9. CASE Crash
  <2>1. /\ <<>> \in Seq(Tokens) /\ <<>> \in Seq(Requests)
        /\ <<>> \in Seq(Events) /\ Len(<<>>) = 0
    OBVIOUS
  <2>2. 0 \in 0 .. DRAIN_BUDGET - 1 /\ 0 <= CHANNEL
    BY BlocksAssumption
  <2>3. /\ map' \subseteq Tokens /\ order' \in Seq(Tokens)
        /\ recency' \in Seq(Tokens) /\ conns' \in Seq(Requests)
        /\ rx' \in Seq(Events) /\ Len(rx') <= CHANNEL
        /\ wake' \in 0 .. DRAIN_BUDGET - 1
    BY <1>9, <2>1, <2>2 DEF Crash
  <2>4. /\ sub' \in {"none", "queued", "open", "closed"}
        /\ tray' \in {"absent", "off", "list", "wait", "backfill", "follow"}
    BY <1>9 DEF Crash, TypeOK
  <2> QED
    BY <1>9, <2>3, <2>4 DEF Crash, TypeOK
<1>10. CASE Restart
  BY <1>10 DEF Restart, TypeOK, table, stream, trayVars, worker
<1> QED
  BY <1>1, <1>2, <1>3, <1>4, <1>5, <1>6, <1>7, <1>8, <1>9, <1>10 DEF Serve

\* Every step of the tray and of the other clients keeps them.
LEMMA ClientType ==
    ASSUME TypeOK, Tray \/ Others
    PROVE  TypeOK'
<1>0. /\ conns \in Seq(Requests) /\ actions \in Seq(Requests)
      /\ recent \in Seq(Tokens) /\ backlog \in Seq(Tokens)
      /\ wire \in Seq(Events)
  BY DEF TypeOK
<1>1. CASE Subscribe
  <2>1. conns' \in Seq(Requests)
    BY <1>0, <1>1, ConnType, AppendProps DEF Subscribe
  <2> QED
    BY <1>1, <2>1 DEF Subscribe, TypeOK, table, worker
<1>2. CASE list_pending
  <2>1. conns' \in Seq(Requests)
    <3>1. Append(conns, Conn("list", "list", NoToken)) \in Seq(Requests)
      BY <1>0, ConnType, AppendProps
    <3> QED
      BY <1>0, <1>2, <3>1 DEF list_pending
  <2> QED
    BY <1>2, <2>1 DEF list_pending, TypeOK, table, stream, worker
<1>3. CASE Backfill
  <2>1. CASE backlog = <<>>
    BY <1>3, <2>1 DEF Backfill, TypeOK, table, stream, worker
  <2>2. CASE backlog # <<>>
    <3>1. backlog[1] \in Tokens /\ Tail(backlog) \in Seq(Tokens)
      BY <1>0, <2>2, TailProps
    <3>2. recent' = pushed(backlog[1])
      BY <1>3, <2>2 DEF Backfill, push, pushed
    <3>3. recent' \in Seq(Tokens) /\ Len(recent') <= MAX_RECENT
      BY <1>0, <3>1, <3>2, PushType
    <3> QED
      BY <1>3, <2>2, <3>1, <3>3 DEF Backfill, TypeOK, table, stream, worker
  <2> QED
    BY <2>1, <2>2
<1>4. CASE ReadLine
  <2>1. wire # <<>> /\ wire' = Tail(wire)
    BY <1>4 DEF ReadLine
  <2>2. wire[1] \in Events /\ wire' \in Seq(Events) /\ Len(wire') <= WIRE
    BY <1>0, <2>1, BlocksAssumption DEF TypeOK
  <2>3. wire[1].token \in Tokens
    BY <2>2 DEF Events
  <2>4. recent' \in Seq(Tokens) /\ Len(recent') <= MAX_RECENT
        /\ acted' \subseteq Tokens
    <3>1. CASE wire[1].kind = "BLOCK"
      <4>1. recent' = pushed(wire[1].token) /\ acted' = acted \ {wire[1].token}
        BY <1>4, <3>1 DEF ReadLine, push, pushed
      <4> QED
        BY <1>0, <2>3, <4>1, PushType DEF TypeOK
    <3>2. CASE wire[1].kind # "BLOCK"
      <4>1. recent' = Without(recent, wire[1].token) /\ acted' = acted
        BY <1>4, <3>2 DEF ReadLine
      <4>2. recent' \in Seq(Tokens) /\ Len(recent') <= Len(recent)
        BY <1>0, <4>1, WithoutProps
      <4> QED
        BY <1>0, <4>1, <4>2, BlocksAssumption DEF TypeOK
    <3> QED
      BY <3>1, <3>2
  <2> QED
    BY <1>4, <2>2, <2>4 DEF ReadLine, TypeOK, table, worker
<1>5. CASE Disconnect
  BY <1>5 DEF Disconnect, TypeOK, table, worker
<1>6. ASSUME NEW t \in Tokens, NEW v \in Verbs, dispatch(t, v)
      PROVE  TypeOK'
  <2>1. actions' \in Seq(Requests)
    BY <1>0, <1>6, ConnType, AppendProps DEF dispatch
  <2>2. recent' \in Seq(Tokens) /\ Len(recent') <= Len(recent)
    BY <1>0, <1>6, WithoutProps DEF dispatch
  <2>3. Len(recent') <= MAX_RECENT
    BY <1>0, <2>2, BlocksAssumption DEF TypeOK
  <2> QED
    BY <1>6, <2>1, <2>2, <2>3 DEF dispatch, TypeOK, table, stream
<1>7. CASE action_worker
  <2>1. actions # <<>> /\ actions' = Tail(actions)
    BY <1>7 DEF action_worker
  <2>2. actions' \in Seq(Requests) /\ actions[1] \in Requests
    BY <1>0, <2>1, TailProps
  <2>3. conns' \in Seq(Requests) /\ inflight' \in BOOLEAN
    <3>1. Append(conns, actions[1]) \in Seq(Requests)
      BY <1>0, <2>2, AppendProps
    <3> QED
      BY <1>7, <3>1 DEF action_worker, TypeOK
  <2> QED
    BY <1>7, <2>2, <2>3 DEF action_worker, TypeOK, table, stream, trayVars
<1>8. ASSUME NEW c \in Requests, Ask(c)
      PROVE  TypeOK'
  <2>1. conns' \in Seq(Requests)
    BY <1>0, <1>8, AppendProps DEF Ask
  <2> QED
    BY <1>8, <2>1 DEF Ask, TypeOK, table, stream, trayVars, worker
<1>9. CASE \E t \in Tokens, v \in Verbs : Command(t, v)
  BY <1>8, <1>9, ConnType DEF Command
<1>10. CASE \E how \in {"silent", "unread"} : Stick(how)
  BY <1>8, <1>10, ConnType DEF Stick
<1>11. CASE StuckEnds
  BY <1>11 DEF StuckEnds, TypeOK, table, stream, trayVars, worker
<1> QED
  BY <1>1, <1>2, <1>3, <1>4, <1>5, <1>6, <1>7, <1>9, <1>10, <1>11 DEF Tray, Others

\* Every step keeps every type.
LEMMA TypeStep == TypeOK /\ [Next]_vars => TypeOK'
<1> SUFFICES ASSUME TypeOK, [Next]_vars PROVE TypeOK'
  OBVIOUS
<1>1. CASE Next
  BY <1>1, DaemonType, ClientType DEF Next
<1>2. CASE UNCHANGED vars
  BY <1>2 DEF TypeOK, vars
<1> QED
  BY <1>1, <1>2

\* The table, the channel, the socket and the menu stay within their
\* capacities and every variable keeps its type, in BlocksTable, the socket
\* and the tray alike.
THEOREM TypeCorrect == Spec => []TypeOK
<1>1. Init => TypeOK
  BY TypeInit
<1>2. TypeOK /\ [Next]_vars => TypeOK'
  BY TypeStep
<1> QED
  BY <1>1, <1>2, PTL DEF Spec

-----------------------------------------------------------------------------
(* The table.                                                              *)

\* Only a block, a request carried out and the end of the daemon change the
\* table.
LEMMA TableFrame ==
    ASSUME [Next]_vars
    PROVE  \/ \E t \in Tokens : Block(t)
           \/ \E client \in {"worker", "cli"} : ServeRequest(client)
           \/ Crash
           \/ UNCHANGED <<map, order>>
<1>1. CASE UNCHANGED vars
  BY <1>1 DEF vars
<1>2. CASE RingEmpty \/ Timeout \/ stream_blocks \/ Restart
  BY <1>2 DEF RingEmpty, Timeout, stream_blocks, Restart, table
<1>3. CASE ServeSubscribe \/ ServeList \/ ServeStuck
  BY <1>3 DEF ServeSubscribe, ServeList, ServeStuck, table
<1>4. CASE Tray
  BY <1>4 DEF Tray, Subscribe, list_pending, Backfill, ReadLine, Disconnect,
              dispatch, action_worker, table
<1>5. CASE Others
  BY <1>5 DEF Others, Command, Stick, Ask, StuckEnds, table
<1> QED
  BY <1>1, <1>2, <1>3, <1>4, <1>5 DEF Next, Serve

\* record keeps the map and the order together: a token that is not there
\* goes to the end, and the front goes when the table is full.
LEMMA RecordConsistent ==
    ASSUME TypeOK, TableConsistent, NEW t \in Tokens, record(t)
    PROVE  TableConsistent'
<1>1. order \in Seq(Tokens) /\ MAX_BLOCKS \in Nat \ {0}
      /\ map = Range(order) /\ Len(order) <= MAX_BLOCKS
      /\ Len(order) \in Nat /\ DOMAIN order = 1 .. Len(order)
  BY BlocksAssumption DEF TypeOK, TableConsistent
<1>2. \A i, j \in 1 .. Len(order) : order[i] = order[j] => i = j
  BY <1>1 DEF TableConsistent
<1>3. CASE t \in map
  BY <1>3 DEF record, TableConsistent
<1>4. CASE t \notin map /\ ~(Len(order) >= MAX_BLOCKS)
  <2>1. order' = Append(order, t) /\ map' = map \cup {t}
    BY <1>4 DEF record
  <2>2. \A i \in 1 .. Len(order) : order[i] # t
    BY <1>1, <1>4 DEF Range
  <2>3. /\ DOMAIN order' = 1 .. Len(order) + 1 /\ Len(order') = Len(order) + 1
        /\ order'[Len(order) + 1] = t
        /\ \A i \in 1 .. Len(order) : order'[i] = order[i]
    BY <1>1, <2>1
  <2>4. map' = Range(order')
    <3>1. \A i \in 1 .. Len(order) + 1 :
             i \in 1 .. Len(order) \/ i = Len(order) + 1
      BY <1>1
    <3>2. Range(order') \subseteq map \cup {t}
      BY <1>1, <2>3, <3>1 DEF Range
    <3>3. map \cup {t} \subseteq Range(order')
      BY <1>1, <2>3, <3>1 DEF Range
    <3> QED
      BY <2>1, <3>2, <3>3
  <2>5. \A i, j \in DOMAIN order' : order'[i] = order'[j] => i = j
    BY <1>1, <1>2, <2>2, <2>3
  <2> QED
    BY <1>1, <1>4, <2>3, <2>4, <2>5 DEF TableConsistent
<1>5. CASE t \notin map /\ Len(order) >= MAX_BLOCKS
  <2> DEFINE rest == Tail(order)
  <2>1. order' = Append(rest, t) /\ map' = (map \ {order[1]}) \cup {t}
    BY <1>5 DEF record
  <2>2. /\ rest \in Seq(Tokens) /\ Len(rest) = Len(order) - 1
        /\ DOMAIN rest = 1 .. Len(order) - 1
        /\ \A i \in 1 .. Len(order) - 1 : rest[i] = order[i + 1]
    BY <1>1, <1>5, TailProps
  <2> HIDE DEF rest
  <2> DEFINE n == Len(order)
  <2>0. n \in Nat /\ (n - 1) + 1 = n
    BY <1>1
  <2>3. /\ DOMAIN order' = 1 .. n /\ Len(order') = n
        /\ order'[n] = t
        /\ \A i \in 1 .. n - 1 : order'[i] = order[i + 1]
    <3>1. /\ Len(Append(rest, t)) = Len(rest) + 1
          /\ DOMAIN Append(rest, t) = 1 .. Len(rest) + 1
          /\ \A i \in 1 .. Len(rest) : Append(rest, t)[i] = rest[i]
          /\ Append(rest, t)[Len(rest) + 1] = t
      BY <2>2, AppendProps
    <3> QED
      BY <2>0, <2>1, <2>2, <3>1
  <2> HIDE DEF n
  <2>4. \A i \in 1 .. n : order[i] # t
    BY <1>1, <1>5 DEF Range, n
  <2>5. 1 \in DOMAIN order
    BY <1>1, <1>5
  <2>6. map' = Range(order')
    <3>1. \A i \in 1 .. n :
             i \in 1 .. n - 1 \/ i = n
      BY <2>0
    <3>2. \A i \in 1 .. n - 1 :
             order[i + 1] \in map /\ order[i + 1] # order[1]
      BY <1>1, <1>2, <2>0 DEF Range, n
    <3>3. Range(order') \subseteq (map \ {order[1]}) \cup {t}
      BY <2>3, <3>1, <3>2 DEF Range
    <3>4. ASSUME NEW x \in map, x # order[1] PROVE x \in Range(order')
      <4>1. PICK i \in 1 .. n : order[i] = x
        BY <1>1 DEF Range, n
      <4>2. i - 1 \in 1 .. n - 1 /\ (i - 1) + 1 = i
        BY <2>0, <3>4, <4>1
      <4>3. order'[i - 1] = x /\ i - 1 \in DOMAIN order'
        BY <2>0, <2>3, <4>1, <4>2
      <4> QED
        BY <4>3 DEF Range
    <3>5. t \in Range(order')
      BY <1>1, <1>5, <2>0, <2>3 DEF Range, n
    <3> QED
      BY <2>1, <3>3, <3>4, <3>5
  <2>7. \A i, j \in DOMAIN order' : order'[i] = order'[j] => i = j
    <3> SUFFICES ASSUME NEW i \in 1 .. n, NEW j \in 1 .. n,
                        order'[i] = order'[j]
                 PROVE  i = j
      BY <2>3
    <3>1. CASE i # n /\ j # n
      <4>1. order[i + 1] = order[j + 1] /\ i + 1 \in 1 .. n
            /\ j + 1 \in 1 .. n
        BY <2>0, <2>3, <3>1
      <4> QED
        BY <1>2, <4>1 DEF n
    <3>2. CASE i # n /\ j = n
      <4>1. order[i + 1] = t /\ i + 1 \in 1 .. n
        BY <2>0, <2>3, <3>2
      <4> QED
        BY <2>4, <4>1
    <3>3. CASE i = n /\ j # n
      <4>0. order'[j] = t /\ j \in 1 .. n - 1
        BY <2>0, <2>3, <3>3
      <4>1. order[j + 1] = t /\ j + 1 \in 1 .. n
        BY <2>0, <2>3, <4>0
      <4> QED
        BY <2>4, <4>1
    <3> QED
      BY <3>1, <3>2, <3>3
  <2> QED
    BY <1>1, <2>3, <2>6, <2>7 DEF TableConsistent, n
<1> QED
  BY <1>3, <1>4, <1>5

\* remove keeps them together.
LEMMA RemoveConsistent ==
    ASSUME TypeOK, TableConsistent, NEW t, remove(t)
    PROVE  TableConsistent'
<1>1. order \in Seq(Tokens) /\ Distinct(order) /\ map = Range(order)
      /\ Len(order) <= MAX_BLOCKS /\ MAX_BLOCKS \in Nat
  BY BlocksAssumption DEF TypeOK, TableConsistent, Distinct
<1>2. /\ Without(order, t) \in Seq(Tokens)
      /\ Len(Without(order, t)) <= Len(order)
      /\ Range(Without(order, t)) = Range(order) \ {t}
      /\ Distinct(Without(order, t))
  BY <1>1, WithoutProps
<1>3. order' = Without(order, t) /\ map' = map \ {t}
  BY DEF remove
<1>4. Len(order') <= MAX_BLOCKS
  BY <1>1, <1>2, <1>3
<1>5. Distinct(order)'
  BY <1>2, <1>3
<1> QED
  BY <1>1, <1>2, <1>3, <1>4, <1>5 DEF TableConsistent, Distinct

\* Every step keeps the table and its order consistent.
LEMMA TableStep == TypeOK /\ TableConsistent /\ [Next]_vars => TableConsistent'
<1> SUFFICES ASSUME TypeOK, TableConsistent, [Next]_vars PROVE TableConsistent'
  OBVIOUS
<1>1. CASE \E t \in Tokens : Block(t)
  BY <1>1, RecordConsistent DEF Block
<1>2. CASE \E client \in {"worker", "cli"} : ServeRequest(client)
  <2>1. PICK client \in {"worker", "cli"} : ServeRequest(client)
    BY <1>2
  <2>2. remove(conns[1].token) \/ UNCHANGED <<map, order>>
    BY <2>1 DEF ServeRequest, table
  <2>3. CASE remove(conns[1].token)
    BY <2>3, RemoveConsistent
  <2>4. CASE UNCHANGED <<map, order>>
    BY <2>4 DEF TableConsistent
  <2> QED
    BY <2>2, <2>3, <2>4
<1>3. CASE Crash
  <2>1. map' = {} /\ order' = <<>>
    BY <1>3 DEF Crash
  <2>2. Range(<<>>) = {} /\ Len(<<>>) = 0 /\ DOMAIN <<>> = {}
    BY DEF Range
  <2> QED
    BY <2>1, <2>2, BlocksAssumption DEF TableConsistent
<1>4. CASE UNCHANGED <<map, order>>
  BY <1>4 DEF TableConsistent
<1> QED
  BY <1>1, <1>2, <1>3, <1>4, TableFrame

\* An empty table is consistent.
LEMMA TableInit == Init => TableConsistent
<1> SUFFICES ASSUME Init PROVE TableConsistent
  OBVIOUS
<1>1. Range(<<>>) = {} /\ Len(<<>>) = 0 /\ DOMAIN <<>> = {}
  BY DEF Range
<1> QED
  BY <1>1, BlocksAssumption DEF Init, TableConsistent

\* The map and the order of BlocksTable hold the same tokens, each once and
\* at most MAX_BLOCKS of them, through any mix of recurrences, evictions,
\* resolutions and restarts.
THEOREM TableTheorem == Spec => []TableConsistent
<1>1. Init => TypeOK /\ TableConsistent
  BY TypeInit, TableInit
<1>2. (TypeOK /\ TableConsistent) /\ [Next]_vars => (TypeOK /\ TableConsistent)'
  BY TypeStep, TableStep
<1> QED
  BY <1>1, <1>2, PTL DEF Spec

-----------------------------------------------------------------------------
(* The tray's view of the table.                                           *)

\* The last event about t in s is of kind k.
Ends(s, t, k) ==
    \E i \in DOMAIN s :
        /\ s[i].token = t /\ s[i].kind = k
        /\ \A j \in DOMAIN s : j > i => s[j].token # t

\* An event about t is on its way to the tray.
Under(t) == t \in Mentions(rx) \/ t \in Mentions(wire)

\* The last event about t on its way to the tray is of kind k: the receiver's
\* events come after the ones in the socket.
Final(t, k) == Ends(rx, t, k) \/ (t \notin Mentions(rx) /\ Ends(wire, t, k))

\* How the table stands on t, as the kind of event that says so.
Standing(t) == IF t \in map THEN "BLOCK" ELSE "RESOLVED"

\* The tray's two requests in the queue q, while its subscription is s and
\* its thread is at y: it connects for the stream before it asks for the
\* list, so the stream is served first, and each only once.
Orderly(q, s, y) ==
    /\ \A i \in DOMAIN q :
          /\ q[i].client = "subscribe" => s = "queued" /\ y \in {"list", "wait"}
          /\ q[i].client = "list" => y = "wait"
    /\ \A i, j \in DOMAIN q :
          /\ q[i].client = "list" /\ q[j].client = "subscribe" => j < i
          /\ q[i].client = "subscribe" /\ q[j].client = "subscribe" => i = j
          /\ q[i].client = "list" /\ q[j].client = "list" => i = j

QueueInv ==
    /\ tray = "off" => sub = "none"
    /\ sub # "open" => rx = <<>>
    /\ tray # "backfill" => backlog = <<>>
    /\ ~up => conns = <<>> /\ sub \notin {"open", "queued"}
    /\ \A i \in DOMAIN actions : actions[i].client = "worker"
    /\ Orderly(conns, sub, tray)

\* The menu holds no token twice.
MenuInv == Distinct(recent)

\* What is under way tells how the table stands; where nothing is, the list
\* reply and the menu hold pending blocks only.
AgreeInv ==
    \A t \in Tokens \ lost :
        /\ Under(t) => Final(t, Standing(t))
        /\ ~Under(t) /\ t \in Range(backlog) \cup Range(recent) => t \in map

\* A pending block is under way, in the list reply or in the menu.
CoverInv ==
    Following /\ MAX_RECENT >= Cardinality(Tokens)
        => \A t \in map \ (lost \cup acted) :
              Under(t) \/ t \in Range(backlog) \cup Range(recent)

-----------------------------------------------------------------------------
(* The queue.                                                              *)

\* Serving the first request keeps the order of the rest; once the stream is
\* served none asks for it, and once the list is, neither is asked for.
LEMMA OrderlyTail ==
    ASSUME NEW S, NEW q \in Seq(S), q # <<>>, NEW s, NEW y, Orderly(q, s, y)
    PROVE  /\ Orderly(Tail(q), s, y)
           /\ q[1].client = "subscribe" => Orderly(Tail(q), "open", y)
           /\ q[1].client = "list" => Orderly(Tail(q), s, "backfill")
<1> DEFINE r == Tail(q)
           n == Len(q)
<1>1. /\ n \in Nat \ {0} /\ DOMAIN q = 1 .. n /\ DOMAIN r = 1 .. n - 1
      /\ \A i \in 1 .. n - 1 : r[i] = q[i + 1] /\ i + 1 \in 1 .. n /\ i + 1 # 1
      /\ 1 \in 1 .. n
  BY TailProps
<1> HIDE DEF r, n
<1>2. \A i \in 1 .. n :
         /\ q[i].client = "subscribe" => s = "queued" /\ y \in {"list", "wait"}
         /\ q[i].client = "list" => y = "wait"
  BY <1>1 DEF Orderly
<1>3. \A i, j \in 1 .. n :
         /\ q[i].client = "list" /\ q[j].client = "subscribe" => j < i
         /\ q[i].client = "subscribe" /\ q[j].client = "subscribe" => i = j
         /\ q[i].client = "list" /\ q[j].client = "list" => i = j
  BY <1>1 DEF Orderly
<1>4. \A i, j \in 1 .. n - 1 :
         /\ r[i].client = "list" /\ r[j].client = "subscribe" => j < i
         /\ r[i].client = "subscribe" /\ r[j].client = "subscribe" => i = j
         /\ r[i].client = "list" /\ r[j].client = "list" => i = j
  <2> SUFFICES ASSUME NEW i \in 1 .. n - 1, NEW j \in 1 .. n - 1
               PROVE  /\ r[i].client = "list" /\ r[j].client = "subscribe" => j < i
                      /\ r[i].client = "subscribe" /\ r[j].client = "subscribe"
                            => i = j
                      /\ r[i].client = "list" /\ r[j].client = "list" => i = j
    OBVIOUS
  <2>1. i \in Int /\ j \in Int
    OBVIOUS
  <2>2. r[i] = q[i + 1] /\ r[j] = q[j + 1] /\ i + 1 \in 1 .. n /\ j + 1 \in 1 .. n
    BY <1>1
  <2>3. /\ r[i].client = "list" /\ r[j].client = "subscribe" => j + 1 < i + 1
        /\ r[i].client = "subscribe" /\ r[j].client = "subscribe" => i + 1 = j + 1
        /\ r[i].client = "list" /\ r[j].client = "list" => i + 1 = j + 1
    BY <1>3, <2>2
  <2> QED
    BY <2>1, <2>3
<1>5. \A i \in 1 .. n - 1 :
         /\ r[i].client = "subscribe" => s = "queued" /\ y \in {"list", "wait"}
         /\ r[i].client = "list" => y = "wait"
  BY <1>1, <1>2
<1>6. ASSUME q[1].client = "subscribe", NEW i \in 1 .. n - 1
      PROVE  r[i].client # "subscribe"
  BY <1>1, <1>3, <1>6
<1>7. ASSUME q[1].client = "list", NEW i \in 1 .. n - 1
      PROVE  r[i].client \notin {"subscribe", "list"}
  <2>1. r[i] = q[i + 1] /\ i + 1 \in 1 .. n /\ i + 1 # 1 /\ ~(i + 1 < 1)
    BY <1>1
  <2> QED
    BY <1>1, <1>3, <1>7, <2>1
<1>8. DOMAIN Tail(q) = 1 .. n - 1 /\ Tail(q) = r
  BY <1>1 DEF r
<1> QED
  BY <1>4, <1>5, <1>6, <1>7, <1>8 DEF Orderly

\* A request of somebody else at the end does not disturb it.
LEMMA OrderlyAppend ==
    ASSUME NEW S, NEW q \in Seq(S), NEW c \in S, NEW s, NEW y, Orderly(q, s, y),
           c.client \notin {"subscribe", "list"}
    PROVE  Orderly(Append(q, c), s, y)
<1> DEFINE r == Append(q, c)
           n == Len(q)
<1>1. /\ DOMAIN r = 1 .. n + 1 /\ DOMAIN q = 1 .. n /\ r[n + 1] = c /\ n \in Nat
      /\ \A i \in 1 .. n : r[i] = q[i]
  BY AppendProps
<1> HIDE DEF r, n
<1>2. \A i \in 1 .. n + 1 :
         r[i].client \in {"subscribe", "list"} => i \in 1 .. n /\ r[i] = q[i]
  BY <1>1
<1>3. DOMAIN Append(q, c) = 1 .. n + 1 /\ Append(q, c) = r
  BY <1>1 DEF r
<1> QED
  BY <1>1, <1>2, <1>3 DEF Orderly

\* With the thread elsewhere neither request is in the queue.
LEMMA OrderlyNone ==
    ASSUME NEW q, NEW s, NEW y, Orderly(q, s, y), y \notin {"list", "wait"},
           NEW s2, NEW y2
    PROVE  Orderly(q, s2, y2)
  BY DEF Orderly

\* An empty queue is in order.
LEMMA OrderlyEmpty ==
    ASSUME NEW s, NEW y
    PROVE  Orderly(<<>>, s, y)
  BY DEF Orderly

\* The tray's own requests go to the end: the stream's when neither is there,
\* the list's when no list is.
LEMMA OrderlyAsk ==
    ASSUME NEW q \in Seq(Requests), NEW s, NEW y, Orderly(q, s, y)
    PROVE  /\ y = "off" => Orderly(Append(q, Conn("subscribe", "subscribe", NoToken)),
                                   "queued", "list")
           /\ y = "list" => Orderly(Append(q, Conn("list", "list", NoToken)),
                                    s, "wait")
<1> DEFINE n == Len(q)
<1>1. DOMAIN q = 1 .. n /\ n \in Nat
  OBVIOUS
<1> HIDE DEF n
<1>2. ASSUME y = "off"
      PROVE  Orderly(Append(q, Conn("subscribe", "subscribe", NoToken)),
                     "queued", "list")
  <2> DEFINE c == Conn("subscribe", "subscribe", NoToken)
             r == Append(q, c)
  <2>1. c \in Requests /\ c.client = "subscribe"
    BY ConnType DEF Conn
  <2> HIDE DEF c
  <2>2. /\ DOMAIN r = 1 .. n + 1 /\ r[n + 1] = c
        /\ \A i \in 1 .. n : r[i] = q[i]
    BY <2>1, AppendProps DEF n
  <2> HIDE DEF r
  <2>3. \A i \in 1 .. n : q[i].client \notin {"subscribe", "list"}
    BY <1>1, <1>2 DEF Orderly
  <2>4. \A i \in 1 .. n + 1 :
           /\ r[i].client # "list"
           /\ r[i].client = "subscribe" => i = n + 1
    BY <1>1, <2>1, <2>2, <2>3
  <2>5. Orderly(r, "queued", "list")
    BY <2>2, <2>4 DEF Orderly
  <2> QED
    BY <2>5 DEF r, c
<1>3. ASSUME y = "list"
      PROVE  Orderly(Append(q, Conn("list", "list", NoToken)), s, "wait")
  <2> DEFINE c == Conn("list", "list", NoToken)
             r == Append(q, c)
  <2>1. c \in Requests /\ c.client = "list"
    BY ConnType DEF Conn
  <2> HIDE DEF c
  <2>2. /\ DOMAIN r = 1 .. n + 1 /\ r[n + 1] = c
        /\ \A i \in 1 .. n : r[i] = q[i]
    BY <2>1, AppendProps DEF n
  <2> HIDE DEF r
  <2>3. \A i \in 1 .. n : /\ q[i].client # "list"
                          /\ q[i].client = "subscribe" => s = "queued"
    BY <1>1, <1>3 DEF Orderly
  <2>4. \A i, j \in 1 .. n :
           q[i].client = "subscribe" /\ q[j].client = "subscribe" => i = j
    BY <1>1 DEF Orderly
  <2>5. \A i \in 1 .. n + 1 :
           /\ r[i].client = "list" => i = n + 1
           /\ r[i].client = "subscribe"
                 => i \in 1 .. n /\ r[i] = q[i] /\ i < n + 1 /\ s = "queued"
    BY <1>1, <2>1, <2>2, <2>3
  <2>6. Orderly(r, s, "wait")
    BY <2>2, <2>4, <2>5 DEF Orderly
  <2> QED
    BY <2>6 DEF r, c
<1> QED
  BY <1>2, <1>3

\* Every step of the daemon keeps the tray's requests in order.
LEMMA DaemonQueue ==
    ASSUME TypeOK, QueueInv,
           \/ \E t \in Tokens : Block(t)
           \/ RingEmpty \/ Serve \/ Timeout \/ stream_blocks \/ Crash \/ Restart
    PROVE  QueueInv'
<1>0. conns \in Seq(Requests) /\ Orderly(conns, sub, tray)
  BY DEF TypeOK, QueueInv
<1>a. ASSUME NEW client, Served(client)
      PROVE  /\ up /\ conns # <<>> /\ conns' = Tail(conns)
             /\ conns[1].client = client /\ 1 \in DOMAIN conns
             /\ Orderly(conns', sub, tray)
  <2>1. up /\ conns # <<>> /\ conns' = Tail(conns) /\ conns[1].client = client
    BY <1>a DEF Served
  <2> QED
    BY <1>0, <2>1, OrderlyTail, TailProps
<1>1. ASSUME NEW t \in Tokens, Block(t) PROVE QueueInv'
  <2>1. sub # "open" => rx' = rx
    BY <1>1 DEF Block, Send
  <2> QED
    BY <1>1, <2>1 DEF Block, QueueInv, trayVars, worker
<1>2. CASE RingEmpty
  BY <1>2 DEF RingEmpty, QueueInv, stream, trayVars, worker
<1>3. CASE ServeSubscribe
  <2>0. Served("subscribe")
    BY <1>3 DEF ServeSubscribe
  <2>1. up /\ conns # <<>> /\ conns' = Tail(conns)
        /\ conns[1].client = "subscribe" /\ 1 \in DOMAIN conns
    BY <2>0, <1>a
  <2>2. Orderly(conns', "open", tray)
    BY <1>0, <2>1, OrderlyTail
  <2>3. tray \in {"list", "wait"}
    BY <1>0, <2>1 DEF Orderly
  <2> QED
    BY <1>3, <2>1, <2>2, <2>3 DEF ServeSubscribe, QueueInv, trayVars
<1>4. CASE ServeList
  <2>0. Served("list")
    BY <1>4 DEF ServeList
  <2>1. up /\ conns # <<>> /\ conns' = Tail(conns)
        /\ conns[1].client = "list" /\ 1 \in DOMAIN conns
    BY <2>0, <1>a
  <2>2. Orderly(conns', sub, "backfill")
    BY <1>0, <2>1, OrderlyTail
  <2> QED
    BY <1>4, <2>1, <2>2 DEF ServeList, QueueInv, stream
<1>5. CASE ServeStuck
  <2>0. Served("stuck")
    BY <1>5 DEF ServeStuck
  <2>1. up /\ Orderly(conns', sub, tray)
    BY <2>0, <1>a
  <2> QED
    BY <1>5, <2>1 DEF ServeStuck, QueueInv, stream, trayVars
<1>6. ASSUME NEW client \in {"worker", "cli"}, ServeRequest(client) PROVE QueueInv'
  <2>0. Served(client)
    BY <1>6 DEF ServeRequest
  <2>1. up /\ Orderly(conns', sub, tray)
    BY <2>0, <1>a
  <2>2. sub # "open" => rx' = rx
    BY <1>6 DEF ServeRequest, Send
  <2> QED
    BY <1>6, <2>1, <2>2 DEF ServeRequest, QueueInv, trayVars
<1>7. CASE Timeout
  BY <1>7 DEF Timeout, QueueInv, stream, trayVars, worker
<1>8. CASE stream_blocks
  BY <1>8 DEF stream_blocks, QueueInv, trayVars, worker
<1>9. CASE Crash
  <2>1. Orderly(conns, sub, tray)'
    <3>1. conns' = <<>>
      BY <1>9 DEF Crash
    <3> QED
      BY <3>1, OrderlyEmpty
  <2> QED
    BY <1>9, <2>1 DEF Crash, QueueInv
<1>10. CASE Restart
  BY <1>10 DEF Restart, QueueInv, stream, trayVars, worker
<1> QED
  BY <1>1, <1>2, <1>3, <1>4, <1>5, <1>6, <1>7, <1>8, <1>9, <1>10 DEF Serve

\* So does every step of the tray and of the other clients.
LEMMA ClientQueue ==
    ASSUME TypeOK, QueueInv, Tray \/ Others
    PROVE  QueueInv'
<1>0. /\ conns \in Seq(Requests) /\ actions \in Seq(Requests)
      /\ Orderly(conns, sub, tray)
  BY DEF TypeOK, QueueInv
<1>1. CASE Subscribe
  <2>1. Orderly(conns', "queued", "list")
    BY <1>0, <1>1, OrderlyAsk DEF Subscribe
  <2> QED
    BY <1>1, <2>1 DEF Subscribe, QueueInv, worker
<1>2. CASE list_pending
  <2>1. CASE up
    <3>1. Orderly(Append(conns, Conn("list", "list", NoToken)), sub, "wait")
      BY <1>0, <1>2, OrderlyAsk DEF list_pending
    <3> QED
      BY <1>2, <2>1, <3>1 DEF list_pending, QueueInv, stream, worker
  <2>2. CASE ~up
    <3>1. conns' = <<>> /\ sub' = sub /\ tray' = "follow"
      BY <1>2, <2>2 DEF list_pending, QueueInv, stream
    <3>2. Orderly(conns, sub, tray)'
      BY <3>1, OrderlyEmpty
    <3> QED
      BY <1>2, <2>2, <3>1, <3>2 DEF list_pending, QueueInv, stream, worker
  <2> QED
    BY <2>1, <2>2
<1>3. CASE Backfill
  <2>1. Orderly(conns, sub, tray)'
    <3>1. tray = "backfill" /\ conns' = conns
      BY <1>3 DEF Backfill
    <3> QED
      BY <1>0, <3>1, OrderlyNone
  <2>2. tray = "backfill" /\ tray' \in {"backfill", "follow"}
        /\ (tray' # "backfill" => backlog' = <<>>)
    BY <1>3 DEF Backfill
  <2> QED
    BY <1>3, <2>1, <2>2 DEF Backfill, QueueInv, stream, worker
<1>4. CASE ReadLine
  BY <1>4 DEF ReadLine, QueueInv, worker
<1>5. CASE Disconnect
  <2>1. Orderly(conns, sub, tray)'
    <3>1. tray = "follow" /\ conns' = conns
      BY <1>5 DEF Disconnect
    <3> QED
      BY <1>0, <3>1, OrderlyNone
  <2> QED
    BY <1>5, <2>1 DEF Disconnect, QueueInv, worker
<1>6. ASSUME NEW t \in Tokens, NEW v \in Verbs, dispatch(t, v)
      PROVE  QueueInv'
  <2> DEFINE c == Conn("worker", v, t)
  <2>1. c \in Requests /\ c.client = "worker"
    BY ConnType DEF Conn
  <2>2. actions' = Append(actions, c)
    BY <1>6 DEF dispatch
  <2> HIDE DEF c
  <2>3. \A i \in DOMAIN actions : actions[i].client = "worker"
    BY DEF QueueInv
  <2>4. \A i \in DOMAIN actions' : actions'[i].client = "worker"
    BY <1>0, <2>1, <2>2, <2>3
  <2> QED
    BY <1>6, <2>4 DEF dispatch, QueueInv, stream
<1>7. CASE action_worker
  <2>1. actions # <<>> /\ actions' = Tail(actions)
    BY <1>7 DEF action_worker
  <2>2. \A i \in DOMAIN actions : actions[i].client = "worker"
    BY DEF QueueInv
  <2>3. /\ actions[1] \in Requests /\ actions[1].client = "worker"
        /\ \A i \in DOMAIN actions' : actions'[i].client = "worker"
    BY <1>0, <2>1, <2>2
  <2>4. CASE up
    <3>1. Orderly(Append(conns, actions[1]), sub, tray)
      BY <1>0, <2>3, OrderlyAppend
    <3> QED
      BY <1>7, <2>3, <2>4, <3>1 DEF action_worker, QueueInv, stream, trayVars
  <2>5. CASE ~up
    BY <1>7, <2>3, <2>5 DEF action_worker, QueueInv, stream, trayVars
  <2> QED
    BY <2>4, <2>5
<1>8. ASSUME NEW c \in Requests, c.client \in {"cli", "stuck"}, Ask(c)
      PROVE  QueueInv'
  <2>1. Orderly(Append(conns, c), sub, tray)
    BY <1>0, <1>8, OrderlyAppend
  <2> QED
    BY <1>8, <2>1 DEF Ask, QueueInv, stream, trayVars, worker
<1>9. ASSUME NEW t \in Tokens, NEW v \in Verbs, Command(t, v) PROVE QueueInv'
  <2>1. Conn("cli", v, t) \in Requests /\ Conn("cli", v, t).client = "cli"
    BY ConnType DEF Conn
  <2> QED
    BY <1>8, <1>9, <2>1 DEF Command
<1>10. ASSUME NEW how \in {"silent", "unread"}, Stick(how) PROVE QueueInv'
  <2>1. /\ Conn("stuck", how, NoToken) \in Requests
        /\ Conn("stuck", how, NoToken).client = "stuck"
    BY ConnType DEF Conn
  <2> QED
    BY <1>8, <1>10, <2>1 DEF Stick
<1>11. CASE StuckEnds
  BY <1>11 DEF StuckEnds, QueueInv, stream, trayVars, worker
<1> QED
  BY <1>1, <1>2, <1>3, <1>4, <1>5, <1>6, <1>7, <1>9, <1>10, <1>11 DEF Tray, Others

\* Every step keeps the tray's requests in order.
LEMMA QueueStep == TypeOK /\ QueueInv /\ [Next]_vars => QueueInv'
<1> SUFFICES ASSUME TypeOK, QueueInv, [Next]_vars PROVE QueueInv'
  OBVIOUS
<1>1. CASE Next
  BY <1>1, DaemonQueue, ClientQueue DEF Next
<1>2. CASE UNCHANGED vars
  BY <1>2 DEF QueueInv, vars
<1> QED
  BY <1>1, <1>2

-----------------------------------------------------------------------------
(* The menu.                                                               *)

\* A sequence of tokens without repetition is no longer than there are
\* tokens.
LEMMA DistinctBound ==
    ASSUME NEW s \in Seq(Tokens), Distinct(s)
    PROVE  Len(s) <= Cardinality(Tokens)
<1>1. IsFiniteSet(Tokens) /\ Len(s) \in Nat
  BY BlocksAssumption
<1>2. s \in [1 .. Len(s) -> Tokens] /\ DOMAIN s = 1 .. Len(s)
  OBVIOUS
<1>3. s \in Injection(1 .. Len(s), Tokens)
  BY <1>2 DEF Injection, IsInjective, Distinct
<1>4. Cardinality(1 .. Len(s)) <= Cardinality(Tokens)
  BY <1>1, <1>3, FS_Injection
<1>5. Cardinality(1 .. Len(s)) = Len(s)
  <2>1. Cardinality(1 .. Len(s)) = IF 1 > Len(s) THEN 0 ELSE Len(s) - 1 + 1
    BY <1>1, FS_Interval
  <2> QED
    BY <1>1, <2>1
<1> QED
  BY <1>4, <1>5

\* A push shows the token and nothing twice, and hides nothing when the menu
\* has room for every token.
LEMMA PushProps ==
    ASSUME NEW t \in Tokens, recent \in Seq(Tokens), Distinct(recent)
    PROVE  /\ Distinct(pushed(t))
           /\ Range(pushed(t)) \subseteq Range(recent) \cup {t}
           /\ MAX_RECENT >= Cardinality(Tokens)
                 => Range(recent) \cup {t} \subseteq Range(pushed(t))
<1> DEFINE w == Without(recent, t)
           s == <<t>> \o w
           m == IF Len(s) < MAX_RECENT THEN Len(s) ELSE MAX_RECENT
           p == SubSeq(s, 1, m)
<1>1. /\ w \in Seq(Tokens) /\ Distinct(w) /\ Range(w) = Range(recent) \ {t}
      /\ Len(w) \in Nat /\ DOMAIN w = 1 .. Len(w)
  BY WithoutProps
<1> HIDE DEF w
<1>2. /\ s \in Seq(Tokens) /\ Len(s) = Len(w) + 1 /\ DOMAIN s = 1 .. Len(w) + 1
      /\ s[1] = t
      /\ \A i \in 2 .. Len(w) + 1 : s[i] = w[i - 1] /\ i - 1 \in 1 .. Len(w)
      /\ \A i \in 1 .. Len(w) : s[i + 1] = w[i] /\ i + 1 \in 2 .. Len(w) + 1
  BY <1>1
<1>3. \A i \in 1 .. Len(w) : w[i] # t
  BY <1>1 DEF Range
<1> HIDE DEF s
<1>4. Distinct(s)
  <2> SUFFICES ASSUME NEW i \in 1 .. Len(w) + 1, NEW j \in 1 .. Len(w) + 1,
                      s[i] = s[j]
               PROVE  i = j
    BY <1>2 DEF Distinct
  <2>1. (i = 1 \/ i \in 2 .. Len(w) + 1) /\ (j = 1 \/ j \in 2 .. Len(w) + 1)
    BY <1>1
  <2>2. CASE i = 1 /\ j # 1
    BY <1>2, <1>3, <2>1, <2>2
  <2>3. CASE i # 1 /\ j = 1
    BY <1>2, <1>3, <2>1, <2>3
  <2>4. CASE i # 1 /\ j # 1
    <3>1. w[i - 1] = w[j - 1] /\ i - 1 \in DOMAIN w /\ j - 1 \in DOMAIN w
      BY <1>1, <1>2, <2>1, <2>4
    <3>2. i - 1 = j - 1
      BY <1>1, <3>1 DEF Distinct
    <3> QED
      BY <3>2
  <2> QED
    BY <2>2, <2>3, <2>4
<1>5. Range(s) = Range(recent) \cup {t}
  <2>1. \A i \in 1 .. Len(w) + 1 : i = 1 \/ i \in 2 .. Len(w) + 1
    BY <1>1
  <2>2. Range(s) \subseteq Range(w) \cup {t}
    <3>1. \A i \in 1 .. Len(w) : w[i] \in Range(w)
      BY <1>1 DEF Range
    <3>2. \A i \in 1 .. Len(w) + 1 : s[i] \in Range(w) \cup {t}
      BY <1>2, <2>1, <3>1
    <3> QED
      BY <1>2, <3>2 DEF Range
  <2>3. Range(w) \subseteq Range(s)
    <3>1. \A i \in 1 .. Len(w) : i + 1 \in DOMAIN s /\ s[i + 1] = w[i]
      BY <1>1, <1>2
    <3> QED
      BY <1>1, <3>1 DEF Range
  <2>4. t \in Range(s)
    BY <1>1, <1>2 DEF Range
  <2> QED
    BY <1>1, <2>2, <2>3, <2>4
<1>6. m \in Nat /\ m <= Len(s) /\ Len(s) \in Nat
  BY <1>1, <1>2, BlocksAssumption
<1>7. MAX_RECENT >= Cardinality(Tokens) => m = Len(s)
  <2>1. Len(s) <= Cardinality(Tokens)
    BY <1>2, <1>4, DistinctBound
  <2>2. Cardinality(Tokens) \in Nat
    BY BlocksAssumption, FS_CardinalityType
  <2> QED
    BY <1>6, <2>1, <2>2, BlocksAssumption
<1> HIDE DEF m
<1>8. /\ DOMAIN p = 1 .. m /\ DOMAIN s = 1 .. Len(s)
      /\ \A i \in 1 .. m : p[i] = s[i] /\ i \in 1 .. Len(s)
  BY <1>2, <1>6
<1>9. pushed(t) = p
  BY DEF pushed, m, s, w
<1> HIDE DEF p
<1>10. Distinct(p)
  BY <1>4, <1>8 DEF Distinct
<1>11. Range(p) \subseteq Range(s)
  BY <1>8 DEF Range
<1>12. m = Len(s) => Range(s) \subseteq Range(p)
  BY <1>8 DEF Range
<1> QED
  BY <1>5, <1>7, <1>9, <1>10, <1>11, <1>12

\* What a step does to the menu: a push, a token taken out, or nothing.
LEMMA MenuFrame ==
    ASSUME TypeOK, [Next]_vars
    PROVE  \/ \E t \in Tokens : recent' = pushed(t)
           \/ \E t : recent' = Without(recent, t)
           \/ recent' = recent
<1>1. CASE UNCHANGED vars
  BY <1>1 DEF vars
<1>2. CASE \/ \E t \in Tokens : Block(t)
           \/ RingEmpty \/ Timeout \/ stream_blocks \/ Crash \/ Restart
  BY <1>2 DEF Block, RingEmpty, Timeout, stream_blocks, Crash, Restart, trayVars
<1>3. CASE Serve
  BY <1>3 DEF Serve, ServeSubscribe, ServeList, ServeStuck, ServeRequest, trayVars
<1>4. CASE Backfill
  <2>1. CASE backlog = <<>>
    BY <1>4, <2>1 DEF Backfill
  <2>2. CASE backlog # <<>>
    <3>1. backlog[1] \in Tokens
      BY <2>2, TailProps DEF TypeOK
    <3> QED
      BY <1>4, <2>2, <3>1 DEF Backfill, push, pushed
  <2> QED
    BY <2>1, <2>2
<1>5. CASE ReadLine
  <2>1. wire[1] \in Events
    BY <1>5, TailProps DEF ReadLine, TypeOK
  <2>2. wire[1].token \in Tokens
    BY <2>1 DEF Events
  <2>3. recent' = pushed(wire[1].token) \/ recent' = Without(recent, wire[1].token)
    BY <1>5 DEF ReadLine, push, pushed
  <2> QED
    BY <2>2, <2>3
<1>6. CASE \E t \in Tokens, v \in Verbs : dispatch(t, v)
  BY <1>6 DEF dispatch
<1>7. CASE Subscribe \/ list_pending \/ Disconnect \/ action_worker
  BY <1>7 DEF Subscribe, list_pending, Disconnect, action_worker, trayVars
<1>8. CASE Others
  BY <1>8 DEF Others, Command, Stick, Ask, StuckEnds, trayVars
<1> QED
  BY <1>1, <1>2, <1>3, <1>4, <1>5, <1>6, <1>7, <1>8 DEF Next, Tray

\* Every step keeps the menu free of repetitions.
LEMMA MenuStep == TypeOK /\ MenuInv /\ [Next]_vars => MenuInv'
<1> SUFFICES ASSUME TypeOK, MenuInv, [Next]_vars PROVE MenuInv'
  OBVIOUS
<1>0. recent \in Seq(Tokens) /\ Distinct(recent)
  BY DEF TypeOK, MenuInv
<1>1. ASSUME NEW t \in Tokens, recent' = pushed(t) PROVE Distinct(recent')
  BY <1>0, <1>1, PushProps
<1>2. ASSUME NEW t, recent' = Without(recent, t) PROVE Distinct(recent')
  BY <1>0, <1>2, WithoutProps
<1>3. Distinct(recent')
  BY <1>0, <1>1, <1>2, MenuFrame
<1> QED
  BY <1>3 DEF MenuInv

-----------------------------------------------------------------------------
(* Events under way.                                                       *)

\* The last event about a token is of one kind.
LEMMA EndsOne ==
    ASSUME NEW s \in Seq(Events), NEW t, NEW k, NEW l,
           Ends(s, t, k)
    PROVE  t \in Mentions(s) /\ (Ends(s, t, l) => k = l)
<1>1. PICK i \in DOMAIN s : /\ s[i].token = t /\ s[i].kind = k
                            /\ \A j \in DOMAIN s : j > i => s[j].token # t
  BY DEF Ends
<1>2. t \in Mentions(s)
  BY <1>1 DEF Mentions
<1>3. ASSUME Ends(s, t, l) PROVE k = l
  <2>1. PICK j \in DOMAIN s : /\ s[j].token = t /\ s[j].kind = l
                              /\ \A n \in DOMAIN s : n > j => s[n].token # t
    BY <1>3 DEF Ends
  <2>2. ~(j > i) /\ ~(i > j) /\ i \in Int /\ j \in Int
    BY <1>1, <2>1
  <2>3. i = j
    BY <2>2
  <2> QED
    BY <1>1, <2>1, <2>3
<1> QED
  BY <1>2, <1>3

\* A new event at the end is the last about its token and leaves the others.
LEMMA EndsAppend ==
    ASSUME NEW s \in Seq(Events), NEW e \in Events
    PROVE  /\ Mentions(Append(s, e)) = Mentions(s) \cup {e.token}
           /\ Ends(Append(s, e), e.token, e.kind)
           /\ \A t, k : t # e.token /\ Ends(s, t, k) => Ends(Append(s, e), t, k)
<1> DEFINE r == Append(s, e)
           n == Len(s)
<1>1. /\ DOMAIN s = 1 .. n /\ DOMAIN r = 1 .. n + 1 /\ n \in Nat /\ r[n + 1] = e
      /\ \A i \in 1 .. n : r[i] = s[i]
  BY AppendProps
<1> HIDE DEF r, n
<1>2. \A i \in 1 .. n + 1 : i \in 1 .. n \/ i = n + 1
  BY <1>1
<1>3. \A i \in 1 .. n : i \in 1 .. n + 1 /\ n + 1 \in 1 .. n + 1
  BY <1>1
<1>4. n + 1 \in 1 .. n + 1 /\ \A i \in 1 .. n + 1 : ~(i > n + 1)
  BY <1>1
<1>5. Mentions(r) = Mentions(s) \cup {e.token}
  <2>1. Mentions(r) \subseteq Mentions(s) \cup {e.token}
    BY <1>1, <1>2 DEF Mentions
  <2>2. Mentions(s) \subseteq Mentions(r)
    BY <1>1, <1>3 DEF Mentions
  <2>3. e.token \in Mentions(r)
    BY <1>1, <1>4 DEF Mentions
  <2> QED
    BY <2>1, <2>2, <2>3
<1>6. Ends(r, e.token, e.kind)
  BY <1>1, <1>4 DEF Ends
<1>7. ASSUME NEW t, NEW k, t # e.token, Ends(s, t, k) PROVE Ends(r, t, k)
  <2>1. PICK i \in 1 .. n : /\ s[i].token = t /\ s[i].kind = k
                            /\ \A j \in 1 .. n : j > i => s[j].token # t
    BY <1>1, <1>7 DEF Ends
  <2>2. \A j \in 1 .. n + 1 : j > i => r[j].token # t
    BY <1>1, <1>2, <1>7, <2>1
  <2> QED
    BY <1>1, <1>3, <2>1, <2>2 DEF Ends
<1>8. Append(s, e) = r
  BY DEF r
<1> QED
  BY <1>5, <1>6, <1>7, <1>8

\* Taking the first event away leaves the last about every token that is
\* still mentioned; for one that is not, the first was the last.
LEMMA EndsTail ==
    ASSUME NEW s \in Seq(Events), s # <<>>
    PROVE  /\ Mentions(s) = Mentions(Tail(s)) \cup {s[1].token}
           /\ \A t, k : Ends(s, t, k) /\ t \in Mentions(Tail(s))
                           => Ends(Tail(s), t, k)
           /\ \A t, k : Ends(s, t, k) /\ t \notin Mentions(Tail(s))
                           => s[1].token = t /\ s[1].kind = k
<1> DEFINE r == Tail(s)
           n == Len(s)
<1>1. /\ n \in Nat \ {0} /\ DOMAIN s = 1 .. n /\ DOMAIN r = 1 .. n - 1
      /\ 1 \in 1 .. n
      /\ \A i \in 1 .. n - 1 : r[i] = s[i + 1] /\ i + 1 \in 1 .. n
  BY TailProps
<1> HIDE DEF r, n
<1>2. ASSUME NEW i \in 1 .. n, i # 1
      PROVE  i - 1 \in 1 .. n - 1 /\ r[i - 1] = s[i]
  <2>1. i - 1 \in 1 .. n - 1 /\ (i - 1) + 1 = i
    BY <1>1, <1>2
  <2> QED
    BY <1>1, <2>1
<1>3. Mentions(s) = Mentions(r) \cup {s[1].token}
  <2>1. Mentions(s) \subseteq Mentions(r) \cup {s[1].token}
    <3>1. \A i \in 1 .. n : i # 1 => s[i].token \in Mentions(r)
      BY <1>1, <1>2 DEF Mentions
    <3> QED
      BY <1>1, <3>1 DEF Mentions
  <2>2. Mentions(r) \subseteq Mentions(s)
    BY <1>1 DEF Mentions
  <2>3. s[1].token \in Mentions(s)
    BY <1>1 DEF Mentions
  <2> QED
    BY <2>1, <2>2, <2>3
<1>4. ASSUME NEW t, NEW k, Ends(s, t, k)
      PROVE  /\ t \in Mentions(r) => Ends(r, t, k)
             /\ t \notin Mentions(r) => s[1].token = t /\ s[1].kind = k
  <2>1. PICK i \in 1 .. n : /\ s[i].token = t /\ s[i].kind = k
                            /\ \A j \in 1 .. n : j > i => s[j].token # t
    BY <1>1, <1>4 DEF Ends
  <2>2. CASE i = 1
    <3>1. \A j \in 1 .. n - 1 : j + 1 > 1
      BY <1>1
    <3>2. \A j \in 1 .. n - 1 : r[j].token # t
      BY <1>1, <2>1, <2>2, <3>1
    <3>3. t \notin Mentions(r)
      BY <1>1, <3>2 DEF Mentions
    <3> QED
      BY <2>1, <2>2, <3>3
  <2>3. CASE i # 1
    <3>1. i - 1 \in 1 .. n - 1 /\ r[i - 1] = s[i]
      BY <1>2, <2>3
    <3>2. \A j \in 1 .. n - 1 : j > i - 1 => r[j].token # t
      <4> SUFFICES ASSUME NEW j \in 1 .. n - 1, j > i - 1 PROVE r[j].token # t
        OBVIOUS
      <4>1. j + 1 > i /\ j + 1 \in 1 .. n /\ r[j] = s[j + 1]
        BY <1>1
      <4> QED
        BY <2>1, <4>1
    <3>3. Ends(r, t, k)
      BY <1>1, <2>1, <3>1, <3>2 DEF Ends
    <3>4. t \in Mentions(r)
      BY <1>1, <2>1, <3>1 DEF Mentions
    <3> QED
      BY <3>3, <3>4
  <2> QED
    BY <2>2, <2>3
<1>5. Tail(s) = r
  BY DEF r
<1> QED
  BY <1>3, <1>4, <1>5

\* Sending to an open subscription: the event is the last about its token,
\* and nothing changes for a token that is not lost.
LEMMA SendEvents ==
    ASSUME TypeOK, sub = "open", NEW kind \in {"BLOCK", "RESOLVED"},
           NEW t \in Tokens, NEW U, Send(kind, t, U)
    PROVE  /\ Ends(rx', t, kind) /\ t \in Mentions(rx')
           /\ \A x : x # t /\ x \notin lost'
                 => /\ x \notin lost /\ x \notin U
                    /\ x \in Mentions(rx') <=> x \in Mentions(rx)
                    /\ \A k : Ends(rx, x, k) => Ends(rx', x, k)
<1> DEFINE ev == [kind |-> kind, token |-> t]
<1>1. ev \in Events /\ ev.token = t /\ ev.kind = kind
  BY DEF Events
<1> HIDE DEF ev
<1>2. rx \in Seq(Events) /\ CHANNEL \in Nat \ {0}
  BY BlocksAssumption DEF TypeOK
<1>3. CASE Len(rx) = CHANNEL
  <2> DEFINE r == Tail(rx)
  <2>1. rx # <<>>
    BY <1>2, <1>3
  <2>2. r \in Seq(Events)
    BY <1>2, <2>1, TailProps
  <2>3. /\ Mentions(rx) = Mentions(r) \cup {rx[1].token}
        /\ \A x, k : Ends(rx, x, k) /\ x \in Mentions(r) => Ends(r, x, k)
    BY <1>2, <2>1, EndsTail
  <2>4. /\ rx' = Append(r, ev)
        /\ lost' = (lost \ {t}) \cup ({rx[1].token} \ Mentions(rx')) \cup U
    BY <1>3 DEF Send, ev
  <2> HIDE DEF r
  <2>5. /\ Mentions(rx') = Mentions(r) \cup {t}
        /\ Ends(rx', t, kind)
        /\ \A x, k : x # t /\ Ends(r, x, k) => Ends(rx', x, k)
    BY <1>1, <2>2, <2>4, EndsAppend
  <2>6. ASSUME NEW x, x # t, x \notin lost'
        PROVE  /\ x \notin lost /\ x \notin U
               /\ x \in Mentions(rx') <=> x \in Mentions(rx)
               /\ \A k : Ends(rx, x, k) => Ends(rx', x, k)
    <3>1. x \notin lost /\ x \notin U /\ (x = rx[1].token => x \in Mentions(rx'))
      BY <2>4, <2>6
    <3>2. x \in Mentions(rx) <=> x \in Mentions(r)
      BY <2>3, <2>5, <2>6, <3>1
    <3>3. x \in Mentions(rx') <=> x \in Mentions(r)
      BY <2>5, <2>6
    <3>4. ASSUME NEW k, Ends(rx, x, k) PROVE Ends(rx', x, k)
      <4>1. x \in Mentions(rx)
        BY <1>2, <3>4, EndsOne
      <4> QED
        BY <2>3, <2>5, <2>6, <3>2, <3>4, <4>1
    <3> QED
      BY <3>1, <3>2, <3>3, <3>4
  <2> QED
    BY <2>5, <2>6
<1>4. CASE Len(rx) # CHANNEL
  <2>1. rx' = Append(rx, ev) /\ lost' = (lost \ {t}) \cup U
    BY <1>4 DEF Send, ev
  <2>2. /\ Mentions(rx') = Mentions(rx) \cup {t}
        /\ Ends(rx', t, kind)
        /\ \A x, k : x # t /\ Ends(rx, x, k) => Ends(rx', x, k)
    BY <1>1, <1>2, <2>1, EndsAppend
  <2> QED
    BY <2>1, <2>2
<1> QED
  BY <1>3, <1>4

\* A change of the table that is announced, or whose token is lost, leaves the
\* tray's view right.
LEMMA SendView ==
    ASSUME TypeOK, AgreeInv, CoverInv,
           NEW kind \in {"BLOCK", "RESOLVED"}, NEW t \in Tokens, NEW U,
           Send(kind, t, U),
           UNCHANGED <<sub, wire, trayVars>>,
           map' \subseteq Tokens,
           t \in map' <=> kind = "BLOCK",
           \A x \in Tokens : x # t /\ x \notin U => (x \in map' <=> x \in map)
    PROVE  AgreeInv' /\ CoverInv'
<1>1. CASE sub # "open"
  <2>1. rx' = rx /\ lost' = lost \cup {t} \cup U
    BY <1>1 DEF Send
  <2>2. AgreeInv'
    <3> SUFFICES ASSUME NEW x \in Tokens, x \notin lost'
                 PROVE  /\ Under(x)' => Final(x, Standing(x))'
                        /\ ~Under(x)' /\ x \in Range(backlog') \cup Range(recent')
                              => x \in map'
      BY DEF AgreeInv
    <3>1. x \notin lost /\ (x \in map' <=> x \in map)
      BY <2>1
    <3>2. /\ Under(x) => Final(x, Standing(x))
          /\ ~Under(x) /\ x \in Range(backlog) \cup Range(recent) => x \in map
      BY <3>1 DEF AgreeInv
    <3>3. Standing(x)' = Standing(x)
      BY <3>1 DEF Standing
    <3> QED
      BY <2>1, <3>1, <3>2, <3>3 DEF Under, Final, trayVars
  <2>3. CoverInv'
    BY <1>1 DEF CoverInv, Following
  <2> QED
    BY <2>2, <2>3
<1>2. CASE sub = "open"
  <2>1. /\ Ends(rx', t, kind) /\ t \in Mentions(rx')
        /\ \A x : x # t /\ x \notin lost'
              => /\ x \notin lost /\ x \notin U
                 /\ x \in Mentions(rx') <=> x \in Mentions(rx)
                 /\ \A k : Ends(rx, x, k) => Ends(rx', x, k)
    BY <1>2, SendEvents
  <2>2. wire' = wire /\ backlog' = backlog /\ recent' = recent /\ sub' = sub
        /\ tray' = tray /\ acted' = acted
    BY DEF trayVars
  <2>3. Under(t)' /\ Final(t, kind)' /\ Standing(t)' = kind
    BY <2>1 DEF Under, Final, Standing
  <2>4. ASSUME NEW x \in Tokens, x # t, x \notin lost'
        PROVE  /\ x \notin lost /\ (x \in map' <=> x \in map)
               /\ Under(x)' <=> Under(x)
               /\ \A k : Final(x, k) => Final(x, k)'
               /\ Standing(x)' = Standing(x)
    <3>1. /\ x \notin lost /\ x \notin U
          /\ x \in Mentions(rx') <=> x \in Mentions(rx)
          /\ \A k : Ends(rx, x, k) => Ends(rx', x, k)
      BY <2>1, <2>4
    <3>2. x \in map' <=> x \in map
      BY <2>4, <3>1
    <3> QED
      BY <2>2, <3>1, <3>2 DEF Under, Final, Standing
  <2>5. AgreeInv'
    <3> SUFFICES ASSUME NEW x \in Tokens, x \notin lost'
                 PROVE  /\ Under(x)' => Final(x, Standing(x))'
                        /\ ~Under(x)' /\ x \in Range(backlog') \cup Range(recent')
                              => x \in map'
      BY DEF AgreeInv
    <3>1. CASE x = t
      <4>1. Under(x)' /\ Final(x, Standing(x))'
        BY <2>3, <3>1 DEF Final
      <4> QED
        BY <4>1
    <3>2. CASE x # t
      <4>1. /\ Under(x) => Final(x, Standing(x))
            /\ ~Under(x) /\ x \in Range(backlog) \cup Range(recent) => x \in map
        BY <2>4, <3>2 DEF AgreeInv
      <4>2. Final(x, Standing(x)) => Final(x, Standing(x))'
        BY <2>4, <3>2 DEF Final
      <4> QED
        BY <2>2, <2>4, <3>2, <4>1, <4>2
    <3> QED
      BY <3>1, <3>2
  <2>6. CoverInv'
    <3> SUFFICES ASSUME Following', MAX_RECENT >= Cardinality(Tokens),
                        NEW x \in map', x \notin lost', x \notin acted'
                 PROVE  Under(x)' \/ x \in Range(backlog') \cup Range(recent')
      BY DEF CoverInv
    <3>1. CASE x = t
      BY <2>3, <3>1
    <3>2. CASE x # t
      <4>1. x \in Tokens
        OBVIOUS
      <4>2. Under(x) \/ x \in Range(backlog) \cup Range(recent)
        BY <2>2, <2>4, <3>2, <4>1 DEF CoverInv, Following
      <4> QED
        BY <2>2, <2>4, <3>2, <4>1, <4>2
    <3> QED
      BY <3>1, <3>2
  <2> QED
    BY <2>5, <2>6
<1> QED
  BY <1>1, <1>2

\* Nothing the view depends on changes.
LEMMA AgreeFrame ==
    ASSUME AgreeInv, UNCHANGED <<map, lost, rx, wire, backlog, recent>>
    PROVE  AgreeInv'
  BY DEF AgreeInv, Under, Final, Standing

\* Steps that touch neither the table nor anything between it and the menu.
LEMMA ViewFrame ==
    ASSUME AgreeInv, CoverInv,
           UNCHANGED <<map, lost, rx, wire, backlog, recent, sub, tray, acted>>
    PROVE  AgreeInv' /\ CoverInv'
<1>1. AgreeInv'
  BY AgreeFrame
<1>2. CoverInv'
  BY DEF CoverInv, Following, Under
<1> QED
  BY <1>1, <1>2

\* The table's changes are announced.
LEMMA BlockView ==
    ASSUME TypeOK, AgreeInv, CoverInv, NEW t \in Tokens, Block(t)
    PROVE  AgreeInv' /\ CoverInv'
<1> DEFINE evicts == t \notin map /\ Len(order) >= MAX_BLOCKS
           evicted == IF evicts THEN {order[1]} ELSE {}
<1>1. record(t) /\ Send("BLOCK", t, evicted) /\ UNCHANGED <<sub, wire, trayVars>>
  BY DEF Block
<1>2. map' \subseteq Tokens
  BY <1>1, RecordType
<1>3. t \in map'
  BY <1>1 DEF record
<1>4. \A x \in Tokens : x # t /\ x \notin evicted => (x \in map' <=> x \in map)
  BY <1>1 DEF record
<1> HIDE DEF evicted
<1> QED
  BY <1>1, <1>2, <1>3, <1>4, SendView

\* A request that takes a block out of the table announces it.
LEMMA RequestView ==
    ASSUME TypeOK, AgreeInv, CoverInv, NEW client, ServeRequest(client)
    PROVE  AgreeInv' /\ CoverInv'
<1> DEFINE t == conns[1].token
<1>1. UNCHANGED <<sub, wire, trayVars>>
  BY DEF ServeRequest
<1>2. ASSUME t \in map, remove(t), Send("RESOLVED", t, {})
      PROVE  AgreeInv' /\ CoverInv'
  <2>1. t \in Tokens /\ map' \subseteq Tokens /\ t \notin map'
        /\ \A x \in Tokens : x # t => (x \in map' <=> x \in map)
    BY <1>2 DEF TypeOK, remove
  <2> HIDE DEF t
  <2> QED
    BY <1>1, <1>2, <2>1, SendView
<1>3. ASSUME UNCHANGED <<table, rx, lost>>
      PROVE  AgreeInv' /\ CoverInv'
  BY <1>1, <1>3, ViewFrame DEF table, trayVars
<1> QED
  BY <1>2, <1>3 DEF ServeRequest

\* What is under way: the socket's events, then the receiver's.
LEMMA Coming ==
    ASSUME TypeOK
    PROVE  /\ DOMAIN (wire \o rx) = 1 .. Len(wire) + Len(rx)
           /\ Len(wire) \in Nat /\ Len(rx) \in Nat
           /\ DOMAIN wire = 1 .. Len(wire) /\ DOMAIN rx = 1 .. Len(rx)
           /\ \A i \in 1 .. Len(wire) : (wire \o rx)[i] = wire[i]
           /\ \A i \in 1 .. Len(rx) : (wire \o rx)[Len(wire) + i] = rx[i]
           /\ \A i \in 1 .. Len(wire) + Len(rx) :
                 \/ i \in 1 .. Len(wire)
                 \/ /\ i - Len(wire) \in 1 .. Len(rx)
                    /\ (wire \o rx)[i] = rx[i - Len(wire)]
           /\ \A t : t \in Mentions(wire \o rx) <=> Under(t)
<1>1. wire \in Seq(Events) /\ rx \in Seq(Events)
  BY DEF TypeOK
<1> DEFINE n == Len(wire)
           m == Len(rx)
           c == wire \o rx
<1>2. /\ n \in Nat /\ m \in Nat /\ DOMAIN c = 1 .. n + m
      /\ DOMAIN wire = 1 .. n /\ DOMAIN rx = 1 .. m
      /\ \A i \in 1 .. n : c[i] = wire[i] /\ i \in 1 .. n + m
      /\ \A i \in 1 .. m : c[n + i] = rx[i] /\ n + i \in 1 .. n + m
  BY <1>1
<1> HIDE DEF n, m, c
<1>3. ASSUME NEW i \in 1 .. n + m, ~(i \in 1 .. n)
      PROVE  i - n \in 1 .. m /\ c[i] = rx[i - n]
  <2>1. i - n \in 1 .. m /\ n + (i - n) = i
    BY <1>2, <1>3
  <2> QED
    BY <1>2, <2>1
<1>4. Mentions(c) \subseteq Mentions(wire) \cup Mentions(rx)
  <2>1. ASSUME NEW i \in 1 .. n + m
        PROVE  c[i].token \in Mentions(wire) \cup Mentions(rx)
    BY <1>2, <1>3 DEF Mentions
  <2> QED
    BY <1>2, <2>1 DEF Mentions
<1>5. Mentions(wire) \subseteq Mentions(c) /\ Mentions(rx) \subseteq Mentions(c)
  BY <1>2 DEF Mentions
<1>6. \A t : t \in Mentions(c) <=> Under(t)
  BY <1>4, <1>5 DEF Under
<1> QED
  BY <1>2, <1>3, <1>6 DEF n, m, c

\* The list reply holds the pending blocks; what it makes up for is no longer
\* lost.
LEMMA ListView ==
    ASSUME TypeOK, TableConsistent, AgreeInv, ServeList
    PROVE  AgreeInv' /\ CoverInv'
<1>1. /\ backlog' = order /\ map' = map /\ rx' = rx /\ wire' = wire
      /\ recent' = recent /\ map = Range(order)
      /\ lost' = {t \in lost : \/ t \in Mentions(wire \o rx)
                               \/ t \in Range(recent) \ map}
  BY DEF ServeList, list, table, stream, TableConsistent
<1>2. \A t : t \in Mentions(wire \o rx) <=> Under(t)
  BY Coming
<1>3. ASSUME NEW t \in Tokens, t \notin lost'
      PROVE  /\ Under(t)' => Final(t, Standing(t))'
             /\ ~Under(t)' /\ t \in Range(backlog') \cup Range(recent')
                   => t \in map'
  <2>1. Under(t)' <=> Under(t)
    BY <1>1 DEF Under
  <2>2. Final(t, Standing(t))' <=> Final(t, Standing(t))
    BY <1>1 DEF Final, Standing
  <2>3. CASE t \in lost
    BY <1>1, <1>2, <1>3, <2>1, <2>3
  <2>4. CASE t \notin lost
    <3>1. /\ Under(t) => Final(t, Standing(t))
          /\ ~Under(t) /\ t \in Range(recent) => t \in map
      BY <2>4 DEF AgreeInv
    <3> QED
      BY <1>1, <2>1, <2>2, <3>1
  <2> QED
    BY <2>3, <2>4
<1>4. AgreeInv'
  BY <1>3 DEF AgreeInv
<1>5. CoverInv'
  BY <1>1 DEF CoverInv
<1> QED
  BY <1>4, <1>5

\* Forwarding an event from the receiver to the socket changes nothing: it is
\* after the ones in the socket and before the ones in the receiver.
LEMMA ForwardView ==
    ASSUME TypeOK, AgreeInv, CoverInv, stream_blocks
    PROVE  AgreeInv' /\ CoverInv'
<1>1. /\ rx # <<>> /\ wire' = Append(wire, rx[1]) /\ rx' = Tail(rx)
      /\ UNCHANGED <<map, lost, sub, tray, backlog, recent, acted>>
  BY DEF stream_blocks, table, trayVars
<1>2. rx \in Seq(Events) /\ wire \in Seq(Events)
  BY DEF TypeOK
<1> DEFINE e == rx[1]
<1>3. e \in Events
  BY <1>1, <1>2
<1>4. /\ Mentions(rx) = Mentions(rx') \cup {e.token}
      /\ \A t, k : Ends(rx, t, k) /\ t \in Mentions(rx') => Ends(rx', t, k)
      /\ \A t, k : Ends(rx, t, k) /\ t \notin Mentions(rx')
                      => e.token = t /\ e.kind = k
  BY <1>1, <1>2, EndsTail
<1>5. /\ Mentions(wire') = Mentions(wire) \cup {e.token}
      /\ Ends(wire', e.token, e.kind)
      /\ \A t, k : t # e.token /\ Ends(wire, t, k) => Ends(wire', t, k)
  BY <1>1, <1>2, <1>3, EndsAppend
<1> HIDE DEF e
<1>6. \A t : Under(t)' <=> Under(t)
  BY <1>4, <1>5 DEF Under
<1>7. ASSUME NEW t, NEW k, Final(t, k) PROVE Final(t, k)'
  <2>1. CASE Ends(rx, t, k)
    <3>1. CASE t \in Mentions(rx')
      BY <1>4, <2>1, <3>1 DEF Final
    <3>2. CASE t \notin Mentions(rx')
      <4>1. e.token = t /\ e.kind = k
        BY <1>4, <2>1, <3>2
      <4> QED
        BY <1>5, <3>2, <4>1 DEF Final
    <3> QED
      BY <3>1, <3>2
  <2>2. CASE t \notin Mentions(rx) /\ Ends(wire, t, k)
    <3>1. t # e.token /\ t \notin Mentions(rx')
      BY <1>4, <2>2
    <3> QED
      BY <1>5, <2>2, <3>1 DEF Final
  <2> QED
    BY <1>7, <2>1, <2>2 DEF Final
<1>8. \A t : Standing(t)' = Standing(t)
  BY <1>1 DEF Standing
<1>9. AgreeInv'
  <2> SUFFICES ASSUME NEW t \in Tokens, t \notin lost'
               PROVE  /\ Under(t)' => Final(t, Standing(t))'
                      /\ ~Under(t)' /\ t \in Range(backlog') \cup Range(recent')
                            => t \in map'
    BY DEF AgreeInv
  <2>1. /\ Under(t) => Final(t, Standing(t))
        /\ ~Under(t) /\ t \in Range(backlog) \cup Range(recent) => t \in map
    BY <1>1 DEF AgreeInv
  <2>2. Final(t, Standing(t)) => Final(t, Standing(t))'
    BY <1>7, <1>8 DEF Final
  <2> QED
    BY <1>1, <1>6, <2>1, <2>2
<1>10. CoverInv'
  BY <1>1, <1>6 DEF CoverInv, Following
<1> QED
  BY <1>9, <1>10

\* Showing an entry of the list reply.
LEMMA BackfillView ==
    ASSUME TypeOK, MenuInv, AgreeInv, CoverInv, Backfill
    PROVE  AgreeInv' /\ CoverInv'
<1>1. UNCHANGED <<map, lost, rx, wire, sub>> /\ tray = "backfill"
      /\ tray' \in {"backfill", "follow"}
  BY DEF Backfill, table, stream
<1>2. CASE backlog = <<>>
  <2>1. UNCHANGED <<backlog, recent, acted>>
    BY <1>2 DEF Backfill
  <2>2. AgreeInv'
    BY <1>1, <2>1, AgreeFrame
  <2>3. CoverInv'
    BY <1>1, <2>1 DEF CoverInv, Following, Under
  <2> QED
    BY <2>2, <2>3
<1>3. CASE backlog # <<>>
  <2> DEFINE b == backlog[1]
  <2>1. /\ recent' = pushed(b) /\ backlog' = Tail(backlog)
        /\ acted' = acted \ {b}
    BY <1>3 DEF Backfill, push, pushed
  <2>2. backlog \in Seq(Tokens) /\ recent \in Seq(Tokens) /\ Distinct(recent)
    BY DEF TypeOK, MenuInv
  <2>3. b \in Tokens
    BY <1>3, <2>2, TailProps
  <2>4. Range(backlog) = Range(backlog') \cup {b}
    <3> DEFINE n == Len(backlog)
               r == Tail(backlog)
    <3>1. /\ n \in Nat \ {0} /\ DOMAIN backlog = 1 .. n /\ DOMAIN r = 1 .. n - 1
          /\ 1 \in 1 .. n
          /\ \A i \in 1 .. n - 1 : r[i] = backlog[i + 1] /\ i + 1 \in 1 .. n
      BY <1>3, <2>2, TailProps
    <3> HIDE DEF n, r
    <3>2. ASSUME NEW i \in 1 .. n, i # 1
          PROVE  backlog[i] \in Range(r)
      <4>1. i - 1 \in 1 .. n - 1 /\ (i - 1) + 1 = i
        BY <3>1, <3>2
      <4>2. r[i - 1] = backlog[i]
        BY <3>1, <4>1
      <4> QED
        BY <3>1, <4>1, <4>2 DEF Range
    <3>3. Range(r) \subseteq Range(backlog)
      BY <3>1 DEF Range
    <3>4. Range(backlog) \subseteq Range(r) \cup {b} /\ b \in Range(backlog)
      BY <3>1, <3>2 DEF Range
    <3> QED
      BY <2>1, <3>3, <3>4 DEF r
  <2> HIDE DEF b
  <2>5. /\ Range(recent') \subseteq Range(recent) \cup {b}
        /\ MAX_RECENT >= Cardinality(Tokens)
              => Range(recent) \cup {b} \subseteq Range(recent')
    BY <2>1, <2>2, <2>3, PushProps
  <2>6. \A t : (Under(t)' <=> Under(t)) /\ Standing(t)' = Standing(t)
    BY <1>1 DEF Under, Standing
  <2>7. \A t : Final(t, Standing(t))' <=> Final(t, Standing(t))
    BY <1>1 DEF Final, Standing
  <2>8. AgreeInv'
    <3> SUFFICES ASSUME NEW t \in Tokens, t \notin lost'
                 PROVE  /\ Under(t)' => Final(t, Standing(t))'
                        /\ ~Under(t)' /\ t \in Range(backlog') \cup Range(recent')
                              => t \in map'
      BY DEF AgreeInv
    <3>1. /\ Under(t) => Final(t, Standing(t))
          /\ ~Under(t) /\ t \in Range(backlog) \cup Range(recent) => t \in map
      BY <1>1 DEF AgreeInv
    <3> QED
      BY <1>1, <2>4, <2>5, <2>6, <2>7, <3>1
  <2>9. CoverInv'
    <3> SUFFICES ASSUME Following', MAX_RECENT >= Cardinality(Tokens),
                        NEW t \in map', t \notin lost', t \notin acted'
                 PROVE  Under(t)' \/ t \in Range(backlog') \cup Range(recent')
      BY DEF CoverInv
    <3>1. CASE t = b
      BY <2>5, <3>1
    <3>2. CASE t # b
      <4>1. t \in map /\ t \notin lost /\ t \notin acted /\ Following
        BY <1>1, <2>1, <3>2 DEF Following
      <4>2. Under(t) \/ t \in Range(backlog) \cup Range(recent)
        BY <4>1 DEF CoverInv
      <4> QED
        BY <2>4, <2>5, <2>6, <3>2, <4>2
    <3> QED
      BY <3>1, <3>2
  <2> QED
    BY <2>8, <2>9
<1> QED
  BY <1>2, <1>3

\* Reading an event from the stream: if it was the last about its token, the
\* menu now says what the table does.
LEMMA ReadView ==
    ASSUME TypeOK, QueueInv, MenuInv, AgreeInv, CoverInv, ReadLine
    PROVE  AgreeInv' /\ CoverInv'
<1> DEFINE e == wire[1]
<1>1. /\ UNCHANGED <<map, lost, rx, sub, tray, backlog>> /\ tray = "follow"
      /\ wire # <<>> /\ wire' = Tail(wire) /\ backlog = <<>>
  BY DEF ReadLine, table, QueueInv
<1>2. wire \in Seq(Events) /\ rx \in Seq(Events) /\ recent \in Seq(Tokens)
      /\ Distinct(recent)
  BY DEF TypeOK, MenuInv
<1>3. e \in Events /\ e.token \in Tokens /\ e.kind \in {"BLOCK", "RESOLVED"}
  <2>1. e \in Events
    BY <1>1, <1>2, TailProps
  <2> QED
    BY <2>1 DEF Events
<1>4. /\ Mentions(wire) = Mentions(wire') \cup {e.token}
      /\ \A t, k : Ends(wire, t, k) /\ t \in Mentions(wire') => Ends(wire', t, k)
      /\ \A t, k : Ends(wire, t, k) /\ t \notin Mentions(wire')
                      => e.token = t /\ e.kind = k
  BY <1>1, <1>2, EndsTail
<1>5. /\ e.kind = "BLOCK"
            => recent' = pushed(e.token) /\ acted' = acted \ {e.token}
      /\ e.kind # "BLOCK"
            => recent' = Without(recent, e.token) /\ acted' = acted
  BY DEF ReadLine, push, pushed
<1> HIDE DEF e
<1>6. /\ Range(recent') \subseteq Range(recent) \cup {e.token}
      /\ e.kind # "BLOCK" => e.token \notin Range(recent')
      /\ e.kind # "BLOCK" => Range(recent) \subseteq Range(recent') \cup {e.token}
      /\ e.kind = "BLOCK" /\ MAX_RECENT >= Cardinality(Tokens)
            => Range(recent) \cup {e.token} \subseteq Range(recent')
  <2>1. CASE e.kind = "BLOCK"
    BY <1>2, <1>3, <1>5, <2>1, PushProps
  <2>2. CASE e.kind # "BLOCK"
    <3>1. Range(Without(recent, e.token)) = Range(recent) \ {e.token}
      BY <1>2, WithoutProps
    <3> QED
      BY <1>5, <2>2, <3>1
  <2> QED
    BY <2>1, <2>2
<1>7. Range(backlog) = {} /\ Range(backlog') = {}
  BY <1>1 DEF Range
<1>8. \A t : t # e.token => (Under(t)' <=> Under(t))
  BY <1>1, <1>4 DEF Under
<1>9. \A t : Under(t)' => Under(t)
  BY <1>1, <1>4 DEF Under
<1>10. ASSUME NEW t, NEW k, Final(t, k), Under(t)' PROVE Final(t, k)'
  <2>1. CASE Ends(rx, t, k)
    BY <1>1, <2>1 DEF Final
  <2>2. CASE t \notin Mentions(rx) /\ Ends(wire, t, k)
    <3>1. t \in Mentions(wire')
      BY <1>1, <1>10, <2>2 DEF Under
    <3> QED
      BY <1>1, <1>4, <2>2, <3>1 DEF Final
  <2> QED
    BY <1>10, <2>1, <2>2 DEF Final
<1>11. ASSUME NEW t, NEW k, Final(t, k), ~Under(t)' PROVE e.token = t /\ e.kind = k
  <2>1. t \notin Mentions(rx) /\ t \notin Mentions(wire')
    BY <1>1, <1>11 DEF Under
  <2>2. ~Ends(rx, t, k)
    BY <1>2, <2>1, EndsOne
  <2> QED
    BY <1>4, <1>11, <2>1, <2>2 DEF Final
<1>12. \A t : Standing(t)' = Standing(t)
  BY <1>1 DEF Standing
<1>13. AgreeInv'
  <2> SUFFICES ASSUME NEW t \in Tokens, t \notin lost'
               PROVE  /\ Under(t)' => Final(t, Standing(t))'
                      /\ ~Under(t)' /\ t \in Range(backlog') \cup Range(recent')
                            => t \in map'
    BY DEF AgreeInv
  <2>1. /\ Under(t) => Final(t, Standing(t))
        /\ ~Under(t) /\ t \in Range(backlog) \cup Range(recent) => t \in map
    BY <1>1 DEF AgreeInv
  <2>2. ASSUME Under(t)' PROVE Final(t, Standing(t))'
    <3>1. Final(t, Standing(t))
      BY <1>9, <2>1, <2>2
    <3> QED
      BY <1>10, <1>12, <2>2, <3>1 DEF Final
  <2>3. ASSUME ~Under(t)', t \in Range(recent') PROVE t \in map'
    <3>1. CASE Under(t)
      <4>1. e.token = t /\ e.kind = Standing(t)
        BY <1>11, <2>1, <2>3, <3>1
      <4>2. e.kind = "BLOCK"
        BY <1>6, <2>3, <4>1
      <4> QED
        BY <1>1, <4>1, <4>2 DEF Standing
    <3>2. CASE ~Under(t)
      <4>1. t # e.token
        BY <1>4, <3>2 DEF Under
      <4> QED
        BY <1>1, <1>6, <2>1, <2>3, <3>2, <4>1
    <3> QED
      BY <3>1, <3>2
  <2> QED
    BY <1>7, <2>2, <2>3
<1>14. CoverInv'
  <2> SUFFICES ASSUME Following', MAX_RECENT >= Cardinality(Tokens),
                      NEW t \in map', t \notin lost', t \notin acted'
               PROVE  Under(t)' \/ t \in Range(backlog') \cup Range(recent')
    BY DEF CoverInv
  <2>0. t \in map /\ t \notin lost /\ Following /\ t \in Tokens
    BY <1>1 DEF Following, TypeOK
  <2>1. CASE t # e.token
    <3>1. t \notin acted
      BY <1>3, <1>5, <2>1
    <3>2. Under(t) \/ t \in Range(recent)
      BY <1>7, <2>0, <3>1 DEF CoverInv
    <3>3. t \in Range(recent) => t \in Range(recent')
      BY <1>6, <2>1
    <3> QED
      BY <1>8, <2>1, <3>2, <3>3
  <2>2. CASE t = e.token /\ e.kind = "BLOCK"
    BY <1>6, <2>2
  <2>3. CASE t = e.token /\ e.kind # "BLOCK"
    <3>1. Under(t)
      BY <1>4, <2>3 DEF Under
    <3>2. Final(t, "BLOCK")
      BY <2>0, <3>1 DEF AgreeInv, Standing
    <3> QED
      BY <1>11, <2>3, <3>2
  <2> QED
    BY <2>1, <2>2, <2>3
<1> QED
  BY <1>13, <1>14

\* A click takes the token out of the menu; it has been dealt with.
LEMMA ClickView ==
    ASSUME TypeOK, AgreeInv, CoverInv, NEW c, NEW v, dispatch(c, v)
    PROVE  AgreeInv' /\ CoverInv'
<1>1. /\ UNCHANGED <<map, lost, rx, wire, sub, tray, backlog>>
      /\ recent' = Without(recent, c) /\ acted' = acted \cup {c}
  BY DEF dispatch, table, stream
<1>2. Range(recent') = Range(recent) \ {c}
  BY <1>1, WithoutProps DEF TypeOK
<1>3. \A t : (Under(t)' <=> Under(t)) /\ Standing(t)' = Standing(t)
  BY <1>1 DEF Under, Standing
<1>4. \A t : Final(t, Standing(t))' <=> Final(t, Standing(t))
  BY <1>1 DEF Final, Standing
<1>5. AgreeInv'
  BY <1>1, <1>2, <1>3, <1>4 DEF AgreeInv
<1>6. CoverInv'
  BY <1>1, <1>2, <1>3 DEF CoverInv, Following
<1> QED
  BY <1>5, <1>6

-----------------------------------------------------------------------------
(* What the menu ends up with.                                             *)

\* Shown reads the last event under way, or the list reply and the menu.
LEMMA ShownProps ==
    ASSUME TypeOK, NEW t, NEW k
    PROVE  /\ Final(t, k) => (Shown(t) <=> k = "BLOCK")
           /\ ~Under(t) => (Shown(t) <=> t \in Range(backlog) \cup Range(recent))
<1> DEFINE c == wire \o rx
           n == Len(wire)
           m == Len(rx)
           about == {i \in DOMAIN c : c[i].token = t}
           latest == CHOOSE i \in about : \A j \in about : j <= i
<1>1. /\ DOMAIN c = 1 .. n + m /\ n \in Nat /\ m \in Nat
      /\ DOMAIN wire = 1 .. n /\ DOMAIN rx = 1 .. m
      /\ \A i \in 1 .. n : c[i] = wire[i]
      /\ \A i \in 1 .. m : c[n + i] = rx[i]
      /\ \A i \in 1 .. n + m :
            \/ i \in 1 .. n
            \/ i - n \in 1 .. m /\ c[i] = rx[i - n]
      /\ t \in Mentions(c) <=> Under(t)
  BY Coming
<1>2. Shown(t) <=> IF about # {} THEN c[latest].kind = "BLOCK"
                   ELSE t \in Range(backlog) \cup Range(recent)
  BY DEF Shown
<1> HIDE DEF c, n, m
<1>3. about # {} <=> Under(t)
  BY <1>1 DEF Mentions
<1>4. ASSUME NEW l \in 1 .. n + m, c[l].token = t,
             \A j \in 1 .. n + m : j > l => c[j].token # t
      PROVE  latest = l
  <2>1. l \in about /\ \A j \in about : j <= l
    BY <1>1, <1>4
  <2>2. latest \in about /\ \A j \in about : j <= latest
    BY <2>1
  <2>3. latest \in Int /\ l \in Int /\ latest <= l /\ l <= latest
    BY <1>1, <2>1, <2>2
  <2> HIDE DEF latest
  <2> QED
    BY <2>3
<1>5. ASSUME Ends(rx, t, k) PROVE about # {} /\ c[latest].kind = k
  <2>1. PICK i \in 1 .. m : /\ rx[i].token = t /\ rx[i].kind = k
                            /\ \A j \in 1 .. m : j > i => rx[j].token # t
    BY <1>1, <1>5 DEF Ends
  <2>2. n + i \in 1 .. n + m /\ c[n + i] = rx[i]
    BY <1>1
  <2>3. ASSUME NEW j \in 1 .. n + m, j > n + i PROVE c[j].token # t
    <3>1. ~(j \in 1 .. n) /\ j - n > i
      BY <1>1, <2>3
    <3>2. j - n \in 1 .. m /\ c[j] = rx[j - n]
      BY <1>1, <3>1
    <3> QED
      BY <2>1, <3>1, <3>2
  <2>4. latest = n + i
    BY <1>4, <2>1, <2>2, <2>3
  <2> HIDE DEF latest
  <2> QED
    BY <1>1, <2>1, <2>2, <2>4
<1>6. ASSUME t \notin Mentions(rx), Ends(wire, t, k)
      PROVE  about # {} /\ c[latest].kind = k
  <2>1. PICK i \in 1 .. n : /\ wire[i].token = t /\ wire[i].kind = k
                            /\ \A j \in 1 .. n : j > i => wire[j].token # t
    BY <1>1, <1>6 DEF Ends
  <2>2. i \in 1 .. n + m /\ c[i] = wire[i]
    BY <1>1
  <2>3. ASSUME NEW j \in 1 .. n + m, j > i PROVE c[j].token # t
    <3>1. CASE j \in 1 .. n
      BY <1>1, <2>1, <2>3, <3>1
    <3>2. CASE j \notin 1 .. n
      <4>1. j - n \in 1 .. m /\ c[j] = rx[j - n]
        BY <1>1, <3>2
      <4> QED
        BY <1>1, <1>6, <4>1 DEF Mentions
    <3> QED
      BY <3>1, <3>2
  <2>4. latest = i
    BY <1>4, <2>1, <2>2, <2>3
  <2> HIDE DEF latest
  <2> QED
    BY <1>1, <2>1, <2>2, <2>4
<1> HIDE DEF latest, about
<1>7. Final(t, k) => about # {} /\ c[latest].kind = k
  BY <1>5, <1>6 DEF Final
<1> QED
  BY <1>2, <1>3, <1>7

\* All that the tray's view rests on.
ViewInv ==
    /\ TypeOK /\ TableConsistent /\ QueueInv /\ MenuInv
    /\ AgreeInv /\ CoverInv

\* At first there is nothing to show and nothing shown.
LEMMA ViewInit == Init => ViewInv
<1> SUFFICES ASSUME Init PROVE ViewInv
  OBVIOUS
<1>1. TypeOK /\ TableConsistent
  BY TypeInit, TableInit
<1>2. QueueInv
  BY OrderlyEmpty DEF Init, QueueInv
<1>3. MenuInv
  BY DEF Init, MenuInv, Distinct
<1>4. AgreeInv
  BY DEF Init, AgreeInv, Under, Mentions, Range
<1>5. CoverInv
  BY DEF Init, CoverInv
<1> QED
  BY <1>1, <1>2, <1>3, <1>4, <1>5 DEF ViewInv

\* The daemon's steps keep the view.
LEMMA DaemonView ==
    ASSUME ViewInv,
           \/ \E t \in Tokens : Block(t)
           \/ RingEmpty \/ Serve \/ Timeout \/ stream_blocks \/ Crash \/ Restart
    PROVE  AgreeInv' /\ CoverInv'
<1> USE DEF ViewInv
<1>1. CASE \E t \in Tokens : Block(t)
  BY <1>1, BlockView
<1>2. CASE RingEmpty \/ Timeout \/ Restart
  BY <1>2, ViewFrame DEF RingEmpty, Timeout, Restart, table, stream, trayVars
<1>3. CASE ServeSubscribe
  <2>1. /\ conns \in Seq(Requests) /\ conns # <<>>
        /\ conns[1].client = "subscribe" /\ Orderly(conns, sub, tray)
    BY <1>3 DEF ServeSubscribe, Served, TypeOK, QueueInv
  <2>2. 1 \in DOMAIN conns
    BY <2>1, TailProps
  <2>3. sub = "queued" /\ tray \in {"list", "wait"}
    BY <2>1, <2>2 DEF Orderly
  <2>4. rx = <<>>
    BY <2>3 DEF QueueInv
  <2>5. UNCHANGED <<map, lost, rx, wire, backlog, recent, tray>>
    BY <1>3, <2>4 DEF ServeSubscribe, table, trayVars
  <2>6. AgreeInv'
    BY <2>5, AgreeFrame
  <2>7. CoverInv'
    BY <2>3, <2>5 DEF CoverInv, Following
  <2> QED
    BY <2>6, <2>7
<1>4. CASE ServeList
  BY <1>4, ListView
<1>5. CASE ServeStuck
  BY <1>5, ViewFrame DEF ServeStuck, table, stream, trayVars
<1>6. CASE \E client \in {"worker", "cli"} : ServeRequest(client)
  BY <1>6, RequestView
<1>7. CASE stream_blocks
  BY <1>7, ForwardView
<1>8. CASE Crash
  <2>1. lost' = Tokens /\ sub' # "open"
    BY <1>8 DEF Crash
  <2> QED
    BY <2>1 DEF AgreeInv, CoverInv, Following
<1> QED
  BY <1>1, <1>2, <1>3, <1>4, <1>5, <1>6, <1>7, <1>8 DEF Serve

\* So do the tray's and the other clients'.
LEMMA ClientView ==
    ASSUME ViewInv, Tray \/ Others
    PROVE  AgreeInv' /\ CoverInv'
<1> USE DEF ViewInv
<1>1. CASE Subscribe
  <2>1. UNCHANGED <<map, lost, rx, wire, backlog, recent>> /\ tray' = "list"
    BY <1>1 DEF Subscribe, table
  <2>2. AgreeInv'
    BY <2>1, AgreeFrame
  <2> QED
    BY <2>1, <2>2 DEF CoverInv, Following
<1>2. CASE list_pending
  <2>1. /\ UNCHANGED <<map, lost, rx, wire, backlog, recent, sub>>
        /\ tray' = "wait" \/ ~up
    BY <1>2 DEF list_pending, table, stream
  <2>2. AgreeInv'
    BY <2>1, AgreeFrame
  <2>3. tray' = "wait" \/ sub # "open"
    BY <2>1 DEF QueueInv
  <2> QED
    BY <2>1, <2>2, <2>3 DEF CoverInv, Following
<1>3. CASE Backfill
  BY <1>3, BackfillView
<1>4. CASE ReadLine
  BY <1>4, ReadView
<1>5. CASE Disconnect
  <2>1. UNCHANGED <<map, lost, rx, wire, backlog, recent>> /\ tray' = "off"
    BY <1>5 DEF Disconnect, table
  <2>2. AgreeInv'
    BY <2>1, AgreeFrame
  <2> QED
    BY <2>1, <2>2 DEF CoverInv, Following
<1>6. CASE \E t \in Tokens, v \in Verbs : dispatch(t, v)
  BY <1>6, ClickView
<1>7. CASE action_worker
  BY <1>7, ViewFrame DEF action_worker, table, stream, trayVars
<1>8. CASE Others
  <2>1. UNCHANGED <<map, lost, rx, wire, backlog, recent, sub, tray, acted>>
    BY <1>8 DEF Others, Command, Stick, Ask, StuckEnds, table, stream, trayVars
  <2> QED
    BY <2>1, ViewFrame
<1> QED
  BY <1>1, <1>2, <1>3, <1>4, <1>5, <1>6, <1>7, <1>8 DEF Tray

\* Every step keeps what is known of the table and the menu.
LEMMA ViewStep == ViewInv /\ [Next]_vars => ViewInv'
<1> SUFFICES ASSUME ViewInv, [Next]_vars PROVE ViewInv'
  OBVIOUS
<1>1. TypeOK' /\ TableConsistent' /\ QueueInv' /\ MenuInv'
  BY TypeStep, TableStep, QueueStep, MenuStep DEF ViewInv
<1>2. CASE Next
  <2>1. AgreeInv' /\ CoverInv'
    BY <1>2, DaemonView, ClientView DEF Next
  <2> QED
    BY <1>1, <2>1 DEF ViewInv
<1>3. CASE UNCHANGED vars
  <2>1. AgreeInv' /\ CoverInv'
    BY <1>3, ViewFrame DEF vars, ViewInv
  <2> QED
    BY <1>1, <2>1 DEF ViewInv
<1> QED
  BY <1>2, <1>3

\* What the two properties of the menu follow from.
LEMMA ViewShows == ViewInv => NoPhantom /\ NothingMissed
<1> SUFFICES ASSUME ViewInv PROVE NoPhantom /\ NothingMissed
  OBVIOUS
<1>1. ASSUME NEW t \in Tokens \ lost, Shown(t) PROVE t \in map
  <2>1. /\ Under(t) => Final(t, Standing(t))
        /\ ~Under(t) /\ t \in Range(backlog) \cup Range(recent) => t \in map
    BY DEF ViewInv, AgreeInv
  <2>2. CASE Under(t)
    <3>1. Standing(t) = "BLOCK"
      BY <1>1, <2>1, <2>2, ShownProps DEF ViewInv
    <3> QED
      BY <3>1 DEF Standing
  <2>3. CASE ~Under(t)
    BY <1>1, <2>1, <2>3, ShownProps DEF ViewInv
  <2> QED
    BY <2>2, <2>3
<1>2. ASSUME Following, MAX_RECENT >= Cardinality(Tokens),
             NEW t \in map \ (lost \cup acted)
      PROVE  Shown(t)
  <2>0. t \in Tokens \ lost
    BY DEF ViewInv, TypeOK
  <2>1. CASE Under(t)
    <3>1. Final(t, "BLOCK")
      BY <2>0, <2>1 DEF ViewInv, AgreeInv, Standing
    <3> QED
      BY <3>1, ShownProps DEF ViewInv
  <2>2. CASE ~Under(t)
    <3>1. t \in Range(backlog) \cup Range(recent)
      BY <1>2, <2>2 DEF ViewInv, CoverInv
    <3> QED
      BY <2>2, <3>1, ShownProps DEF ViewInv
  <2> QED
    BY <2>1, <2>2
<1> QED
  BY <1>1, <1>2 DEF NoPhantom, NothingMissed

\* Whatever order clicks, commands, blocks, the stream and the list come in,
\* the tray's menu ends up without a block that is no longer pending, unless
\* the change was never announced: for any number of tokens, any capacity of
\* the channel and the menu, with restarts and stuck clients.
THEOREM PhantomTheorem == Spec => []NoPhantom
<1>1. Init => ViewInv
  BY ViewInit
<1>2. ViewInv /\ [Next]_vars => ViewInv'
  BY ViewStep
<1>3. ViewInv => NoPhantom
  BY ViewShows
<1> QED
  BY <1>1, <1>2, <1>3, PTL DEF Spec

\* A pending block ends up in the menu, the ones from before the tray
\* subscribed and the ones during its list request included, unless its event
\* was lost to lag or the user has dealt with it there.
THEOREM MissedTheorem == Spec => []NothingMissed
<1>1. Init => ViewInv
  BY ViewInit
<1>2. ViewInv /\ [Next]_vars => ViewInv'
  BY ViewStep
<1>3. ViewInv => NothingMissed
  BY ViewShows
<1> QED
  BY <1>1, <1>2, <1>3, PTL DEF Spec

-----------------------------------------------------------------------------
(* The review window.                                                      *)

\* A row is hidden only with its token gone from the table, and every row is
\* a token's.
RowsInv ==
    /\ rows \in [Tokens -> {"none", "open", "error", "done"}]
    /\ HiddenMeansResolved

\* A row's result that is an error hides nothing.
LEMMA ErrorRow ==
    ASSUME RowsInv, NEW t, RowResult(t, "error"), map' = map, again' = again
    PROVE  RowsInv'
<1>1. rows' = [rows EXCEPT ![t] = "error"]
  BY DEF RowResult
<1>2. rows' \in [Tokens -> {"none", "open", "error", "done"}]
  BY <1>1 DEF RowsInv
<1>3. \A x \in Tokens : rows'[x] = "done" => rows[x] = "done"
  BY <1>1 DEF RowsInv
<1> QED
  BY <1>2, <1>3 DEF RowsInv, HiddenMeansResolved

\* A reply hides the row exactly when the request took the token out.
LEMMA ServedRow ==
    ASSUME RowsInv, ServeRow
    PROVE  RowsInv'
<1> DEFINE t == conns[1].token
           ok == t \in map \ map'
<1>1. ServeRequest("review") /\ RowResult(t, Outcome(ok)) /\ again' = again \ {t}
  BY DEF ServeRow
<1>2. rows' = [rows EXCEPT ![t] = Outcome(ok)]
  BY <1>1 DEF RowResult
<1>3. map' \subseteq map
  BY <1>1 DEF ServeRequest, remove, table
<1>4. Outcome(ok) \in {"error", "done"} /\ (Outcome(ok) = "done" <=> ok)
  BY DEF Outcome
<1> HIDE DEF t
<1>5. rows' \in [Tokens -> {"none", "open", "error", "done"}]
  BY <1>2, <1>4 DEF RowsInv
<1>6. ASSUME NEW x \in Tokens, rows'[x] = "done"
      PROVE  x \notin map' \/ x \in again'
  <2>1. CASE x = t
    <3>1. rows'[x] = Outcome(ok)
      BY <1>2, <2>1 DEF RowsInv
    <3> QED
      BY <1>4, <1>6, <2>1, <3>1
  <2>2. CASE x # t
    <3>1. rows'[x] = rows[x]
      BY <1>2, <2>2 DEF RowsInv
    <3> QED
      BY <1>1, <1>3, <1>6, <2>2, <3>1 DEF RowsInv, HiddenMeansResolved
  <2> QED
    BY <2>1, <2>2
<1> QED
  BY <1>5, <1>6 DEF RowsInv, HiddenMeansResolved

\* Every step of the window and the daemon keeps hidden rows resolved.
LEMMA RowsStep == RowsInv /\ [ReviewNext]_allVars => RowsInv'
<1> SUFFICES ASSUME RowsInv, [ReviewNext]_allVars PROVE RowsInv'
  OBVIOUS
<1>0. ASSUME UNCHANGED <<map, rows, again>> PROVE RowsInv'
  BY <1>0 DEF RowsInv, HiddenMeansResolved
<1>1. CASE BlocksStep
  BY <1>1 DEF BlocksStep, RowsInv, HiddenMeansResolved
<1>2. CASE ServeFetch
  <2>1. /\ map' = map
        /\ rows' = [t \in Tokens |-> IF t \in Range(list) THEN "open" ELSE "none"]
    BY <1>2 DEF ServeFetch, daemonSide, table
  <2> QED
    BY <2>1 DEF RowsInv, HiddenMeansResolved
<1>3. CASE ServeRow
  BY <1>3, ServedRow
<1>4. CASE ServeLate
  <2>1. map' \subseteq map /\ UNCHANGED <<rows, again>>
    BY <1>4 DEF ServeLate, ServeRequest, remove, table
  <2> QED
    BY <2>1 DEF RowsInv, HiddenMeansResolved
<1>5. CASE fetch_pending
  BY <1>0, <1>5 DEF fetch_pending, daemonSide, table
<1>6. CASE GiveUp
  <2>1. UNCHANGED <<map, again>>
    BY <1>6 DEF GiveUp, daemonSide, table
  <2>2. \/ \E t \in Tokens : RowResult(t, "error")
        \/ UNCHANGED rows
    BY <1>6 DEF GiveUp
  <2> QED
    BY <1>0, <2>1, <2>2, ErrorRow
<1>7. CASE Close
  <2>1. rows' = NoRows
    BY <1>7 DEF Close
  <2> QED
    BY <2>1 DEF RowsInv, HiddenMeansResolved, NoRows
<1>8. CASE \E v \in Verbs : apply(v)
  BY <1>0, <1>8 DEF apply, vars
<1>9. CASE \E t \in Tokens : Unsent(t)
  BY <1>9, ErrorRow DEF Unsent, vars
<1>10. CASE \E t \in Tokens : send_command(t)
  BY <1>0, <1>10 DEF send_command, daemonSide, table
<1>11. CASE UNCHANGED allVars
  BY <1>0, <1>11 DEF allVars, vars, reviewVars
<1> QED
  BY <1>1, <1>2, <1>3, <1>4, <1>5, <1>6, <1>7, <1>8, <1>9, <1>10, <1>11
  DEF ReviewNext, ServeReview, Window

\* A row the review window has hidden as dealt with is a block the daemon no
\* longer holds, or one that was blocked again afterwards, whatever the tray,
\* other commands and requests given up after five seconds do meanwhile.
THEOREM HiddenTheorem == ReviewSpec => []HiddenMeansResolved
<1>1. ReviewInit => RowsInv
  BY DEF ReviewInit, NoRows, RowsInv, HiddenMeansResolved
<1>2. RowsInv /\ [ReviewNext]_allVars => RowsInv'
  BY RowsStep
<1>3. RowsInv => HiddenMeansResolved
  BY DEF RowsInv
<1> QED
  BY <1>1, <1>2, <1>3, PTL DEF ReviewSpec
=============================================================================
