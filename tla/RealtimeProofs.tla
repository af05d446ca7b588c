---- MODULE RealtimeProofs ----
(***************************************************************************)
(* Proofs about Realtime, for every value of its constants: any number of  *)
(* jobs, tabs, sockets of other programs, requests, events and             *)
(* disturbances.                                                           *)
(*                                                                         *)
(* The parts of IInv, each with the lemma that every step preserves it:    *)
(*   HubStep, TypeStep  the indexes change only by the hub's operations,   *)
(*                      which keep them one relation (Agree);              *)
(*   TabStep            what a tab's socket, heartbeat and timer may be    *)
(*                      together, by the handlers of that tab alone;       *)
(*   StreamsStep        events are sent from the bus to the outboxes to    *)
(*                      the tabs, newest behind, and a stream that breaks  *)
(*                      off loses all it still held;                       *)
(*   AskedStep          a socket of a tab carries nothing the tab did not  *)
(*                      subscribe to.                                      *)
(* KeptStep is the converse of the last: nothing asked for is lost.        *)
(***************************************************************************)
EXTENDS Realtime, SequenceTheorems, TLAPS

(***************************************************************************)
(* Queues                                                                  *)
(***************************************************************************)

\* What is in a queue has the type of its elements.
LEMMA RangeType ==
  ASSUME NEW S, NEW q \in Seq(S), NEW e \in Range(q)
  PROVE  e \in S
  BY LenProperties DEF Range

\* Taking the first element of a queue leaves the others.
LEMMA TailRange ==
  ASSUME NEW S, NEW q \in Seq(S), q # <<>>
  PROVE  /\ Head(q) \in S /\ Tail(q) \in Seq(S)
         /\ Head(q) \in Range(q) /\ Range(Tail(q)) \subseteq Range(q)
<1>1. /\ Head(q) \in S /\ Tail(q) \in Seq(S) /\ Len(Tail(q)) = Len(q) - 1
      /\ \A i \in 1..Len(Tail(q)) : Tail(q)[i] = q[i + 1]
      /\ Len(q) \in Nat \ {0} /\ DOMAIN q = 1..Len(q)
  BY HeadTailProperties, EmptySeq, LenProperties
<1>2. Head(q) = q[1]
  OBVIOUS
<1>3. DOMAIN Tail(q) = 1..Len(Tail(q))
  BY <1>1, LenProperties
<1>4. QED
  BY <1>1, <1>2, <1>3 DEF Range

\* Appending adds one element.
LEMMA AppendRange ==
  ASSUME NEW S, NEW q \in Seq(S), NEW e \in S
  PROVE  Append(q, e) \in Seq(S) /\ Range(Append(q, e)) = Range(q) \cup {e}
<1>1. /\ Append(q, e) \in Seq(S) /\ Len(Append(q, e)) = Len(q) + 1 /\ Len(q) \in Nat
      /\ Append(q, e)[Len(q) + 1] = e
      /\ \A i \in 1..Len(q) : Append(q, e)[i] = q[i]
      /\ DOMAIN q = 1..Len(q)
  BY LenProperties
<1>2. DOMAIN Append(q, e) = 1..Len(q) + 1
  BY <1>1, LenProperties
<1>3. QED
  BY <1>1, <1>2 DEF Range

\* A queue after another has the elements of both.
LEMMA ConcatRange ==
  ASSUME NEW S, NEW q \in Seq(S), NEW r \in Seq(S)
  PROVE  q \o r \in Seq(S) /\ Range(q \o r) \subseteq Range(q) \cup Range(r)
<1>1. /\ Len(q) \in Nat /\ Len(r) \in Nat /\ DOMAIN q = 1..Len(q) /\ DOMAIN r = 1..Len(r)
  BY LenProperties
<1>2. /\ q \o r \in Seq(S) /\ Len(q \o r) = Len(q) + Len(r)
      /\ \A i \in 1..Len(q) + Len(r) : (q \o r)[i] = IF i <= Len(q) THEN q[i] ELSE r[i - Len(q)]
  BY ConcatProperties
<1>3. DOMAIN (q \o r) = 1..Len(q) + Len(r)
  BY <1>2, LenProperties
<1>4. QED
  BY <1>1, <1>2, <1>3 DEF Range

\* A prefix has no other elements.
LEMMA PrefixRange ==
  ASSUME NEW S, NEW q \in Seq(S), NEW k \in 0..Len(q)
  PROVE  SubSeq(q, 1, k) \in Seq(S) /\ Range(SubSeq(q, 1, k)) \subseteq Range(q)
<1>1. Len(q) \in Nat /\ DOMAIN q = 1..Len(q) /\ \A i \in 1..k : q[i] \in S
  BY LenProperties
<1>2. /\ SubSeq(q, 1, k) \in Seq(S)
      /\ Len(SubSeq(q, 1, k)) = IF 1 <= k THEN k - 1 + 1 ELSE 0
      /\ \A i \in 1..k - 1 + 1 : SubSeq(q, 1, k)[i] = q[1 + i - 1]
  BY <1>1, SubSeqProperties
<1>3. DOMAIN SubSeq(q, 1, k) = 1..Len(SubSeq(q, 1, k))
  BY <1>2, LenProperties
<1>4. QED
  BY <1>1, <1>2, <1>3 DEF Range

----
(***************************************************************************)
(* The hub                                                                 *)
(***************************************************************************)

\* The two indexes of the hub are one relation, without empty entries of jobs.
Agree ==
  /\ \A j \in Jobs, s \in Sockets : s \in Entry(byJob, j) <=> j \in Entry(byClient, s)
  /\ \A j \in DOMAIN byJob : byJob[j] # {}

\* Without takes a client out of the entries of some jobs and leaves no empty
\* entry.
LEMMA WithoutEntry ==
  ASSUME HubTypeOK, Agree, NEW s, NEW J
  PROVE  /\ IsIndex(Without(s, J), Jobs, Sockets)
         /\ \A j : Entry(Without(s, J), j) =
                     IF j \in J THEN Entry(byJob, j) \ {s} ELSE Entry(byJob, j)
         /\ \A j \in DOMAIN Without(s, J) : Without(s, J)[j] # {}
  BY DEF HubTypeOK, IsIndex, Agree, Without, Entry

\* Subscribe relates a client to a job.
LEMMA SubscribeAgrees ==
  ASSUME HubTypeOK, Agree, NEW s \in Sockets, NEW j \in Jobs, Subscribe(s, j)
  PROVE  /\ HubTypeOK' /\ Agree'
         /\ DOMAIN byClient' = DOMAIN byClient \cup {s}
         /\ \A k : Entry(byClient', k) =
                     IF k = s THEN Entry(byClient, s) \cup {j} ELSE Entry(byClient, k)
<1>1. /\ IsIndex(byJob', Jobs, Sockets) /\ DOMAIN byJob' = DOMAIN byJob \cup {j}
      /\ \A k : Entry(byJob', k) = IF k = j THEN Entry(byJob, j) \cup {s} ELSE Entry(byJob, k)
  BY DEF HubTypeOK, IsIndex, Subscribe, Put, Entry
<1>2. /\ IsIndex(byClient', Sockets, Jobs) /\ DOMAIN byClient' = DOMAIN byClient \cup {s}
      /\ \A k : Entry(byClient', k) =
                  IF k = s THEN Entry(byClient, s) \cup {j} ELSE Entry(byClient, k)
  BY DEF HubTypeOK, IsIndex, Subscribe, Put, Entry
<1>3. ASSUME NEW i \in DOMAIN byJob' PROVE byJob'[i] # {}
  BY <1>1, <1>3 DEF Agree, Entry
<1>4. QED
  BY <1>1, <1>2, <1>3 DEF HubTypeOK, Agree

\* Unsubscribe parts them, in both indexes.
LEMMA UnsubscribeAgrees ==
  ASSUME HubTypeOK, Agree, NEW s \in Sockets, NEW j \in Jobs, Unsubscribe(s, j)
  PROVE  /\ HubTypeOK' /\ Agree'
         /\ DOMAIN byClient' = DOMAIN byClient
         /\ \A k : Entry(byClient', k) \subseteq Entry(byClient, k)
<1>1. /\ IsIndex(byJob', Jobs, Sockets)
      /\ \A i : Entry(byJob', i) = IF i \in {j} THEN Entry(byJob, i) \ {s} ELSE Entry(byJob, i)
      /\ \A i \in DOMAIN byJob' : byJob'[i] # {}
  <2>1. byJob' = Without(s, {j})
    BY DEF Unsubscribe
  <2> DEFINE new == Without(s, {j})
  <2>2. /\ IsIndex(new, Jobs, Sockets)
        /\ \A i : Entry(new, i) = IF i \in {j} THEN Entry(byJob, i) \ {s} ELSE Entry(byJob, i)
        /\ \A i \in DOMAIN new : new[i] # {}
    BY WithoutEntry
  <2> HIDE DEF new
  <2>3. byJob' = new
    BY <2>1 DEF new
  <2>4. QED
    BY <2>2, <2>3
<1>2. /\ IsIndex(byClient', Sockets, Jobs) /\ DOMAIN byClient' = DOMAIN byClient
      /\ \A k : Entry(byClient', k) = IF k = s THEN Entry(byClient, k) \ {j} ELSE Entry(byClient, k)
  BY DEF HubTypeOK, IsIndex, Unsubscribe, Entry
<1>3. QED
  BY <1>1, <1>2 DEF HubTypeOK, Agree

\* Remove parts a client from every job, and drops its entry.
LEMMA RemoveAgrees ==
  ASSUME HubTypeOK, Agree, NEW s \in Sockets, Remove(s)
  PROVE  /\ HubTypeOK' /\ Agree'
         /\ DOMAIN byClient' = DOMAIN byClient \ {s}
         /\ \A k : Entry(byClient', k) \subseteq Entry(byClient, k)
<1>1. /\ IsIndex(byJob', Jobs, Sockets)
      /\ \A i : Entry(byJob', i) = IF i \in Entry(byClient, s) THEN Entry(byJob, i) \ {s}
                                   ELSE Entry(byJob, i)
      /\ \A i \in DOMAIN byJob' : byJob'[i] # {}
  BY WithoutEntry DEF Remove
<1>2. /\ IsIndex(byClient', Sockets, Jobs) /\ DOMAIN byClient' = DOMAIN byClient \ {s}
      /\ \A k : Entry(byClient', k) = IF k = s THEN {} ELSE Entry(byClient, k)
  BY DEF HubTypeOK, IsIndex, Remove, Entry
<1>3. QED
  BY <1>1, <1>2 DEF HubTypeOK, Agree

----
(***************************************************************************)
(* The inductive invariant                                                 *)
(***************************************************************************)

\* A tab has no socket or one of its own; its heartbeat runs exactly while
\* the socket is open; and while it has no socket, either the timer runs or
\* nobody wants one.
TabOK(t) ==
  /\ socket[t] = None => state[t] = "closed" /\ ~timer[t] /\ ~closed[t]
  /\ socket[t] # None => \E n \in 1..MaxSockets : socket[t] = SocketOf(t, n)
  /\ heartbeat[t].running = IF state[t] = "open" THEN 1 ELSE 0
  /\ heartbeat[t].known <=> state[t] = "open"
  /\ timer[t] => state[t] = "closed" /\ ~closed[t]
  /\ closed[t] => state[t] \in {"closing", "closed"}
  /\ state[t] = "closing" => closed[t]
  /\ socket[t] # None /\ ~closed[t] => timer[t] \/ state[t] # "closed"

\* The events of a queue are in the order they were published.
Ordered(q) == \A i, k \in DOMAIN q : i < k => q[i][2] < q[k][2]

\* What is on the bus is newer than what any socket was sent, and what a
\* tab's socket still has for it is newer than what it got; a connection that
\* is not up has nothing on its way.
Streams ==
  /\ Ordered(bus)
  /\ \A e \in Range(bus) : e[2] <= published
  /\ \A s \in Sockets :
       /\ Ordered(outbox[s])
       /\ \A e \in Range(outbox[s]) : e[2] <= published /\ \A f \in Range(bus) : e[2] < f[2]
       /\ link[s] # "up" => outbox[s] = <<>>
  /\ \A t \in Tabs, j \in Jobs :
       /\ got[t][j] <= published
       /\ \A e \in Range(bus) : got[t][j] < e[2]
       /\ \A s \in Sockets : s = socket[t] =>
            \A e \in Range(outbox[s]) : e[1] = j => got[t][j] < e[2]

\* All that goes on at the sockets of a tab is about jobs it asked for.
OnlyAsked ==
  \A t \in Tabs, n \in 1..MaxSockets :
    /\ Entry(byClient, SocketOf(t, n)) \subseteq Range(subscriptions[t])
    /\ \A r \in Range(inbox[SocketOf(t, n)]) : r[2] \in Range(subscriptions[t])
    /\ \A e \in Range(outbox[SocketOf(t, n)]) : e[1] \in Range(subscriptions[t])

IInv == HubInv /\ (\A t \in Tabs : TabOK(t)) /\ Streams /\ OnlyAsked

----
(***************************************************************************)
(* What the operations do to the sockets                                   *)
(***************************************************************************)

\* The sockets of a tab are sockets, its own, and nobody else's.
LEMMA TabSockets ==
  ASSUME NEW t \in Tabs, NEW n \in 1..MaxSockets
  PROVE  /\ SocketOf(t, n) \in Sockets \ Others
         /\ \A u, m : SocketOf(t, n) = SocketOf(u, m) => t = u /\ n = m
  BY RealtimeAssumption DEF SocketOf

\* The socket a tab has is one of its own.
LEMMA TabSocket ==
  ASSUME IInv, NEW t \in Tabs, socket[t] # None
  PROVE  /\ socket[t] \in Sockets \ Others
         /\ \E n \in 1..MaxSockets : socket[t] = SocketOf(t, n)
  BY TabSockets DEF IInv, TabOK

\* Cutting a connection shortens what is on its way, and nothing else.
LEMMA CutSockets ==
  ASSUME TypeOK, NEW s \in Sockets, Cut(s)
  PROVE  /\ link' \in [Sockets -> LinkState]
         /\ inbox' \in [Sockets -> Seq(Request)] /\ outbox' \in [Sockets -> Seq(Event)]
         /\ \A x \in Sockets :
              /\ Range(inbox'[x]) \subseteq Range(inbox[x])
              /\ outbox'[x] = (IF x = s THEN <<>> ELSE outbox[x])
              /\ link[x] # "up" => link'[x] = link[x]
              /\ x # s => link'[x] = link[x]
<1>1. link' \in [Sockets -> LinkState] /\ outbox' \in [Sockets -> Seq(Event)]
  BY DEF Cut, TypeOK, LinkState
<1>2. PICK k \in 0..Len(inbox[s]) : inbox' = [inbox EXCEPT ![s] = SubSeq(@, 1, k)]
  BY DEF Cut
<1>3. /\ SubSeq(inbox[s], 1, k) \in Seq(Request)
      /\ Range(SubSeq(inbox[s], 1, k)) \subseteq Range(inbox[s])
  BY PrefixRange DEF TypeOK
<1>4. QED
  BY <1>1, <1>2, <1>3 DEF Cut, TypeOK

\* Sending adds requests to the inbox of the tab's own socket, or nothing.
LEMMA SendSockets ==
  ASSUME IInv, NEW t \in Tabs, socket[t] # None, NEW readyState,
         NEW requests \in Seq(Request), Send(t, readyState, requests)
  PROVE  /\ inbox' \in [Sockets -> Seq(Request)]
         /\ \A x \in Sockets :
              Range(inbox'[x]) \subseteq
                Range(inbox[x]) \cup (IF x = socket[t] THEN Range(requests) ELSE {})
<1>1. socket[t] \in Sockets /\ inbox \in [Sockets -> Seq(Request)]
  BY TabSocket DEF IInv, HubInv, TypeOK
<1>2. /\ inbox[socket[t]] \o requests \in Seq(Request)
      /\ Range(inbox[socket[t]] \o requests) \subseteq Range(inbox[socket[t]]) \cup Range(requests)
  BY <1>1, ConcatRange
<1>3. QED
  BY <1>1, <1>2 DEF Send

\* The requests of a tab that connects are about the jobs it asked for.
LEMMA Resubscription ==
  ASSUME TypeOK, NEW t \in Tabs
  PROVE  LET requests == [i \in DOMAIN subscriptions[t] |-> <<"subscribe", subscriptions[t][i]>>]
         IN  /\ requests \in Seq(Request)
             /\ \A r \in Range(requests) : r[2] \in Range(subscriptions[t])
<1>1. /\ subscriptions[t] \in Seq(Jobs) /\ Len(subscriptions[t]) \in Nat
      /\ DOMAIN subscriptions[t] = 1..Len(subscriptions[t])
      /\ \A i \in 1..Len(subscriptions[t]) : subscriptions[t][i] \in Jobs
  BY LenProperties DEF TypeOK
<1> DEFINE requests == [i \in 1..Len(subscriptions[t]) |-> <<"subscribe", subscriptions[t][i]>>]
<1>2. requests \in Seq(Request)
  BY <1>1 DEF Request
<1>3. ASSUME NEW i \in 1..Len(subscriptions[t])
      PROVE  requests[i][2] \in Range(subscriptions[t])
  BY <1>1 DEF Range
<1>4. \A r \in Range(requests) : r[2] \in Range(subscriptions[t])
  <2>1. Range(requests) = {requests[i] : i \in 1..Len(subscriptions[t])}
    BY DEF Range
  <2>2. QED
    BY <1>3, <2>1
<1>5. QED
  BY <1>1, <1>2, <1>4

\* Broadcasting adds an event to the outboxes of its subscribers.
LEMMA BroadcastSockets ==
  ASSUME TypeOK, NEW event \in Event, Broadcast(event)
  PROVE  /\ outbox' \in [Sockets -> Seq(Event)]
         /\ \A s \in Sockets :
              \/ outbox'[s] = outbox[s]
              \/ /\ s \in Subscribers(event[1]) /\ link[s] = "up"
                 /\ outbox'[s] = Append(outbox[s], event)
                 /\ Range(outbox'[s]) = Range(outbox[s]) \cup {event}
<1>1. ASSUME NEW s \in Sockets
      PROVE  /\ Append(outbox[s], event) \in Seq(Event)
             /\ Range(Append(outbox[s], event)) = Range(outbox[s]) \cup {event}
  BY AppendRange DEF TypeOK
<1>2. QED
  BY <1>1 DEF Broadcast, TypeOK

\* A tab keeps what it asked for.
LEMMA WantRange ==
  ASSUME TypeOK, NEW t \in Tabs, NEW j \in Jobs, Want(t, j)
  PROVE  /\ subscriptions' \in [Tabs -> Seq(Jobs)]
         /\ Range(subscriptions'[t]) = Range(subscriptions[t]) \cup {j}
         /\ \A u \in Tabs : u # t => subscriptions'[u] = subscriptions[u]
<1>1. /\ Append(subscriptions[t], j) \in Seq(Jobs)
      /\ Range(Append(subscriptions[t], j)) = Range(subscriptions[t]) \cup {j}
  BY AppendRange DEF TypeOK
<1>2. QED
  BY <1>1 DEF Want, TypeOK

----
(***************************************************************************)
(* Every step preserves the types and the indexes of the hub               *)
(***************************************************************************)

\* The indexes stay one relation between clients that the server has.
LEMMA HubStep == IInv /\ [Next]_vars => HubTypeOK' /\ IndexesAgree'
<1> SUFFICES ASSUME IInv, [Next]_vars
             PROVE  HubTypeOK' /\ Agree' /\ DOMAIN byClient' \subseteq accepted'
  BY DEF IndexesAgree, Agree
<1> DEFINE Goal == HubTypeOK' /\ Agree' /\ DOMAIN byClient' \subseteq accepted'
<1>1. HubTypeOK /\ Agree /\ DOMAIN byClient \subseteq accepted /\ TypeOK
  BY DEF IInv, HubInv, TypeOK, IndexesAgree, Agree
<1>2. UNCHANGED hubVars /\ accepted \subseteq accepted' => Goal
  BY <1>1 DEF hubVars, HubTypeOK, Agree
<1> USE DEF serverVars
<1>3. CASE GatewayStarts \/ Consume \/ BusClosed
  BY <1>2, <1>3 DEF GatewayStarts, Consume, BusClosed
<1>4. CASE GatewayEnds
  <2>1. byJob' = <<>> /\ byClient' = <<>>
    BY <1>4 DEF GatewayEnds
  <2>2. QED
    BY <2>1 DEF HubTypeOK, IsIndex, Agree, Entry
<1>5. ASSUME NEW s \in Sockets, HandleMessage(s) PROVE Goal
  <2>1. Head(inbox[s]) \in Request /\ s \in accepted
    BY <1>1, <1>5, TailRange DEF HandleMessage, TypeOK
  <2>2. PICK j \in Jobs : Subscribe(s, j) \/ Unsubscribe(s, j)
    BY <1>5, <2>1 DEF HandleMessage, Request
  <2>3. HubTypeOK' /\ Agree' /\ DOMAIN byClient' \subseteq DOMAIN byClient \cup {s}
    BY <1>1, <2>2, SubscribeAgrees, UnsubscribeAgrees
  <2>4. QED
    BY <1>1, <1>5, <2>1, <2>3 DEF HandleMessage
<1>6. ASSUME NEW s \in Sockets, HandleClose(s) PROVE Goal
  <2>1. HubTypeOK' /\ Agree' /\ DOMAIN byClient' = DOMAIN byClient \ {s}
    BY <1>1, <1>6, RemoveAgrees DEF HandleClose
  <2>2. QED
    BY <1>1, <1>6, <2>1 DEF HandleClose
<1>7. ASSUME NEW t \in Tabs, Accept(t) \/ Opened(t) \/ Received(t) \/ Closed(t) \/ Reconnect(t)
      PROVE  Goal
  BY <1>2, <1>7 DEF Accept, Grant, Opened, Received, Closed, Reconnect
<1>8. ASSUME NEW t \in Tabs, Mount(t) \/ Close(t) \/ \E j \in Jobs : Want(t, j) PROVE Goal
  BY <1>2, <1>8 DEF Mount, Close, Want
<1>9. ASSUME NEW s \in Sockets, LinkLost(s) \/ OtherConnects(s) \/ OtherLeaves(s) PROVE Goal
  BY <1>2, <1>9 DEF LinkLost, OtherConnects, Grant, OtherLeaves
<1>10. ASSUME NEW s \in Others, NEW request, OtherSends(s, request) PROVE Goal
  BY <1>2, <1>10 DEF OtherSends
<1>11. ASSUME NEW j \in Jobs, Publish(j) PROVE Goal
  BY <1>2, <1>11 DEF Publish
<1>12. CASE UNCHANGED vars
  BY <1>2, <1>12 DEF vars
<1>13. Others \subseteq Sockets
  BY RealtimeAssumption
<1>14. QED
  BY <1>3, <1>4, <1>5, <1>6, <1>7, <1>8, <1>9, <1>10, <1>11, <1>12, <1>13
  DEF Next, ServeSocket, RunTab

\* The variables keep their types.
LEMMA TypeStep == IInv /\ [Next]_vars => TypeOK'
<1> SUFFICES ASSUME IInv, [Next]_vars PROVE TypeOK'
  OBVIOUS
<1>0. TypeOK /\ HubTypeOK' /\ Others \subseteq Sockets
  BY HubStep, RealtimeAssumption DEF IInv, HubInv
<1> USE <1>0 DEF serverVars, netVars, tabVars
<1>1. CASE GatewayStarts \/ BusClosed
  <2>1. {consuming', up'} \subseteq BOOLEAN
    <3>1. consuming \in BOOLEAN /\ up \in BOOLEAN
      BY Zenon DEF TypeOK
    <3>2. consuming' \in BOOLEAN /\ up' \in BOOLEAN
      BY <1>1, <3>1, Zenon DEF GatewayStarts, BusClosed
    <3>3. QED
      BY <3>2, Zenon
  <2>2. CASE GatewayStarts
    BY <2>1, <2>2 DEF GatewayStarts, TypeOK
  <2>3. CASE BusClosed
    BY <2>1, <2>3 DEF BusClosed, Disturb, TypeOK
  <2>4. QED
    BY <1>1, <2>2, <2>3
<1>2. CASE GatewayEnds
  <2>1. {consuming', up'} \subseteq BOOLEAN
    <3>1. consuming' \in BOOLEAN /\ up' \in BOOLEAN
      BY <1>2, Zenon DEF GatewayEnds
    <3>2. QED
      BY <3>1, Zenon
  <2>2. QED
    BY <1>2, <2>1 DEF GatewayEnds, Disturb, TypeOK, LinkState
<1>3. CASE Consume
  <2>1. Head(bus) \in Event /\ Tail(bus) \in Seq(Event)
    BY <1>3, TailRange DEF Consume, TypeOK
  <2>2. outbox' \in [Sockets -> Seq(Event)]
    BY <1>3, <2>1, BroadcastSockets DEF Consume
  <2>3. QED
    BY <1>3, <2>1, <2>2 DEF Consume, TypeOK
<1>4. ASSUME NEW j \in Jobs, Publish(j) PROVE TypeOK'
  <2>1. <<j, published + 1>> \in Event /\ published + 1 \in Nat
    BY DEF TypeOK, Event
  <2>2. bus' \in Seq(Event)
    BY <1>4, <2>1, AppendRange DEF Publish, TypeOK
  <2>3. QED
    BY <1>4, <2>1, <2>2 DEF Publish, TypeOK
<1>5. ASSUME NEW s \in Sockets, HandleMessage(s) PROVE TypeOK'
  <2>1. Tail(inbox[s]) \in Seq(Request)
    BY <1>5, TailRange DEF HandleMessage, TypeOK
  <2>2. QED
    BY <1>5, <2>1 DEF HandleMessage, TypeOK
<1>6. ASSUME NEW s \in Sockets, HandleClose(s) PROVE TypeOK'
  BY <1>6 DEF HandleClose, TypeOK
<1>7. ASSUME NEW s \in Sockets, LinkLost(s) \/ OtherLeaves(s) PROVE TypeOK'
  <2>1. /\ link' \in [Sockets -> LinkState]
        /\ inbox' \in [Sockets -> Seq(Request)] /\ outbox' \in [Sockets -> Seq(Event)]
    BY <1>7, CutSockets DEF LinkLost, OtherLeaves
  <2>2. QED
    BY <1>7, <2>1 DEF LinkLost, OtherLeaves, Disturb, TypeOK
<1>8. ASSUME NEW s \in Sockets, OtherConnects(s) PROVE TypeOK'
  BY <1>8 DEF OtherConnects, Grant, TypeOK, LinkState
<1>9. ASSUME NEW s \in Others, NEW request \in {"subscribe", "unsubscribe"} \X OthersAsk,
             OtherSends(s, request)
      PROVE  TypeOK'
  <2>1. request \in Request
    BY RealtimeAssumption DEF Request
  <2>2. s \in Sockets /\ Append(inbox[s], request) \in Seq(Request)
    BY <2>1, AppendRange DEF TypeOK
  <2>3. QED
    BY <1>9, <2>2 DEF OtherSends, TypeOK
<1>10. ASSUME NEW t \in Tabs, Connect(t)
       PROVE  /\ socket' \in [Tabs -> Sockets \cup {None}]
              /\ state' \in [Tabs -> ReadyState] /\ closed' \in [Tabs -> BOOLEAN]
  BY <1>10, TabSockets DEF Connect, TypeOK, ReadyState
<1>11. ASSUME NEW t \in Tabs, Mount(t) \/ Reconnect(t) PROVE TypeOK'
  BY <1>10, <1>11 DEF Mount, Reconnect, TypeOK
<1>12. ASSUME NEW t \in Tabs, Accept(t) PROVE TypeOK'
  <2>1. socket[t] \in Sockets
    BY <1>12, TabSocket DEF Accept, IInv, TabOK
  <2>2. QED
    BY <1>12, <2>1 DEF Accept, Grant, TypeOK, LinkState
<1>13. ASSUME NEW t \in Tabs, Opened(t) PROVE TypeOK'
  <2>1. socket[t] # None
    BY <1>13 DEF Opened, IInv, TabOK
  <2>2. inbox' \in [Sockets -> Seq(Request)]
    BY <1>13, <2>1, SendSockets, Resubscription DEF Opened
  <2>3. QED
    BY <1>13, <2>2 DEF Opened, StartHeartbeat, TypeOK, ReadyState
<1>14. ASSUME NEW t \in Tabs, Received(t) PROVE TypeOK'
  <2>1. socket[t] \in Sockets /\ outbox[socket[t]] \in Seq(Event) /\ outbox[socket[t]] # <<>>
    BY <1>14, TabSocket DEF Received, IInv, TabOK, TypeOK
  <2>2. Head(outbox[socket[t]]) \in Event /\ Tail(outbox[socket[t]]) \in Seq(Event)
    BY <2>1, TailRange
  <2>3. QED
    BY <1>14, <2>1, <2>2 DEF Received, TypeOK, Event
<1>15. ASSUME NEW t \in Tabs
       PROVE  (IF heartbeat[t].known THEN heartbeat[t].running - 1 ELSE heartbeat[t].running) \in Nat
  BY DEF IInv, TabOK, TypeOK
<1>16. ASSUME NEW t \in Tabs, Closed(t) PROVE TypeOK'
  BY <1>15, <1>16 DEF Closed, Cleanup, TypeOK, ReadyState
<1>17. ASSUME NEW t \in Tabs, Close(t) PROVE TypeOK'
  <2>1. socket[t] \in Sockets
    BY <1>17, TabSocket DEF Close
  <2>2. QED
    BY <1>15, <1>17, <2>1, CutSockets DEF Close, Cleanup, TypeOK, ReadyState
<1>18. ASSUME NEW t \in Tabs, NEW j \in Jobs, Want(t, j) PROVE TypeOK'
  <2>1. inbox' \in [Sockets -> Seq(Request)]
    <3>1. <<<<"subscribe", j>>>> \in Seq(Request)
      BY DEF Request
    <3>2. QED
      BY <1>18, <3>1, SendSockets DEF Want
  <2>2. QED
    BY <1>18, <2>1, WantRange DEF Want, TypeOK
<1>19. CASE UNCHANGED vars
  BY <1>19 DEF vars, TypeOK
<1>20. QED
  BY <1>1, <1>2, <1>3, <1>4, <1>5, <1>6, <1>7, <1>8, <1>9, <1>11, <1>12, <1>13,
     <1>14, <1>16, <1>17, <1>18, <1>19
  DEF Next, ServeSocket, RunTab

----
(***************************************************************************)
(* Every step preserves what is known of the tabs                          *)
(***************************************************************************)

\* Sockets, heartbeats and timers of the tabs stay in order.
LEMMA TabStep == IInv /\ [Next]_vars => \A t \in Tabs : TabOK(t)'
<1> SUFFICES ASSUME IInv, [Next]_vars, NEW v \in Tabs PROVE TabOK(v)'
  OBVIOUS
<1>1. /\ TypeOK /\ TabOK(v)
      /\ socket \in [Tabs -> Sockets \cup {None}] /\ state \in [Tabs -> ReadyState]
      /\ heartbeat \in [Tabs -> [known : BOOLEAN, running : Nat]]
      /\ timer \in [Tabs -> BOOLEAN] /\ closed \in [Tabs -> BOOLEAN]
  BY DEF IInv, HubInv, TypeOK
<1>2. UNCHANGED <<socket, state, heartbeat, timer, closed>> => TabOK(v)'
  BY <1>1 DEF TabOK
<1> USE DEF tabVars
<1>3. CASE GatewayStarts \/ Consume \/ BusClosed \/ GatewayEnds
  BY <1>2, <1>3 DEF GatewayStarts, Consume, BusClosed, GatewayEnds
<1>4. ASSUME NEW s \in Sockets,
             HandleMessage(s) \/ HandleClose(s) \/ LinkLost(s) \/ OtherConnects(s) \/ OtherLeaves(s)
      PROVE  TabOK(v)'
  BY <1>2, <1>4 DEF HandleMessage, HandleClose, LinkLost, OtherConnects, OtherLeaves
<1>5. ASSUME NEW s, NEW request, OtherSends(s, request) PROVE TabOK(v)'
  BY <1>2, <1>5 DEF OtherSends
<1>6. ASSUME NEW j \in Jobs, Publish(j) PROVE TabOK(v)'
  BY <1>2, <1>6 DEF Publish
<1>7. ASSUME NEW t \in Tabs, Accept(t) \/ Received(t) \/ \E j \in Jobs : Want(t, j)
      PROVE  TabOK(v)'
  BY <1>2, <1>7 DEF Accept, Received, Want
<1>8. ASSUME NEW t \in Tabs, Mount(t) \/ Opened(t) \/ Closed(t) \/ Reconnect(t) \/ Close(t), t # v
      PROVE  TabOK(v)'
  <2>1. /\ socket'[v] = socket[v] /\ state'[v] = state[v] /\ heartbeat'[v] = heartbeat[v]
        /\ timer'[v] = timer[v] /\ closed'[v] = closed[v]
    BY <1>1, <1>8 DEF Mount, Connect, Opened, StartHeartbeat, Closed, Cleanup, Reconnect, Close
  <2>2. QED
    BY <1>1, <2>1 DEF TabOK
<1>9. ASSUME Connect(v), UNCHANGED heartbeat, state[v] = "closed",
             timer' \in [Tabs -> BOOLEAN], ~timer'[v]
      PROVE  TabOK(v)'
  <2>1. PICK n \in 1..MaxSockets : socket' = [socket EXCEPT ![v] = SocketOf(v, n)]
    BY <1>9 DEF Connect
  <2>2. socket'[v] = SocketOf(v, n) /\ socket'[v] # None
    BY <1>1, <2>1, TabSockets, RealtimeAssumption
  <2>3. state'[v] = "connecting" /\ closed'[v] = FALSE /\ heartbeat'[v] = heartbeat[v]
    BY <1>1, <1>9 DEF Connect
  <2>4. QED
    BY <1>1, <1>9, <2>2, <2>3 DEF TabOK
<1>10. CASE Mount(v)
  BY <1>1, <1>9, <1>10 DEF Mount, TabOK
<1>11. CASE Reconnect(v)
  BY <1>1, <1>9, <1>11 DEF Reconnect, TabOK
<1>12. CASE Opened(v)
  <2>1. /\ socket'[v] = socket[v] /\ state'[v] = "open" /\ timer'[v] = timer[v]
        /\ closed'[v] = closed[v] /\ state[v] = "connecting"
        /\ heartbeat'[v] = [known |-> TRUE, running |-> heartbeat[v].running + 1]
    BY <1>1, <1>12 DEF Opened, StartHeartbeat
  <2>2. QED
    BY <1>1, <2>1 DEF TabOK
<1>13. ASSUME Cleanup(v) PROVE ~heartbeat'[v].known /\ heartbeat'[v].running = 0
  BY <1>1, <1>13 DEF Cleanup, TabOK
<1>14. CASE Closed(v)
  <2>1. /\ socket'[v] = socket[v] /\ state'[v] = "closed" /\ timer'[v] = ~closed[v]
        /\ closed'[v] = closed[v] /\ state[v] # "closed"
    BY <1>1, <1>14 DEF Closed
  <2>2. QED
    BY <1>1, <1>13, <1>14, <2>1 DEF Closed, TabOK
<1>15. CASE Close(v)
  <2>1. /\ socket'[v] = socket[v] /\ socket[v] # None /\ ~timer'[v] /\ closed'[v]
        /\ state'[v] = (IF state[v] = "closed" THEN "closed" ELSE "closing")
    BY <1>1, <1>15 DEF Close
  <2>2. QED
    BY <1>1, <1>13, <1>15, <2>1 DEF Close, TabOK
<1>16. CASE UNCHANGED vars
  BY <1>2, <1>16 DEF vars
<1>17. Others \subseteq Sockets
  BY RealtimeAssumption
<1>18. QED
  BY <1>3, <1>4, <1>5, <1>6, <1>7, <1>8, <1>10, <1>11, <1>12, <1>14, <1>15, <1>16, <1>17
  DEF Next, ServeSocket, RunTab

----
(***************************************************************************)
(* Every step preserves the order of the events                            *)
(***************************************************************************)

\* An empty queue has no elements.
LEMMA EmptyQueue == Ordered(<<>>) /\ Range(<<>>) = {}
  BY DEF Ordered, Range

\* The first event of a queue is older than the others, which stay in order.
LEMMA OrderedTail ==
  ASSUME NEW q \in Seq(Event), q # <<>>, Ordered(q)
  PROVE  Ordered(Tail(q)) /\ \A e \in Range(Tail(q)) : Head(q)[2] < e[2]
<1>1. /\ Tail(q) \in Seq(Event) /\ Len(Tail(q)) = Len(q) - 1
      /\ \A i \in 1..Len(Tail(q)) : Tail(q)[i] = q[i + 1]
      /\ Len(q) \in Nat \ {0} /\ DOMAIN q = 1..Len(q)
  BY HeadTailProperties, EmptySeq, LenProperties
<1>2. DOMAIN Tail(q) = 1..Len(Tail(q)) /\ Head(q) = q[1]
  BY <1>1, LenProperties
<1>3. QED
  BY <1>1, <1>2 DEF Ordered, Range

\* A queue that a newer event is appended to stays in order.
LEMMA OrderedAppend ==
  ASSUME NEW q \in Seq(Event), NEW e \in Event, Ordered(q), \A f \in Range(q) : f[2] < e[2]
  PROVE  Ordered(Append(q, e))
<1>1. /\ Append(q, e) \in Seq(Event) /\ Len(Append(q, e)) = Len(q) + 1 /\ Len(q) \in Nat
      /\ Append(q, e)[Len(q) + 1] = e
      /\ \A i \in 1..Len(q) : Append(q, e)[i] = q[i]
      /\ DOMAIN q = 1..Len(q)
  BY LenProperties
<1>2. DOMAIN Append(q, e) = 1..Len(q) + 1
  BY <1>1, LenProperties
<1>3. \A i \in 1..Len(q) : q[i][2] < e[2]
  BY <1>1 DEF Range
<1>4. QED
  BY <1>1, <1>2, <1>3 DEF Ordered

\* Queues may be emptied, and a tab may go on with an empty one.
LEMMA StreamsShrink ==
  ASSUME IInv, UNCHANGED <<published, got>>, bus' \in {bus, <<>>},
         \A s \in Sockets : outbox'[s] \in {outbox[s], <<>>},
         \A s \in Sockets : link'[s] # "up" => outbox'[s] = <<>>,
         \A t \in Tabs, s \in Sockets : s = socket'[t] => s = socket[t] \/ outbox'[s] = <<>>
  PROVE  Streams'
<1>1. Streams /\ TypeOK
  BY DEF IInv, HubInv
<1>2. Ordered(bus') /\ Range(bus') \subseteq Range(bus)
  BY <1>1, EmptyQueue DEF Streams
<1>3. ASSUME NEW s \in Sockets
      PROVE  /\ Ordered(outbox'[s]) /\ Range(outbox'[s]) \subseteq Range(outbox[s])
             /\ outbox'[s] = <<>> => Range(outbox'[s]) = {}
  BY <1>1, EmptyQueue DEF Streams
<1>4. ASSUME NEW s \in Sockets
      PROVE  /\ Ordered(outbox'[s])
             /\ \A e \in Range(outbox'[s]) :
                  e[2] <= published /\ \A f \in Range(bus') : e[2] < f[2]
             /\ link'[s] # "up" => outbox'[s] = <<>>
  BY <1>1, <1>2, <1>3 DEF Streams
<1>5. ASSUME NEW t \in Tabs, NEW j \in Jobs
      PROVE  /\ got[t][j] <= published
             /\ \A e \in Range(bus') : got[t][j] < e[2]
             /\ \A s \in Sockets : s = socket'[t] =>
                  \A e \in Range(outbox'[s]) : e[1] = j => got[t][j] < e[2]
  BY <1>1, <1>2, <1>3 DEF Streams
<1>6. \A e \in Range(bus') : e[2] <= published
  BY <1>1, <1>2 DEF Streams
<1>7. QED
  BY <1>2, <1>4, <1>5, <1>6 DEF Streams

\* Publish numbers its event above all others.
LEMMA PublishStreams ==
  ASSUME IInv, NEW j \in Jobs, Publish(j)
  PROVE  Streams'
<1>1. Streams /\ TypeOK /\ published \in Nat /\ bus \in Seq(Event)
  BY DEF IInv, HubInv, TypeOK
<1> DEFINE event == <<j, published + 1>>
<1>2. event \in Event /\ event[2] = published + 1
  BY <1>1 DEF Event
<1>3. \A e \in Range(bus) : e[2] \in Nat /\ e[2] < published + 1
  BY <1>1, RangeType DEF Streams, Event
<1>4. Ordered(bus') /\ Range(bus') \subseteq Range(bus) \cup {event}
  BY <1>1, <1>2, <1>3, AppendRange, OrderedAppend DEF Publish, Streams
<1>5. published' = published + 1 /\ UNCHANGED <<outbox, link, got, socket>>
  BY DEF Publish, netVars, tabVars
<1> HIDE DEF event
<1>6. ASSUME NEW s \in Sockets
      PROVE  \A e \in Range(outbox[s]) : e[2] \in Nat /\ e[2] <= published
  BY <1>1, RangeType DEF Streams, TypeOK, Event
<1>7. ASSUME NEW s \in Sockets
      PROVE  \A e \in Range(outbox[s]) :
               e[2] <= published' /\ \A f \in Range(bus') : e[2] < f[2]
  BY <1>1, <1>2, <1>4, <1>5, <1>6 DEF Streams
<1>8. ASSUME NEW t \in Tabs, NEW i \in Jobs
      PROVE  /\ got[t][i] <= published'
             /\ \A e \in Range(bus') : got[t][i] < e[2]
  BY <1>1, <1>2, <1>4, <1>5 DEF Streams, TypeOK
<1>9. \A e \in Range(bus') : e[2] <= published'
  BY <1>1, <1>2, <1>3, <1>4, <1>5
<1>10. QED
  BY <1>1, <1>4, <1>5, <1>7, <1>8, <1>9 DEF Streams

\* Consume passes on the oldest event of the bus, newer than all before it.
LEMMA ConsumeStreams ==
  ASSUME IInv, Consume
  PROVE  Streams'
<1>1. Streams /\ TypeOK /\ bus \in Seq(Event) /\ bus # <<>> /\ published \in Nat
  BY DEF IInv, HubInv, TypeOK, Consume
<1> DEFINE event == Head(bus)
<1>2. /\ event \in Event /\ event \in Range(bus)
      /\ Ordered(bus') /\ Range(bus') \subseteq Range(bus)
      /\ \A e \in Range(bus') : event[2] < e[2]
  BY <1>1, TailRange, OrderedTail DEF Consume, Streams
<1>3. \A s \in Sockets :
        \/ outbox'[s] = outbox[s]
        \/ /\ link[s] = "up" /\ outbox'[s] = Append(outbox[s], event)
           /\ Range(outbox'[s]) = Range(outbox[s]) \cup {event}
  BY <1>1, <1>2, BroadcastSockets DEF Consume
<1> HIDE DEF event
<1>4. UNCHANGED <<published, link, got, socket>>
  BY DEF Consume, tabVars
<1>5. /\ event[2] <= published
      /\ \A s \in Sockets : \A e \in Range(outbox[s]) : e[2] < event[2]
      /\ \A t \in Tabs, j \in Jobs : got[t][j] < event[2]
  BY <1>1, <1>2 DEF Streams
<1>6. ASSUME NEW s \in Sockets PROVE Ordered(outbox'[s])
  <2>1. Ordered(outbox[s]) /\ outbox[s] \in Seq(Event)
    BY <1>1 DEF Streams, TypeOK
  <2>2. Ordered(Append(outbox[s], event))
    BY <1>2, <1>5, <2>1, OrderedAppend
  <2>3. QED
    BY <1>3, <2>1, <2>2
<1>7. ASSUME NEW s \in Sockets, NEW e \in Range(outbox'[s])
      PROVE  e[2] <= published /\ \A f \in Range(bus') : e[2] < f[2]
  <2>1. CASE e \in Range(outbox[s])
    BY <1>1, <1>2, <2>1 DEF Streams
  <2>2. CASE e = event
    BY <1>2, <1>5, <2>2
  <2>3. QED
    BY <1>3, <1>7, <2>1, <2>2
<1>8. \A s \in Sockets : link[s] # "up" => outbox'[s] = <<>>
  BY <1>1, <1>3 DEF Streams
<1>9. ASSUME NEW t \in Tabs, NEW j \in Jobs, NEW s \in Sockets, s = socket[t],
             NEW e \in Range(outbox'[s]), e[1] = j
      PROVE  got[t][j] < e[2]
  <2>1. CASE e \in Range(outbox[s])
    BY <1>1, <1>9, <2>1 DEF Streams
  <2>2. CASE e = event
    BY <1>5, <2>2
  <2>3. QED
    BY <1>3, <1>9, <2>1, <2>2
<1>10. \A t \in Tabs, j \in Jobs :
         got[t][j] <= published /\ \A e \in Range(bus') : got[t][j] < e[2]
  BY <1>1, <1>2 DEF Streams
<1>11. \A e \in Range(bus') : e[2] <= published
  BY <1>1, <1>2 DEF Streams
<1>12. QED
  BY <1>2, <1>4, <1>6, <1>7, <1>8, <1>9, <1>10, <1>11 DEF Streams

\* Received takes the oldest event of the socket of its own tab.
LEMMA ReceivedStreams ==
  ASSUME IInv, NEW u \in Tabs, Received(u)
  PROVE  Streams'
<1>1. Streams /\ TypeOK /\ socket[u] \in Sockets
  BY TabSocket DEF IInv, HubInv, TabOK, Received
<1> DEFINE x == socket[u]
           event == Head(outbox[x])
<1>2. outbox[x] \in Seq(Event) /\ outbox[x] # <<>> /\ Ordered(outbox[x])
  BY <1>1 DEF Received, TypeOK, Streams
<1>3. /\ event \in Event /\ event \in Range(outbox[x])
      /\ Range(Tail(outbox[x])) \subseteq Range(outbox[x])
      /\ Ordered(Tail(outbox[x])) /\ \A e \in Range(Tail(outbox[x])) : event[2] < e[2]
  BY <1>2, TailRange, OrderedTail
<1>4. /\ UNCHANGED <<published, bus, link, socket>>
      /\ outbox' = [outbox EXCEPT ![x] = Tail(@)]
      /\ got' = [got EXCEPT ![u][event[1]] = event[2]]
  BY DEF Received
<1>5. link[x] = "up"
  BY <1>1, <1>2 DEF Streams
<1>6. ASSUME NEW s \in Sockets
      PROVE  /\ Ordered(outbox'[s]) /\ Range(outbox'[s]) \subseteq Range(outbox[s])
             /\ s = x => \A e \in Range(outbox'[s]) : event[2] < e[2]
             /\ link[s] # "up" => outbox'[s] = <<>>
  BY <1>1, <1>3, <1>4, <1>5 DEF Streams, TypeOK
<1>7. ASSUME NEW s \in Sockets
      PROVE  \A e \in Range(outbox'[s]) : e[2] <= published /\ \A f \in Range(bus) : e[2] < f[2]
  BY <1>1, <1>6 DEF Streams
<1>8. ASSUME NEW t \in Tabs, NEW j \in Jobs
      PROVE  /\ got'[t][j] <= published
             /\ \A e \in Range(bus) : got'[t][j] < e[2]
             /\ \A s \in Sockets : s = socket[t] =>
                  \A e \in Range(outbox'[s]) : e[1] = j => got'[t][j] < e[2]
  <2>1. got'[t][j] = IF t = u /\ j = event[1] THEN event[2] ELSE got[t][j]
    BY <1>1, <1>4 DEF TypeOK
  <2>2. event[2] <= published /\ \A f \in Range(bus) : event[2] < f[2]
    BY <1>1, <1>3 DEF Streams
  <2>3. CASE t = u /\ j = event[1]
    BY <1>6, <2>1, <2>2, <2>3
  <2>4. CASE ~(t = u /\ j = event[1])
    BY <1>1, <1>6, <2>1, <2>4 DEF Streams
  <2>5. QED
    BY <2>3, <2>4
<1> HIDE DEF x, event
<1>9. QED
  BY <1>1, <1>4, <1>6, <1>7, <1>8 DEF Streams

\* The other steps empty queues, or leave them alone.
LEMMA StreamsStep == IInv /\ [Next]_vars => Streams'
<1> SUFFICES ASSUME IInv, [Next]_vars PROVE Streams'
  OBVIOUS
<1>1. /\ TypeOK /\ Others \subseteq Sockets
      /\ \A s \in Sockets : link[s] # "up" => outbox[s] = <<>>
  BY RealtimeAssumption DEF IInv, HubInv, Streams
<1>2. UNCHANGED <<published, got, bus, outbox, link, socket>> => Streams'
  BY <1>1, StreamsShrink
<1> USE DEF serverVars, netVars, tabVars
<1>3. CASE GatewayStarts
  BY <1>2, <1>3 DEF GatewayStarts
<1>4. CASE BusClosed
  BY <1>1, <1>4, StreamsShrink DEF BusClosed
<1>5. CASE GatewayEnds
  BY <1>1, <1>5, StreamsShrink DEF GatewayEnds
<1>6. ASSUME NEW s \in Sockets, HandleMessage(s) \/ HandleClose(s) PROVE Streams'
  BY <1>2, <1>6 DEF HandleMessage, HandleClose
<1>7. ASSUME NEW s, NEW request, OtherSends(s, request) PROVE Streams'
  BY <1>2, <1>7 DEF OtherSends
<1>8. ASSUME NEW s, Grant(s), UNCHANGED <<published, got, bus, outbox, socket>> PROVE Streams'
  BY <1>1, <1>8, StreamsShrink DEF Grant, TypeOK
<1>9. ASSUME NEW s \in Sockets, Cut(s), UNCHANGED <<published, got, bus, socket>> PROVE Streams'
  <2>1. ASSUME NEW x \in Sockets
        PROVE  outbox'[x] \in {outbox[x], <<>>} /\ (link'[x] # "up" => outbox'[x] = <<>>)
    BY <1>1, <1>9, CutSockets
  <2>2. QED
    BY <1>9, <2>1, StreamsShrink
<1>10. ASSUME NEW t \in Tabs, Connect(t), UNCHANGED <<published, got, bus, outbox, link>>
       PROVE  Streams'
  <2>1. PICK n \in 1..MaxSockets :
          /\ \A k \in 1..MaxSockets : link[SocketOf(t, k)] = "none" <=> k >= n
          /\ socket' = [socket EXCEPT ![t] = SocketOf(t, n)]
    BY <1>10 DEF Connect
  <2>2. outbox[SocketOf(t, n)] = <<>>
    BY <1>1, <2>1, TabSockets
  <2>3. \A u \in Tabs, s \in Sockets : s = socket'[u] => s = socket[u] \/ outbox[s] = <<>>
    BY <1>1, <2>1, <2>2 DEF TypeOK
  <2>4. QED
    BY <1>1, <1>10, <2>3, StreamsShrink
<1>11. ASSUME NEW s \in Sockets, OtherConnects(s) PROVE Streams'
  BY <1>8, <1>11 DEF OtherConnects
<1>12. ASSUME NEW s \in Sockets, LinkLost(s) \/ OtherLeaves(s) PROVE Streams'
  BY <1>9, <1>12 DEF LinkLost, OtherLeaves
<1>13. ASSUME NEW t \in Tabs, Accept(t) PROVE Streams'
  BY <1>8, <1>13 DEF Accept
<1>14. ASSUME NEW t \in Tabs, Mount(t) \/ Reconnect(t) PROVE Streams'
  BY <1>10, <1>14 DEF Mount, Reconnect
<1>15. ASSUME NEW t \in Tabs, Close(t) PROVE Streams'
  BY <1>9, <1>15, TabSocket DEF Close
<1>16. ASSUME NEW t \in Tabs, Opened(t) \/ Closed(t) \/ \E j \in Jobs : Want(t, j) PROVE Streams'
  BY <1>2, <1>16 DEF Opened, Closed, Want
<1>17. CASE UNCHANGED vars
  BY <1>2, <1>17 DEF vars
<1>18. QED
  BY <1>1, <1>3, <1>4, <1>5, <1>6, <1>7, <1>11, <1>12, <1>13, <1>14, <1>15, <1>16, <1>17,
     PublishStreams, ConsumeStreams, ReceivedStreams
  DEF Next, ServeSocket, RunTab

----
(***************************************************************************)
(* Every step keeps to what the tabs asked for                             *)
(***************************************************************************)

\* Requests come from the subscriptions, hub entries from requests, and events
\* from hub entries.
LEMMA AskedStep == IInv /\ [Next]_vars => OnlyAsked'
<1> SUFFICES ASSUME IInv, [Next]_vars, NEW v \in Tabs, NEW n \in 1..MaxSockets,
                    NEW x, x = SocketOf(v, n)
             PROVE  /\ Entry(byClient', x) \subseteq Range(subscriptions'[v])
                    /\ \A r \in Range(inbox'[x]) : r[2] \in Range(subscriptions'[v])
                    /\ \A e \in Range(outbox'[x]) : e[1] \in Range(subscriptions'[v])
  BY DEF OnlyAsked
<1> DEFINE Goal ==
      /\ Entry(byClient', x) \subseteq Range(subscriptions'[v])
      /\ \A r \in Range(inbox'[x]) : r[2] \in Range(subscriptions'[v])
      /\ \A e \in Range(outbox'[x]) : e[1] \in Range(subscriptions'[v])
<1>1. /\ TypeOK /\ HubTypeOK /\ Agree /\ Others \subseteq Sockets /\ x \in Sockets \ Others
      /\ Entry(byClient, x) \subseteq Range(subscriptions[v])
      /\ \A r \in Range(inbox[x]) : r[2] \in Range(subscriptions[v])
      /\ \A e \in Range(outbox[x]) : e[1] \in Range(subscriptions[v])
  <2>1. TypeOK /\ HubTypeOK /\ Agree /\ OnlyAsked
    BY DEF IInv, HubInv, TypeOK, IndexesAgree, Agree
  <2>2. Others \subseteq Sockets /\ x \in Sockets \ Others
    BY TabSockets, RealtimeAssumption
  <2>3. QED
    BY <2>1, <2>2 DEF OnlyAsked
<1>2. ASSUME UNCHANGED <<byClient, subscriptions>>,
             Range(inbox'[x]) \subseteq Range(inbox[x]), Range(outbox'[x]) \subseteq Range(outbox[x])
      PROVE  Goal
  BY <1>1, <1>2
<1>3. UNCHANGED <<byClient, subscriptions, inbox, outbox>> => Goal
  BY <1>2
<1> USE DEF hubVars, serverVars, netVars, tabVars
<1>4. CASE GatewayStarts \/ BusClosed
  BY <1>3, <1>4 DEF GatewayStarts, BusClosed
<1>5. CASE GatewayEnds
  BY <1>1, <1>5, EmptyQueue DEF GatewayEnds, Entry
<1>6. ASSUME NEW j \in Jobs, Publish(j) PROVE Goal
  BY <1>3, <1>6 DEF Publish
<1>7. CASE Consume
  <2>1. Head(bus) \in Event
    BY <1>1, <1>7, TailRange DEF Consume, TypeOK
  <2>2. \/ outbox'[x] = outbox[x]
        \/ /\ x \in Subscribers(Head(bus)[1])
           /\ Range(outbox'[x]) = Range(outbox[x]) \cup {Head(bus)}
    BY <1>1, <1>7, <2>1, BroadcastSockets DEF Consume
  <2>3. x \in Subscribers(Head(bus)[1]) => Head(bus)[1] \in Entry(byClient, x)
    BY <1>1, <2>1 DEF Agree, Subscribers, Event
  <2>4. \A e \in Range(outbox'[x]) : e[1] \in Range(subscriptions[v])
    BY <1>1, <2>2, <2>3
  <2>5. QED
    BY <1>1, <1>7, <2>4 DEF Consume
<1>8. ASSUME NEW s \in Sockets, HandleMessage(s) PROVE Goal
  <2>1. /\ Head(inbox[s]) \in Request /\ Head(inbox[s]) \in Range(inbox[s])
        /\ Range(Tail(inbox[s])) \subseteq Range(inbox[s])
        /\ UNCHANGED <<subscriptions, outbox>>
        /\ inbox' = [inbox EXCEPT ![s] = Tail(@)]
    BY <1>1, <1>8, TailRange DEF HandleMessage, TypeOK
  <2>2. PICK j \in Jobs : j = Head(inbox[s])[2] /\ (Subscribe(s, j) \/ Unsubscribe(s, j))
    BY <1>8, <2>1 DEF HandleMessage, Request
  <2>3. Entry(byClient', x) \subseteq Entry(byClient, x) \cup (IF x = s THEN {j} ELSE {})
    BY <1>1, <2>2, SubscribeAgrees, UnsubscribeAgrees
  <2>4. x = s => j \in Range(subscriptions[v])
    BY <1>1, <2>1, <2>2
  <2>5. Range(inbox'[x]) \subseteq Range(inbox[x])
    BY <1>1, <2>1 DEF TypeOK
  <2>6. QED
    BY <1>1, <2>1, <2>3, <2>4, <2>5
<1>9. ASSUME NEW s \in Sockets, HandleClose(s) PROVE Goal
  <2>1. Entry(byClient', x) \subseteq Entry(byClient, x) /\ UNCHANGED <<subscriptions, inbox, outbox>>
    BY <1>1, <1>9, RemoveAgrees DEF HandleClose
  <2>2. QED
    BY <1>1, <2>1
<1>10. ASSUME NEW s \in Sockets, LinkLost(s) \/ OtherLeaves(s) PROVE Goal
  <2>1. Cut(s) /\ UNCHANGED <<byClient, subscriptions>>
    BY <1>10 DEF LinkLost, OtherLeaves
  <2>2. Range(inbox'[x]) \subseteq Range(inbox[x]) /\ Range(outbox'[x]) \subseteq Range(outbox[x])
    BY <1>1, <2>1, CutSockets, EmptyQueue
  <2>3. QED
    BY <1>2, <2>1, <2>2
<1>11. ASSUME NEW s \in Sockets, OtherConnects(s) PROVE Goal
  BY <1>3, <1>11 DEF OtherConnects
<1>12. ASSUME NEW s \in Others, NEW request, OtherSends(s, request) PROVE Goal
  BY <1>1, <1>2, <1>12 DEF OtherSends, TypeOK
<1>13. ASSUME NEW t \in Tabs, Accept(t) \/ Closed(t) \/ Reconnect(t) \/ Mount(t) PROVE Goal
  BY <1>3, <1>13 DEF Accept, Closed, Reconnect, Mount
<1>14. ASSUME NEW t \in Tabs, socket[t] = x PROVE t = v
  BY <1>14, TabSocket, TabSockets, RealtimeAssumption
<1>15. ASSUME NEW t \in Tabs, Opened(t) PROVE Goal
  <2>1. PICK requests \in Seq(Request) :
          /\ \A r \in Range(requests) : r[2] \in Range(subscriptions[t])
          /\ Send(t, "open", requests)
    BY <1>1, <1>15, Resubscription DEF Opened
  <2>2. \A r \in Range(inbox'[x]) : r \in Range(inbox[x]) \/ (x = socket[t] /\ r \in Range(requests))
    BY <1>1, <1>15, <2>1, SendSockets DEF Opened, IInv, TabOK
  <2>3. \A r \in Range(inbox'[x]) : r[2] \in Range(subscriptions[v])
    BY <1>1, <1>14, <2>1, <2>2
  <2>4. QED
    BY <1>1, <1>15, <2>3 DEF Opened
<1>16. ASSUME NEW t \in Tabs, Received(t) PROVE Goal
  <2>1. socket[t] \in Sockets /\ outbox' = [outbox EXCEPT ![socket[t]] = Tail(@)]
        /\ outbox[socket[t]] # <<>> /\ UNCHANGED <<byClient, inbox, subscriptions>>
    BY <1>16, TabSocket DEF Received, IInv, TabOK
  <2>2. Range(Tail(outbox[socket[t]])) \subseteq Range(outbox[socket[t]])
    BY <1>1, <2>1, TailRange DEF TypeOK
  <2>3. Range(outbox'[x]) \subseteq Range(outbox[x])
    BY <1>1, <2>1, <2>2 DEF TypeOK
  <2>4. QED
    BY <1>2, <2>1, <2>3
<1>17. ASSUME NEW t \in Tabs, NEW j \in Jobs, Want(t, j) PROVE Goal
  <2>1. /\ Range(subscriptions[v]) \subseteq Range(subscriptions'[v])
        /\ t = v => j \in Range(subscriptions'[v])
    BY <1>1, <1>17, WantRange
  <2> DEFINE requests == <<<<"subscribe", j>>>>
  <2>2. requests \in Seq(Request) /\ \A r \in Range(requests) : r[2] = j
    BY DEF Request, Range
  <2>3. \A r \in Range(inbox'[x]) : r \in Range(inbox[x]) \/ (x = socket[t] /\ r \in Range(requests))
    BY <1>1, <1>17, <2>2, SendSockets DEF Want
  <2>4. \A r \in Range(inbox'[x]) : r[2] \in Range(subscriptions'[v])
    BY <1>1, <1>14, <2>1, <2>2, <2>3
  <2>5. QED
    BY <1>1, <1>17, <2>1, <2>4 DEF Want
<1>18. ASSUME NEW t \in Tabs, Close(t) PROVE Goal
  <2>1. socket[t] \in Sockets /\ Cut(socket[t]) /\ UNCHANGED <<byClient, subscriptions>>
    BY <1>18, TabSocket DEF Close
  <2>2. Range(inbox'[x]) \subseteq Range(inbox[x]) /\ Range(outbox'[x]) \subseteq Range(outbox[x])
    BY <1>1, <2>1, CutSockets, EmptyQueue
  <2>3. QED
    BY <1>2, <2>1, <2>2
<1>19. CASE UNCHANGED vars
  BY <1>3, <1>19 DEF vars
<1>20. QED
  BY <1>1, <1>4, <1>5, <1>6, <1>7, <1>8, <1>9, <1>10, <1>11, <1>12, <1>13, <1>15,
     <1>16, <1>17, <1>18, <1>19
  DEF Next, ServeSocket, RunTab

----
(***************************************************************************)
(* The theorems                                                            *)
(***************************************************************************)

\* The initial states satisfy the invariant.
LEMMA InvInit == Init => IInv
<1> SUFFICES ASSUME Init PROVE IInv
  OBVIOUS
<1>1. HubTypeOK /\ IndexesAgree
  BY DEF Init, HubInit, HubTypeOK, IsIndex, IndexesAgree, Entry
<1>2. {consuming, up} \subseteq BOOLEAN
  BY Zenon DEF Init
<1>3. TypeOK
  BY <1>1, <1>2 DEF Init, TypeOK, ReadyState, LinkState
<1>4. ASSUME NEW t \in Tabs PROVE TabOK(t)
  BY DEF Init, TabOK
<1>5. Streams
  BY EmptyQueue DEF Init, Streams
<1>6. OnlyAsked
  BY EmptyQueue, TabSockets DEF Init, HubInit, OnlyAsked, Entry
<1>7. QED
  BY <1>1, <1>3, <1>4, <1>5, <1>6 DEF IInv, HubInv

\* Every step preserves it.
LEMMA InvStep == IInv /\ [Next]_vars => IInv'
  BY HubStep, TypeStep, TabStep, StreamsStep, AskedStep DEF IInv, HubInv

\* The inductive invariant holds in every state of every instance.
THEOREM Invariance == Spec => []IInv
  BY InvInit, InvStep, PTL DEF Spec

\* The hub's two indexes are one relation, without leaks: whatever the order
\* of subscribe, unsubscribe, disconnect and restart.
THEOREM HubIsConsistent == Spec => []HubInv
<1>1. IInv => HubInv
  BY DEF IInv
<1>2. QED
  BY <1>1, Invariance, PTL

\* One heartbeat at most, on an open socket; no timer that could revive a
\* closed client.
THEOREM TimersAreKept == Spec => []NoStrayTimers
<1>1. IInv => NoStrayTimers
  BY DEF IInv, HubInv, TypeOK, TabOK, NoStrayTimers
<1>2. QED
  BY <1>1, Invariance, PTL

\* Events reach a tab in order, once, and only those it asked for.
THEOREM EventsArriveInOrder == Spec => EventsInOrder
<1> DEFINE InOrder ==
      \A t \in Tabs, j \in Jobs :
        got'[t][j] # got[t][j] =>
          got'[t][j] > got[t][j] /\ j \in Range(subscriptions[t]) /\ ~closed[t]
<1>1. IInv /\ [Next]_vars => [InOrder]_vars
  <2> SUFFICES ASSUME IInv, [Next]_vars, NEW t \in Tabs, NEW j \in Jobs,
                      got'[t][j] # got[t][j]
               PROVE  got'[t][j] > got[t][j] /\ j \in Range(subscriptions[t]) /\ ~closed[t]
    OBVIOUS
  <2>1. \E u \in Tabs : Received(u)
    <3> USE DEF tabVars
    <3> QED
      BY DEF Next, vars, ServeSocket, RunTab, GatewayStarts, Consume, HandleMessage,
             HandleClose, Accept, Opened, Closed, Reconnect, BusClosed, GatewayEnds, Publish,
             LinkLost, Mount, Close, Want, OtherConnects, OtherLeaves, OtherSends
  <2>2. PICK u \in Tabs : Received(u)
    BY <2>1
  <2> DEFINE event == Head(outbox[socket[u]])
  <2>3. /\ socket[u] \in Sockets /\ \E n \in 1..MaxSockets : socket[u] = SocketOf(u, n)
        /\ outbox[socket[u]] # <<>> /\ outbox[socket[u]] \in Seq(Event)
        /\ state[u] = "open"
    BY <2>2, TabSocket DEF Received, IInv, TabOK, HubInv, TypeOK
  <2>4. event \in Event /\ event \in Range(outbox[socket[u]])
    BY <2>3, TailRange
  <2>5. t = u /\ j = event[1] /\ got'[t][j] = event[2]
    BY <2>2, <2>4 DEF Received, IInv, HubInv, TypeOK
  <2>6. got[t][j] < event[2]
    BY <2>3, <2>4, <2>5 DEF IInv, Streams
  <2>7. event[1] \in Range(subscriptions[t])
    BY <2>3, <2>4, <2>5 DEF IInv, OnlyAsked
  <2>8. ~closed[t]
    BY <2>3, <2>5 DEF IInv, TabOK
  <2>9. QED
    BY <2>4, <2>5, <2>6, <2>7, <2>8 DEF Event, IInv, HubInv, TypeOK
<1>2. QED
  BY <1>1, Invariance, PTL DEF Spec, EventsInOrder

----
(***************************************************************************)
(* Subscriptions that are not lost                                         *)
(***************************************************************************)

\* Taking the first element of a queue loses no other.
LEMMA TailKeeps ==
  ASSUME NEW S, NEW q \in Seq(S), q # <<>>, NEW e \in Range(q), e # Head(q)
  PROVE  e \in Range(Tail(q))
<1>1. /\ Len(Tail(q)) = Len(q) - 1 /\ Tail(q) \in Seq(S)
      /\ \A i \in 1..Len(Tail(q)) : Tail(q)[i] = q[i + 1]
      /\ Len(q) \in Nat \ {0} /\ DOMAIN q = 1..Len(q)
  BY HeadTailProperties, EmptySeq, LenProperties
<1>2. DOMAIN Tail(q) = 1..Len(q) - 1
  BY <1>1, LenProperties
<1>3. PICK i \in 1..Len(q) : e = q[i]
  BY <1>1 DEF Range
<1>4. i # 1
  BY <1>3
<1>5. i - 1 \in 1..Len(q) - 1 /\ Tail(q)[i - 1] = q[i]
  BY <1>1, <1>3, <1>4
<1>6. QED
  BY <1>2, <1>3, <1>5 DEF Range

\* Nor does putting a queue behind another.
LEMMA ConcatKeeps ==
  ASSUME NEW S, NEW q \in Seq(S), NEW r \in Seq(S)
  PROVE  Range(q) \subseteq Range(q \o r) /\ Range(r) \subseteq Range(q \o r)
<1>1. /\ Len(q) \in Nat /\ Len(r) \in Nat /\ DOMAIN q = 1..Len(q) /\ DOMAIN r = 1..Len(r)
  BY LenProperties
<1>2. /\ q \o r \in Seq(S) /\ Len(q \o r) = Len(q) + Len(r)
      /\ \A i \in 1..Len(q) + Len(r) : (q \o r)[i] = IF i <= Len(q) THEN q[i] ELSE r[i - Len(q)]
  BY ConcatProperties
<1>3. DOMAIN (q \o r) = 1..Len(q) + Len(r)
  BY <1>2, LenProperties
<1>4. ASSUME NEW i \in 1..Len(q) PROVE q[i] \in Range(q \o r)
  <2>1. i \in 1..Len(q) + Len(r) /\ (q \o r)[i] = q[i]
    BY <1>1, <1>2
  <2>2. QED
    BY <1>3, <2>1 DEF Range
<1>5. ASSUME NEW i \in 1..Len(r) PROVE r[i] \in Range(q \o r)
  <2>1. Len(q) + i \in 1..Len(q) + Len(r) /\ ~(Len(q) + i <= Len(q)) /\ (Len(q) + i) - Len(q) = i
    BY <1>1
  <2>2. (q \o r)[Len(q) + i] = r[i]
    BY <1>2, <2>1
  <2>3. QED
    BY <1>3, <2>1, <2>2 DEF Range
<1>6. QED
  BY <1>1, <1>4, <1>5 DEF Range

\* The requests of a tab that connects leave no job out.
LEMMA ResubscribesAll ==
  ASSUME TypeOK, NEW t \in Tabs, NEW j \in Range(subscriptions[t])
  PROVE  <<"subscribe", j>> \in
           Range([i \in DOMAIN subscriptions[t] |-> <<"subscribe", subscriptions[t][i]>>])
<1>1. PICK i \in DOMAIN subscriptions[t] : j = subscriptions[t][i]
  BY DEF Range
<1>2. QED
  BY <1>1 DEF Range

\* Sending takes nothing out of an inbox, and reaches that of a connection
\* that holds.
LEMMA SendKeeps ==
  ASSUME IInv, NEW t \in Tabs, socket[t] # None, NEW readyState,
         NEW requests \in Seq(Request), Send(t, readyState, requests)
  PROVE  /\ \A x \in Sockets : Range(inbox[x]) \subseteq Range(inbox'[x])
         /\ readyState = "open" /\ link[socket[t]] = "up" =>
              Range(requests) \subseteq Range(inbox'[socket[t]])
<1>1. socket[t] \in Sockets /\ inbox \in [Sockets -> Seq(Request)]
  BY TabSocket DEF IInv, HubInv, TypeOK
<1>2. /\ Range(inbox[socket[t]]) \subseteq Range(inbox[socket[t]] \o requests)
      /\ Range(requests) \subseteq Range(inbox[socket[t]] \o requests)
  BY <1>1, ConcatKeeps
<1>3. QED
  BY <1>1, <1>2 DEF Send

\* The operations of the hub for one client leave the entries of the others
\* alone.
LEMMA OthersKeep ==
  ASSUME HubTypeOK, NEW s, NEW x, x # s,
         Remove(s) \/ \E j : Subscribe(s, j) \/ Unsubscribe(s, j)
  PROVE  Entry(byClient', x) = Entry(byClient, x)
<1>1. ASSUME NEW j, Subscribe(s, j) PROVE Entry(byClient', x) = Entry(byClient, x)
  BY <1>1 DEF Subscribe, Put, Entry
<1>2. ASSUME NEW j, Unsubscribe(s, j) PROVE Entry(byClient', x) = Entry(byClient, x)
  BY <1>2 DEF Unsubscribe, Entry
<1>3. CASE Remove(s)
  BY <1>3 DEF Remove, Entry
<1>4. QED
  BY <1>1, <1>2, <1>3

\* The tabs never unsubscribe.
OnlySubscribe ==
  \A t \in Tabs, n \in 1..MaxSockets :
    \A r \in Range(inbox[SocketOf(t, n)]) : r[1] = "subscribe"

\* Every step keeps to that.
LEMMA OnlySubscribeStep == IInv /\ OnlySubscribe /\ [Next]_vars => OnlySubscribe'
<1> SUFFICES ASSUME IInv, OnlySubscribe, [Next]_vars, NEW v \in Tabs, NEW n \in 1..MaxSockets,
                    NEW x, x = SocketOf(v, n)
             PROVE  \A r \in Range(inbox'[x]) : r[1] = "subscribe"
  BY DEF OnlySubscribe
<1> DEFINE Goal == \A r \in Range(inbox'[x]) : r[1] = "subscribe"
<1>1. /\ TypeOK /\ Others \subseteq Sockets /\ x \in Sockets \ Others
      /\ inbox \in [Sockets -> Seq(Request)]
      /\ \A r \in Range(inbox[x]) : r[1] = "subscribe"
  <2>1. TypeOK /\ inbox \in [Sockets -> Seq(Request)]
    BY DEF IInv, HubInv, TypeOK
  <2>2. Others \subseteq Sockets /\ x \in Sockets \ Others
    BY TabSockets, RealtimeAssumption
  <2>3. QED
    BY <2>1, <2>2 DEF OnlySubscribe
<1>2. ASSUME Range(inbox'[x]) \subseteq Range(inbox[x]) PROVE Goal
  BY <1>1, <1>2
<1>3. ASSUME UNCHANGED inbox PROVE Goal
  BY <1>2, <1>3
<1> USE DEF netVars
<1>4. CASE GatewayStarts \/ BusClosed \/ Consume \/ \E j \in Jobs : Publish(j)
  BY <1>3, <1>4 DEF GatewayStarts, BusClosed, Consume, Publish
<1>5. CASE GatewayEnds
  BY <1>1, <1>5, EmptyQueue DEF GatewayEnds
<1>6. ASSUME NEW s \in Sockets, HandleMessage(s) PROVE Goal
  <2>1. /\ Range(Tail(inbox[s])) \subseteq Range(inbox[s])
        /\ inbox' = [inbox EXCEPT ![s] = Tail(@)]
    BY <1>1, <1>6, TailRange DEF HandleMessage
  <2>2. QED
    BY <1>1, <1>2, <2>1
<1>7. ASSUME NEW s \in Sockets, HandleClose(s) \/ OtherConnects(s) PROVE Goal
  BY <1>3, <1>7 DEF HandleClose, OtherConnects
<1>8. ASSUME NEW s \in Sockets, Cut(s) PROVE Goal
  BY <1>1, <1>2, <1>8, CutSockets
<1>9. ASSUME NEW s \in Sockets, LinkLost(s) \/ OtherLeaves(s) PROVE Goal
  BY <1>8, <1>9 DEF LinkLost, OtherLeaves
<1>10. ASSUME NEW s \in Others, NEW request, OtherSends(s, request) PROVE Goal
  BY <1>1, <1>2, <1>10 DEF OtherSends
<1>11. ASSUME NEW t \in Tabs, Accept(t) \/ Received(t) \/ Closed(t) \/ Reconnect(t) \/ Mount(t)
       PROVE  Goal
  BY <1>3, <1>11 DEF Accept, Received, Closed, Reconnect, Mount
<1>12. ASSUME NEW t \in Tabs, Close(t) PROVE Goal
  BY <1>8, <1>12, TabSocket DEF Close
<1>13. ASSUME NEW t \in Tabs, socket[t] # None, NEW readyState, NEW requests \in Seq(Request),
              Send(t, readyState, requests), \A r \in Range(requests) : r[1] = "subscribe"
       PROVE  Goal
  <2>1. \A r \in Range(inbox'[x]) : r \in Range(inbox[x]) \/ r \in Range(requests)
    BY <1>1, <1>13, SendSockets
  <2>2. QED
    BY <1>1, <1>13, <2>1
<1>14. ASSUME NEW t \in Tabs, Opened(t) PROVE Goal
  <2> DEFINE requests == [i \in DOMAIN subscriptions[t] |-> <<"subscribe", subscriptions[t][i]>>]
  <2>1. requests \in Seq(Request) /\ Send(t, "open", requests) /\ socket[t] # None
    BY <1>1, <1>14, Resubscription DEF Opened, IInv, TabOK
  <2>2. \A r \in Range(requests) : r[1] = "subscribe"
    <3>1. \A i \in DOMAIN requests : requests[i][1] = "subscribe"
      OBVIOUS
    <3> HIDE DEF requests
    <3>2. QED
      BY <3>1 DEF Range
  <2> HIDE DEF requests
  <2>3. QED
    BY <1>13, <2>1, <2>2
<1>15. ASSUME NEW t \in Tabs, NEW j \in Jobs, Want(t, j) PROVE Goal
  <2> DEFINE requests == <<<<"subscribe", j>>>>
  <2>1. requests \in Seq(Request) /\ \A r \in Range(requests) : r[1] = "subscribe"
    BY DEF Request, Range
  <2>2. socket[t] # None /\ Send(t, state[t], requests)
    BY <1>15 DEF Want
  <2> HIDE DEF requests
  <2>3. QED
    BY <1>13, <2>1, <2>2
<1>16. CASE UNCHANGED vars
  BY <1>3, <1>16 DEF vars
<1>17. QED
  BY <1>1, <1>4, <1>5, <1>6, <1>7, <1>9, <1>10, <1>11, <1>12, <1>14, <1>15, <1>16
  DEF Next, ServeSocket, RunTab

\* No step loses what a tab with a connection has asked for.
LEMMA KeptStep == IInv /\ IInv' /\ OnlySubscribe /\ SubscriptionsKept /\ [Next]_vars => SubscriptionsKept'
<1> SUFFICES ASSUME IInv, IInv', OnlySubscribe, SubscriptionsKept, [Next]_vars, NEW v \in Tabs,
                    NEW x, x = socket'[v], state'[v] = "open", link'[x] = "up",
                    NEW j \in Range(subscriptions'[v])
             PROVE  x \in Subscribers(j)' \/ <<"subscribe", j>> \in Range(inbox'[x])
  BY DEF SubscriptionsKept
<1> DEFINE Goal == j \in Entry(byClient', x) \/ <<"subscribe", j>> \in Range(inbox'[x])
<1>1. /\ TypeOK /\ HubTypeOK /\ Agree /\ Others \subseteq Sockets
      /\ inbox \in [Sockets -> Seq(Request)] /\ link \in [Sockets -> LinkState]
      /\ state \in [Tabs -> ReadyState] /\ socket \in [Tabs -> Sockets \cup {None}]
  <2>1. TypeOK /\ HubTypeOK /\ IndexesAgree
    BY DEF IInv, HubInv, TypeOK
  <2>2. Agree
    BY <2>1 DEF IndexesAgree, Agree
  <2>3. /\ inbox \in [Sockets -> Seq(Request)] /\ link \in [Sockets -> LinkState]
        /\ state \in [Tabs -> ReadyState] /\ socket \in [Tabs -> Sockets \cup {None}]
    BY <2>1 DEF TypeOK
  <2>4. QED
    BY <2>1, <2>2, <2>3, RealtimeAssumption
<1>2. PICK n \in 1..MaxSockets : x = SocketOf(v, n)
  BY DEF IInv, TabOK
<1>3. x \in Sockets \ Others
  BY <1>2, TabSockets
<1>4. ASSUME Goal PROVE x \in Subscribers(j)' \/ <<"subscribe", j>> \in Range(inbox'[x])
  <2>1. j \in Jobs
    BY RangeType DEF IInv, HubInv, TypeOK
  <2>2. Agree'
    BY DEF IInv, HubInv, IndexesAgree, Agree
  <2>3. QED
    BY <1>3, <1>4, <2>1, <2>2 DEF Agree, Subscribers
<1>5. ASSUME x = socket[v], state[v] = "open", link[x] = "up", j \in Range(subscriptions[v])
      PROVE  j \in Entry(byClient, x) \/ <<"subscribe", j>> \in Range(inbox[x])
  <2>1. j \in Jobs
    BY <1>5, RangeType DEF IInv, HubInv, TypeOK
  <2>2. QED
    BY <1>1, <1>3, <1>5, <2>1 DEF SubscriptionsKept, Agree, Subscribers
<1>6. ASSUME x = socket[v], state[v] = "open", link[x] = "up", j \in Range(subscriptions[v]),
             Entry(byClient, x) \subseteq Entry(byClient', x), Range(inbox[x]) \subseteq Range(inbox'[x])
      PROVE  Goal
  BY <1>5, <1>6
<1>7. ASSUME UNCHANGED <<socket, state, link, subscriptions, byClient, inbox>> PROVE Goal
  BY <1>6, <1>7
<1> USE DEF hubVars, serverVars, netVars, tabVars
<1>8. ASSUME GatewayStarts \/ BusClosed \/ Consume \/ (\E i \in Jobs : Publish(i)) \/ UNCHANGED vars
      PROVE  Goal
  <2>1. CASE GatewayStarts \/ BusClosed \/ Consume
    BY <1>7, <2>1 DEF GatewayStarts, BusClosed, Consume
  <2>2. CASE (\E i \in Jobs : Publish(i)) \/ UNCHANGED vars
    BY <1>7, <2>2 DEF Publish, vars
  <2>3. QED
    BY <1>8, <2>1, <2>2
<1>9. ~GatewayEnds
  BY <1>1, <1>3 DEF GatewayEnds
<1>10. ASSUME NEW s \in Sockets, HandleMessage(s) PROVE Goal
  <2> DEFINE r == Head(inbox[s])
  <2>1. /\ UNCHANGED <<socket, state, link, subscriptions>>
        /\ inbox' = [inbox EXCEPT ![s] = Tail(@)] /\ inbox[s] # <<>>
        /\ (r[1] = "subscribe" /\ Subscribe(s, r[2])) \/ (r[1] = "unsubscribe" /\ Unsubscribe(s, r[2]))
    BY <1>10 DEF HandleMessage
  <2>2. CASE s # x
    <3>1. Entry(byClient', x) = Entry(byClient, x)
      BY <1>1, <2>1, <2>2, OthersKeep
    <3>2. inbox'[x] = inbox[x]
      BY <1>1, <1>3, <2>1, <2>2
    <3>3. QED
      BY <1>6, <2>1, <3>1, <3>2
  <2>3. CASE s = x
    <3>1. r \in Range(inbox[x]) /\ r \in Request
      BY <1>1, <1>3, <2>1, <2>3, TailRange
    <3>2. r[1] = "subscribe"
      BY <1>2, <3>1 DEF OnlySubscribe
    <3>3. Subscribe(x, r[2]) /\ r[2] \in Jobs /\ r = <<"subscribe", r[2]>>
      <4>1. "subscribe" # "unsubscribe"
        OBVIOUS
      <4>2. r[2] \in Jobs /\ r = <<r[1], r[2]>>
        BY <3>1 DEF Request
      <4>3. QED
        BY <2>1, <2>3, <3>2, <4>1, <4>2
    <3>4. Entry(byClient', x) = Entry(byClient, x) \cup {r[2]}
      BY <1>1, <1>3, <3>3, SubscribeAgrees
    <3>5. CASE <<"subscribe", j>> = r
      <4>1. j = r[2]
        BY <3>3, <3>5
      <4>2. QED
        BY <3>4, <4>1
    <3>6. CASE <<"subscribe", j>> # r
      <4>1. CASE <<"subscribe", j>> \in Range(inbox[x])
        <5>1. <<"subscribe", j>> \in Range(Tail(inbox[x]))
          <6>1. inbox[x] \in Seq(Request) /\ inbox[x] # <<>>
            BY <1>1, <1>3, <2>1, <2>3
          <6>2. QED
            BY <2>3, <3>6, <4>1, <6>1, TailKeeps
        <5>2. inbox'[x] = Tail(inbox[x])
          BY <1>1, <1>3, <2>1, <2>3
        <5>3. QED
          BY <5>1, <5>2
      <4>2. CASE j \in Entry(byClient, x)
        BY <3>4, <4>2
      <4>3. QED
        BY <1>5, <2>1, <4>1, <4>2
    <3>7. QED
      BY <3>5, <3>6
  <2>4. QED
    BY <2>2, <2>3
<1>11. ASSUME NEW s \in Sockets, HandleClose(s) PROVE Goal
  <2>1. s # x /\ Remove(s) /\ UNCHANGED <<socket, state, link, subscriptions, inbox>>
    BY <1>11 DEF HandleClose
  <2>2. Entry(byClient', x) = Entry(byClient, x)
    BY <1>1, <2>1, OthersKeep
  <2>3. QED
    BY <1>6, <2>1, <2>2
<1>12. ASSUME NEW s \in Sockets, Cut(s),
              x = socket[v], state[v] = "open", UNCHANGED <<subscriptions, byClient>>
       PROVE  Goal
  <2>1. s # x
    BY <1>1, <1>3, <1>12 DEF Cut
  <2>2. inbox'[x] = inbox[x] /\ link'[x] = link[x]
    BY <1>1, <1>3, <1>12, <2>1 DEF Cut
  <2>3. QED
    BY <1>6, <1>12, <2>2
<1>13. ASSUME NEW s \in Sockets, LinkLost(s) \/ OtherLeaves(s) PROVE Goal
  BY <1>12, <1>13 DEF LinkLost, OtherLeaves
<1>14. ASSUME NEW s \in Sockets, s # x, Grant(s), UNCHANGED <<hubVars, inbox, tabVars>> PROVE Goal
  <2>1. link'[x] = link[x]
    BY <1>1, <1>3, <1>14 DEF Grant
  <2>2. QED
    BY <1>6, <1>14, <2>1
<1>15. ASSUME NEW s \in Others, OtherConnects(s) PROVE Goal
  BY <1>1, <1>3, <1>14, <1>15 DEF OtherConnects
<1>16. ASSUME NEW s \in Others, NEW request, OtherSends(s, request) PROVE Goal
  <2>1. inbox'[x] = inbox[x]
    BY <1>1, <1>3, <1>16 DEF OtherSends
  <2>2. QED
    BY <1>6, <1>16, <2>1 DEF OtherSends
<1>17. ASSUME NEW t \in Tabs, t # v, socket[t] # None PROVE socket[t] \in Sockets /\ socket[t] # x
  BY <1>2, <1>17, TabSocket, TabSockets
<1>18. ASSUME NEW t \in Tabs, Accept(t) PROVE Goal
  <2>1. t # v /\ socket[t] # None
    BY <1>1, <1>18 DEF Accept, IInv, TabOK
  <2>2. QED
    BY <1>14, <1>17, <1>18, <2>1 DEF Accept
<1>19. ASSUME NEW t \in Tabs, Received(t) PROVE Goal
  BY <1>7, <1>19 DEF Received
<1>20. ASSUME NEW t \in Tabs, Closed(t) PROVE Goal
  <2>1. t # v /\ state' = [state EXCEPT ![t] = "closed"]
        /\ UNCHANGED <<socket, link, subscriptions, byClient, inbox>>
    BY <1>1, <1>20 DEF Closed
  <2>2. state'[v] = state[v]
    BY <1>1, <2>1
  <2>3. QED
    BY <1>6, <2>1, <2>2
<1>21. ASSUME NEW t \in Tabs, Reconnect(t) \/ Mount(t) PROVE Goal
  <2>1. Connect(t) /\ UNCHANGED <<link, subscriptions, byClient, inbox>>
    BY <1>21 DEF Reconnect, Mount
  <2>2. t # v
    BY <1>1, <2>1 DEF Connect
  <2>3. state'[v] = state[v] /\ socket'[v] = socket[v]
    BY <1>1, <2>1, <2>2 DEF Connect
  <2>4. QED
    BY <1>6, <2>1, <2>3
<1>22. ASSUME NEW t \in Tabs, Close(t) PROVE Goal
  <2>1. /\ Cut(socket[t]) /\ UNCHANGED <<socket, subscriptions, byClient>> /\ socket[t] # None
        /\ state' = [state EXCEPT ![t] = IF @ = "closed" THEN @ ELSE "closing"]
    BY <1>22 DEF Close
  <2>2. t # v
    BY <1>1, <2>1
  <2>3. state'[v] = state[v] /\ socket[t] \in Sockets
    BY <1>1, <1>17, <2>1, <2>2
  <2>4. QED
    BY <1>12, <2>1, <2>3
<1>23. ASSUME NEW t \in Tabs, Opened(t) PROVE Goal
  <2> DEFINE requests == [i \in DOMAIN subscriptions[t] |-> <<"subscribe", subscriptions[t][i]>>]
  <2>1. requests \in Seq(Request) /\ Send(t, "open", requests) /\ socket[t] # None
    BY <1>1, <1>23, Resubscription DEF Opened, IInv, TabOK
  <2>2. /\ link[socket[t]] = "up" /\ UNCHANGED <<socket, link, subscriptions, byClient>>
        /\ state' = [state EXCEPT ![t] = "open"]
    BY <1>23 DEF Opened
  <2>3. ASSUME NEW i \in Range(subscriptions[t]) PROVE <<"subscribe", i>> \in Range(requests)
    BY <1>1, ResubscribesAll
  <2> HIDE DEF requests
  <2>4. /\ Range(inbox[x]) \subseteq Range(inbox'[x])
        /\ Range(requests) \subseteq Range(inbox'[socket[t]])
    BY <1>3, <2>1, <2>2, SendKeeps
  <2>5. CASE t = v
    <3>1. <<"subscribe", j>> \in Range(requests)
      BY <2>2, <2>3, <2>5
    <3>2. QED
      BY <2>2, <2>4, <2>5, <3>1
  <2>6. CASE t # v
    <3>1. state'[v] = state[v]
      BY <1>1, <2>2, <2>6
    <3>2. QED
      BY <1>6, <2>2, <2>4, <3>1
  <2>7. QED
    BY <2>5, <2>6
<1>24. ASSUME NEW t \in Tabs, NEW i \in Jobs, Want(t, i) PROVE Goal
  <2> DEFINE requests == <<<<"subscribe", i>>>>
  <2>1. requests \in Seq(Request) /\ <<"subscribe", i>> \in Range(requests)
    <3>1. <<"subscribe", i>> \in Request
      BY DEF Request
    <3>2. requests[1] = <<"subscribe", i>> /\ 1 \in DOMAIN requests
      OBVIOUS
    <3>3. QED
      BY <3>1, <3>2 DEF Range
  <2>2. /\ socket[t] # None /\ Send(t, state[t], requests)
        /\ UNCHANGED <<socket, state, link, byClient>>
    BY <1>24 DEF Want
  <2> HIDE DEF requests
  <2>3. /\ Range(inbox[x]) \subseteq Range(inbox'[x])
        /\ state[t] = "open" /\ link[socket[t]] = "up" =>
             Range(requests) \subseteq Range(inbox'[socket[t]])
    BY <1>3, <2>1, <2>2, SendKeeps
  <2>4. CASE t = v /\ j = i
    BY <2>1, <2>2, <2>3, <2>4
  <2>5. CASE ~(t = v /\ j = i)
    <3>1. j \in Range(subscriptions[v])
      BY <1>1, <1>24, <2>5, WantRange
    <3>2. QED
      BY <1>6, <2>2, <2>3, <3>1
  <2>6. QED
    BY <2>4, <2>5
<1>25. QED
  BY <1>1, <1>4, <1>8, <1>9, <1>10, <1>11, <1>13, <1>15, <1>16, <1>18, <1>19, <1>20, <1>21,
     <1>22, <1>23, <1>24
  DEF Next, ServeSocket, RunTab

\* Whatever a tab asked for is subscribed, or the request is on its way, on
\* every connection that holds.
THEOREM NothingAskedIsLost == Spec => []SubscriptionsKept
<1>1. Init => OnlySubscribe /\ SubscriptionsKept
  BY EmptyQueue, TabSockets DEF Init, OnlySubscribe, SubscriptionsKept
<1>2. IInv /\ IInv' /\ (OnlySubscribe /\ SubscriptionsKept) /\ [Next]_vars =>
        (OnlySubscribe /\ SubscriptionsKept)'
  BY OnlySubscribeStep, KeptStep
<1>3. QED
  BY <1>1, <1>2, Invariance, PTL DEF Spec

====
