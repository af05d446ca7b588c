---- MODULE Realtime ----
(***************************************************************************)
(* Job events from the workers to the screens: the queue of the realtime   *)
(* gateway on media.events (realtime-gateway/src/broker/consumer.ts), the  *)
(* hub and the WebSocket server around it (ws/hub.ts, server.ts), and the  *)
(* client that every browser tab keeps (web/src/ws.ts), which reconnects   *)
(* and subscribes again.  Other programs hold sockets too; they may        *)
(* unsubscribe, which the tabs never do.                                   *)
(*                                                                         *)
(* Events are numbered in the order they are published.                    *)
(***************************************************************************)
EXTENDS Hub, Functions

CONSTANTS
  Tabs,        \* browser tabs
  Others,      \* sockets of other programs, one each
  OthersAsk,   \* jobs that they ask about
  None,        \* no socket
  MaxSockets,  \* bound on the connections that a tab is granted
  MaxRequests, \* bound on the requests waiting in an inbox
  MaxEvents,   \* bound on the events
  MaxFaults    \* bound on the number of disturbances

SocketOf(t, n) == <<t, n>>

ASSUME RealtimeAssumption ==
  /\ Sockets = Others \cup {SocketOf(t, n) : t \in Tabs, n \in 1..MaxSockets}
  /\ \A t \in Tabs, n \in 1..MaxSockets : SocketOf(t, n) \notin Others
  /\ None \notin Sockets
  /\ OthersAsk \subseteq Jobs
  /\ {MaxSockets, MaxRequests, MaxEvents, MaxFaults} \subseteq Nat

VARIABLES
  published,     \* events published so far
  bus,           \* events in the queue of the gateway
  consuming,     \* the gateway has its queue
  up,            \* the gateway runs
  accepted,      \* sockets open on the server's side
  link,          \* state of each connection
  inbox, outbox, \* per socket: messages to the server, events to the client
  socket,        \* the tab's socket, None before the first
  state,         \* readyState of its socket
  subscriptions, \* jobs it wants to hear of, in the order they came
  heartbeat,     \* the interval it knows of, if any, and those that run
  timer,         \* its reconnect timer runs
  closed,        \* closedByUser
  got,           \* number of the last event it received, per job
  faults         \* disturbances so far

serverVars == <<consuming, up, accepted>>
netVars == <<link, inbox, outbox>>
tabVars == <<socket, state, subscriptions, heartbeat, timer, closed, got>>
vars == <<hubVars, published, bus, serverVars, netVars, tabVars, faults>>

ReadyState == {"connecting", "open", "closing", "closed"}

LinkState == {"none", "up", "cut"}

Event == Jobs \X Nat

Request == {"subscribe", "unsubscribe"} \X Jobs

TypeOK ==
  /\ HubTypeOK
  /\ published \in Nat
  /\ bus \in Seq(Event)
  /\ {consuming, up} \subseteq BOOLEAN
  /\ accepted \subseteq Sockets
  /\ link \in [Sockets -> LinkState]
  /\ inbox \in [Sockets -> Seq(Request)]
  /\ outbox \in [Sockets -> Seq(Event)]
  /\ socket \in [Tabs -> Sockets \cup {None}]
  /\ state \in [Tabs -> ReadyState]
  /\ subscriptions \in [Tabs -> Seq(Jobs)]
  /\ heartbeat \in [Tabs -> [known : BOOLEAN, running : Nat]]
  /\ timer \in [Tabs -> BOOLEAN] /\ closed \in [Tabs -> BOOLEAN]
  /\ got \in [Tabs -> [Jobs -> Nat]]
  /\ faults \in Nat

\* The gateway has started; no tab is open yet.
Init ==
  /\ HubInit
  /\ published = 0
  /\ bus = <<>>
  /\ consuming = TRUE /\ up = TRUE
  /\ accepted = {}
  /\ link = [s \in Sockets |-> "none"]
  /\ inbox = [s \in Sockets |-> <<>>] /\ outbox = [s \in Sockets |-> <<>>]
  /\ socket = [t \in Tabs |-> None]
  /\ state = [t \in Tabs |-> "closed"]
  /\ subscriptions = [t \in Tabs |-> <<>>]
  /\ heartbeat = [t \in Tabs |-> [known |-> FALSE, running |-> 0]]
  /\ timer = [t \in Tabs |-> FALSE]
  /\ closed = [t \in Tabs |-> FALSE]
  /\ got = [t \in Tabs |-> [j \in Jobs |-> 0]]
  /\ faults = 0

Disturb == faults < MaxFaults /\ faults' = faults + 1

----
(***************************************************************************)
(* Workers, the bus and the gateway                                        *)
(***************************************************************************)

\* A worker publishes an event; without a queue it goes nowhere.
Publish(j) ==
  /\ published < MaxEvents
  /\ published' = published + 1
  /\ bus' = IF consuming THEN Append(bus, <<j, published + 1>>) ELSE bus
  /\ UNCHANGED <<hubVars, serverVars, netVars, tabVars, faults>>

\* Hub.broadcast: what is sent to a connection that was cut is lost.
Broadcast(event) ==
  outbox' = [s \in Sockets |-> IF s \in Subscribers(event[1]) /\ link[s] = "up"
                               THEN Append(outbox[s], event) ELSE outbox[s]]

\* Mutant of Consume: a handler that awaits before it hands the event over.
ConsumeLate ==
  /\ \E i \in 1..Len(bus) :
       /\ Broadcast(bus[i])
       /\ bus' = SubSeq(bus, 1, i - 1) \o SubSeq(bus, i + 1, Len(bus))
  /\ UNCHANGED <<hubVars, published, serverVars, link, inbox, tabVars, faults>>

\* The consumer's callback, in the order of the queue; noAck.
Consume ==
  /\ bus # <<>>
  /\ Broadcast(Head(bus))
  /\ bus' = Tail(bus)
  /\ UNCHANGED <<hubVars, published, serverVars, link, inbox, tabVars, faults>>

\* RabbitMQ closes the connection in an orderly way: the exclusive queue is
\* gone, 'close' is logged, and nothing consumes again in this process.
BusClosed ==
  /\ consuming
  /\ Disturb
  /\ consuming' = FALSE
  /\ bus' = <<>>
  /\ UNCHANGED <<hubVars, published, up, accepted, netVars, tabVars>>

\* The process ends: SIGTERM, a crash, or the connection to RabbitMQ breaks,
\* an 'error' that nobody listens to.
GatewayEnds ==
  /\ up
  /\ Disturb
  /\ up' = FALSE /\ consuming' = FALSE
  /\ bus' = <<>>
  /\ byJob' = <<>> /\ byClient' = <<>>
  /\ accepted' = {}
  /\ link' = [s \in Sockets |-> IF link[s] = "up" THEN "cut" ELSE link[s]]
  /\ inbox' = [s \in Sockets |-> <<>>] /\ outbox' = [s \in Sockets |-> <<>>]
  /\ UNCHANGED <<published, tabVars>>

\* main: the consumer first, then the server.
GatewayStarts ==
  /\ ~up
  /\ up' = TRUE /\ consuming' = TRUE
  /\ UNCHANGED <<hubVars, published, bus, accepted, netVars, tabVars, faults>>

\* The server's 'connection' event.
Grant(s) ==
  /\ up
  /\ link[s] = "none"
  /\ accepted' = accepted \cup {s}
  /\ link' = [link EXCEPT ![s] = "up"]

\* For a tab that is connecting.
Accept(t) ==
  /\ state[t] = "connecting"
  /\ Grant(socket[t])
  /\ UNCHANGED <<hubVars, published, bus, consuming, up, inbox, outbox, tabVars, faults>>

\* The server's 'message' event.
HandleMessage(s) ==
  /\ s \in accepted /\ inbox[s] # <<>>
  /\ LET request == Head(inbox[s]) IN
       \/ request[1] = "subscribe" /\ Subscribe(s, request[2])
       \/ request[1] = "unsubscribe" /\ Unsubscribe(s, request[2])
  /\ inbox' = [inbox EXCEPT ![s] = Tail(@)]
  /\ UNCHANGED <<published, bus, serverVars, link, outbox, tabVars, faults>>

\* The server's 'close' event: what has arrived is handled first.
HandleClose(s) ==
  /\ s \in accepted /\ link[s] = "cut" /\ inbox[s] = <<>>
  /\ Remove(s)
  /\ accepted' = accepted \ {s}
  /\ UNCHANGED <<published, bus, consuming, up, netVars, tabVars, faults>>

\* A connection is gone: events on their way to the client are lost, and of
\* the requests on their way to the server the last ones.
Cut(s) ==
  /\ link' = [link EXCEPT ![s] = IF @ = "up" THEN "cut" ELSE @]
  /\ outbox' = [outbox EXCEPT ![s] = <<>>]
  /\ \E k \in 0..Len(inbox[s]) : inbox' = [inbox EXCEPT ![s] = SubSeq(@, 1, k)]

\* The network, a proxy or a sleeping laptop cuts a tab's connection; each
\* side finds out on its own.
LinkLost(s) ==
  /\ link[s] = "up"
  /\ Disturb
  /\ Cut(s)
  /\ UNCHANGED <<hubVars, published, bus, serverVars, tabVars>>

----
(***************************************************************************)
(* RealtimeClient, one per tab                                             *)
(***************************************************************************)

\* send: dropped unless the socket is open.
Send(t, readyState, requests) ==
  inbox' = IF readyState = "open" /\ link[socket[t]] = "up"
           THEN [inbox EXCEPT ![socket[t]] = @ \o requests] ELSE inbox

\* new WebSocket: a connection that is refused leaves no trace, and the
\* next attempt has its name.
Connect(t) ==
  /\ \E n \in 1..MaxSockets :
       /\ \A k \in 1..MaxSockets : link[SocketOf(t, k)] = "none" <=> k >= n
       /\ socket' = [socket EXCEPT ![t] = SocketOf(t, n)]
  /\ closed' = [closed EXCEPT ![t] = FALSE]
  /\ state' = [state EXCEPT ![t] = "connecting"]

\* The control room is mounted.
Mount(t) ==
  /\ socket[t] = None
  /\ Connect(t)
  /\ UNCHANGED <<hubVars, published, bus, serverVars, netVars, subscriptions, heartbeat,
                 timer, got, faults>>

StartHeartbeat(t) ==
  heartbeat' = [heartbeat EXCEPT ![t] = [known |-> TRUE, running |-> @.running + 1]]

\* Mutant of Opened: a new socket does not subscribe again.
OpenedForgetful(t) ==
  /\ state[t] = "connecting" /\ link[socket[t]] = "up"
  /\ state' = [state EXCEPT ![t] = "open"]
  /\ StartHeartbeat(t)
  /\ UNCHANGED <<hubVars, published, bus, serverVars, netVars, socket,
                 subscriptions, timer, closed, got, faults>>

\* onopen: subscribe to everything again, start the heartbeat.
Opened(t) ==
  /\ state[t] = "connecting" /\ link[socket[t]] = "up"
  /\ state' = [state EXCEPT ![t] = "open"]
  /\ Send(t, "open", [i \in DOMAIN subscriptions[t] |-> <<"subscribe", subscriptions[t][i]>>])
  /\ StartHeartbeat(t)
  /\ UNCHANGED <<hubVars, published, bus, serverVars, link, outbox, socket,
                 subscriptions, timer, closed, got, faults>>

\* onmessage
Received(t) ==
  LET s == socket[t] IN
    /\ state[t] = "open" /\ outbox[s] # <<>>
    /\ got' = [got EXCEPT ![t][Head(outbox[s])[1]] = Head(outbox[s])[2]]
    /\ outbox' = [outbox EXCEPT ![s] = Tail(@)]
    /\ UNCHANGED <<hubVars, published, bus, serverVars, link, inbox, socket, state,
                   subscriptions, heartbeat, timer, closed, faults>>

\* cleanup: stops the interval it knows of.
Cleanup(t) ==
  heartbeat' = [heartbeat EXCEPT ![t] =
    [known |-> FALSE, running |-> IF @.known THEN @.running - 1 ELSE @.running]]

\* onclose, also of a socket that never opened: reconnect later, unless the
\* user closed it.
Closed(t) ==
  /\ \/ state[t] # "closed" /\ socket[t] # None /\ link[socket[t]] = "cut"
     \/ state[t] = "connecting" /\ link[socket[t]] = "none" /\ ~up
     \/ state[t] = "closing" /\ link[socket[t]] = "none"
  /\ state' = [state EXCEPT ![t] = "closed"]
  /\ Cleanup(t)
  /\ timer' = [timer EXCEPT ![t] = ~closed[t]]
  /\ UNCHANGED <<hubVars, published, bus, serverVars, netVars, socket,
                 subscriptions, closed, got, faults>>

\* The reconnect timer fires.
Reconnect(t) ==
  /\ timer[t]
  /\ timer' = [timer EXCEPT ![t] = FALSE]
  /\ Connect(t)
  /\ UNCHANGED <<hubVars, published, bus, serverVars, netVars, subscriptions, heartbeat, got, faults>>

\* Mutant of Want: the request waits for the next connection.
WantLater(t, j) ==
  /\ socket[t] # None /\ ~closed[t]
  /\ Len(inbox[socket[t]]) < MaxRequests
  /\ subscriptions' = [subscriptions EXCEPT ![t] = IF j \in Range(@) THEN @ ELSE Append(@, j)]
  /\ UNCHANGED <<hubVars, published, bus, serverVars, netVars, socket, state,
                 heartbeat, timer, closed, got, faults>>

\* subscribe(jobId)
Want(t, j) ==
  /\ socket[t] # None /\ ~closed[t]
  /\ Len(inbox[socket[t]]) < MaxRequests
  /\ subscriptions' = [subscriptions EXCEPT ![t] = IF j \in Range(@) THEN @ ELSE Append(@, j)]
  /\ Send(t, state[t], <<<<"subscribe", j>>>>)
  /\ UNCHANGED <<hubVars, published, bus, serverVars, link, outbox, socket, state,
                 heartbeat, timer, closed, got, faults>>

\* Mutant of Close: the timer is left running.
CloseKeepsTimer(t) ==
  /\ socket[t] # None /\ ~closed[t]
  /\ closed' = [closed EXCEPT ![t] = TRUE]
  /\ Cleanup(t)
  /\ state' = [state EXCEPT ![t] = IF @ = "closed" THEN @ ELSE "closing"]
  /\ Cut(socket[t])
  /\ UNCHANGED <<hubVars, published, bus, serverVars, socket, subscriptions, timer,
                 got, faults>>

\* close: the control room is unmounted.
Close(t) ==
  /\ socket[t] # None /\ ~closed[t]
  /\ closed' = [closed EXCEPT ![t] = TRUE]
  /\ Cleanup(t)
  /\ timer' = [timer EXCEPT ![t] = FALSE]
  /\ state' = [state EXCEPT ![t] = IF @ = "closed" THEN @ ELSE "closing"]
  /\ Cut(socket[t])
  /\ UNCHANGED <<hubVars, published, bus, serverVars, socket, subscriptions, got, faults>>

----
(***************************************************************************)
(* Other programs                                                          *)
(***************************************************************************)

OtherConnects(s) ==
  /\ Grant(s)
  /\ UNCHANGED <<hubVars, published, bus, consuming, up, inbox, outbox, tabVars, faults>>

OtherSends(s, request) ==
  /\ link[s] = "up" /\ Len(inbox[s]) < MaxRequests
  /\ inbox' = [inbox EXCEPT ![s] = Append(@, request)]
  /\ UNCHANGED <<hubVars, published, bus, serverVars, link, outbox, tabVars, faults>>

\* It closes its socket, or the network does.
OtherLeaves(s) ==
  /\ link[s] = "up"
  /\ Cut(s)
  /\ UNCHANGED <<hubVars, published, bus, serverVars, tabVars, faults>>

\* What the event loops do by themselves: the gateway's for a socket, and
\* the browser's for a tab, with the handshake it waits for.
ServeSocket(s) == HandleMessage(s) \/ HandleClose(s)
RunTab(t) == Accept(t) \/ Opened(t) \/ Received(t) \/ Closed(t) \/ Reconnect(t)

Next ==
  \/ GatewayStarts \/ Consume
  \/ \E s \in Sockets : ServeSocket(s)
  \/ \E t \in Tabs : RunTab(t)
  \/ BusClosed \/ GatewayEnds
  \/ \E j \in Jobs : Publish(j)
  \/ \E s \in Sockets \ Others : LinkLost(s)
  \/ \E t \in Tabs : Mount(t) \/ Close(t) \/ \E j \in Jobs : Want(t, j)
  \/ \E s \in Others :
       \/ OtherConnects(s) \/ OtherLeaves(s)
       \/ \E request \in {"subscribe", "unsubscribe"} \X OthersAsk : OtherSends(s, request)

\* A dead gateway is started again and the event loops run; users, workers
\* and disturbances owe nothing.
Fairness ==
  /\ WF_vars(GatewayStarts)
  /\ \A s \in Sockets : WF_vars(ServeSocket(s))
  /\ \A t \in Tabs : WF_vars(RunTab(t))

Spec == Init /\ [][Next]_vars /\ Fairness

----
(***************************************************************************)
(* Properties                                                              *)
(***************************************************************************)

\* The two indexes are one relation, a job without clients leaves nothing
\* behind, and so does a client that the server no longer has: whatever the
\* order of subscribe, unsubscribe and disconnect, the hub neither leaks nor
\* sends to the dead.
IndexesAgree ==
  /\ \A j \in Jobs, s \in Sockets : s \in Entry(byJob, j) <=> j \in Entry(byClient, s)
  /\ \A j \in DOMAIN byJob : byJob[j] # {}
  /\ DOMAIN byClient \subseteq accepted

HubInv == TypeOK /\ IndexesAgree

\* At most one heartbeat runs, on a socket that is open or whose loss is
\* yet unnoticed; the reconnect timer runs only while there is no socket;
\* and after close() nothing is left that could open a socket again.
NoStrayTimers ==
  \A t \in Tabs :
    /\ heartbeat[t].running <= 1
    /\ heartbeat[t].running = 1 => state[t] = "open"
    /\ timer[t] => state[t] = "closed"
    /\ closed[t] => /\ heartbeat[t].running = 0 /\ ~timer[t]
                    /\ state[t] \in {"closing", "closed"}
    /\ socket[t] # None /\ ~closed[t] => timer[t] \/ state[t] # "closed"

\* A tab sees the events of a job it subscribed to in the order they were
\* published and none twice, also across reconnections, and after close() it
\* sees none.
EventsInOrder ==
  [][\A t \in Tabs, j \in Jobs :
       got'[t][j] # got[t][j] =>
         got'[t][j] > got[t][j] /\ j \in Range(subscriptions[t]) /\ ~closed[t]]_vars

\* On a connection that holds, whatever the tab asked for is subscribed or the
\* request is on its way: no sequence of subscriptions, losses, restarts and
\* late closes of earlier sockets leaves an open tab deaf for a job.
SubscriptionsKept ==
  \A t \in Tabs : state[t] = "open" /\ link[socket[t]] = "up" =>
    \A j \in Range(subscriptions[t]) :
      socket[t] \in Subscribers(j) \/ <<"subscribe", j>> \in Range(inbox[socket[t]])

\* Once disturbances cease, every open tab is subscribed, in the gateway it
\* is connected to, to all it asked for since it was mounted (ws.ts:7-9: it
\* auto-reconnects and re-subscribes).
RestoresSubscriptions ==
  <>[](\A t \in Tabs : socket[t] # None /\ ~closed[t] =>
         \A j \in Range(subscriptions[t]) : socket[t] \in Subscribers(j))

====
