---- MODULE Gateway ----
(***************************************************************************)
(* Submission in the API gateway (services/api-gateway): handleSubmit is a *)
(* sequence of calls to Redis, the object store, Postgres and RabbitMQ,    *)
(* one action each, and the requests of several clients run at once.       *)
(* Nothing undoes the first calls when a later one fails, and the          *)
(* connection to RabbitMQ is made at start and never again.                *)
(*                                                                         *)
(* A job has the identity of the request that creates it.                  *)
(***************************************************************************)
EXTENDS RateLimiter

CONSTANTS
  Requests,     \* uploads
  ClientOf,     \* ClientOf[r]: who sends it
  Unanswered,   \* reply of a request that has had none yet
  Disturbances, \* the kinds of disturbance this instance is exposed to
  MaxFaults     \* bound on the number of disturbances

DisturbanceKind == {"redis", "call", "connection", "nack", "crash", "sigterm"}

Code == {"202", "400", "429", "500", "502", "reset"}

ASSUME GatewayAssumption ==
  /\ ClientOf \in [Requests -> Clients]
  /\ Unanswered \notin Code
  /\ Disturbances \subseteq DisturbanceKind
  /\ MaxFaults \in Nat

VARIABLES
  pc,        \* next step of the request's handler
  window,    \* the window its key names
  n,         \* what INCR answered, 0 if it failed
  inWindow,  \* requests counted by INCR before their window was over
  reply,     \* status code of the answer
  objects,   \* jobs whose upload is in the object store
  jobs,      \* jobs with a row, in the pending state
  sent,      \* messages on their way to the broker
  queue,     \* messages the broker has taken over, one per job
  confirms,  \* confirms on their way to the gateway
  busUp,     \* the gateway's connection to RabbitMQ
  stopping,  \* SIGTERM: no new request is accepted
  faults,    \* disturbances so far
  seen       \* and their kinds

limitVars == <<window, n, inWindow>>
storeVars == <<objects, jobs>>
busVars == <<sent, queue, confirms, busUp>>
faultVars == <<faults, seen>>
vars == <<limiterVars, pc, limitVars, reply, storeVars, busVars, stopping, faultVars>>

Step == {"new", "incr", "expire", "form", "put", "insert", "publish", "confirm", "done"}

TypeOK ==
  /\ LimiterTypeOK
  /\ pc \in [Requests -> Step]
  /\ window \in [Requests -> Windows]
  /\ n \in [Requests -> Nat]
  /\ reply \in [Requests -> Code \cup {Unanswered}]
  /\ inWindow \subseteq Requests
  /\ objects \subseteq Requests /\ jobs \subseteq Requests
  /\ sent \subseteq Requests /\ queue \subseteq Requests /\ confirms \subseteq Requests
  /\ busUp \in BOOLEAN /\ stopping \in BOOLEAN
  /\ faults \in Nat
  /\ seen \subseteq DisturbanceKind

Init ==
  /\ LimiterInit
  /\ pc = [r \in Requests |-> "new"]
  /\ window = [r \in Requests |-> 0]
  /\ n = [r \in Requests |-> 0]
  /\ inWindow = {}
  /\ reply = [r \in Requests |-> Unanswered]
  /\ objects = {} /\ jobs = {}
  /\ sent = {} /\ queue = {} /\ confirms = {}
  /\ busUp = TRUE
  /\ stopping = FALSE
  /\ faults = 0 /\ seen = {}

----
(***************************************************************************)
(* Helpers                                                                 *)
(***************************************************************************)

Disturb(kind) ==
  /\ kind \in Disturbances
  /\ faults < MaxFaults
  /\ faults' = faults + 1
  /\ seen' = seen \cup {kind}

Goto(r, step) == pc' = [pc EXCEPT ![r] = step]

Answer(r, code) ==
  /\ reply' = [reply EXCEPT ![r] = code]
  /\ Goto(r, "done")

Active(r) == pc[r] \notin {"new", "done"}

----
(***************************************************************************)
(* Limiter.Allow                                                           *)
(***************************************************************************)

\* A request comes in, and the handler computes its key from the clock.
Accept(r) ==
  /\ pc[r] = "new" /\ ~stopping
  /\ window' = [window EXCEPT ![r] = CurrentWindow]
  /\ Goto(r, "incr")
  /\ UNCHANGED <<limiterVars, n, inWindow, reply, storeVars, busVars, stopping, faultVars>>

\* INCR answers; or it fails, counted or not, and the request is let through.
Count(r) ==
  /\ pc[r] = "incr"
  /\ LET c == ClientOf[r]  b == window[r] IN
       \/ /\ Incr(c, b)
          /\ n' = [n EXCEPT ![r] = count[c][b] + 1]
          /\ inWindow' = IF CurrentWindow = b THEN inWindow \cup {r} ELSE inWindow
          /\ Goto(r, IF count[c][b] = 0 THEN "expire" ELSE "form")
          /\ UNCHANGED faultVars
       \/ /\ Disturb("redis")
          /\ Incr(c, b) \/ UNCHANGED limiterVars
          /\ Goto(r, "form")
          /\ UNCHANGED <<n, inWindow>>
  /\ UNCHANGED <<window, reply, storeVars, busVars, stopping>>

\* EXPIRE, for the request that created the key; its error is ignored.
SetExpiry(r) ==
  /\ pc[r] = "expire"
  /\ \/ Expire(ClientOf[r], window[r]) /\ UNCHANGED faultVars
     \/ Disturb("redis") /\ UNCHANGED limiterVars
  /\ Goto(r, "form")
  /\ UNCHANGED <<limitVars, reply, storeVars, busVars, stopping>>

----
(***************************************************************************)
(* The rest of handleSubmit                                                *)
(***************************************************************************)

\* The verdict of the limiter, and the checks of the upload and its form,
\* which it passes or not.
CheckForm(r) ==
  /\ pc[r] = "form"
  /\ \/ ~Allows(n[r]) /\ Answer(r, "429")
     \/ Allows(n[r]) /\ Answer(r, "400")
     \/ Allows(n[r]) /\ Goto(r, "put") /\ UNCHANGED reply
  /\ UNCHANGED <<limiterVars, limitVars, storeVars, busVars, stopping, faultVars>>

StoreUpload(r) == objects' = objects \cup {r}

\* Objects.Put
PutUpload(r) ==
  /\ pc[r] = "put"
  /\ \/ StoreUpload(r) /\ Goto(r, "insert") /\ UNCHANGED <<reply, faultVars>>
     \/ Disturb("call") /\ (StoreUpload(r) \/ UNCHANGED objects) /\ Answer(r, "502")
  /\ UNCHANGED <<limiterVars, limitVars, jobs, busVars, stopping>>

CreateJob(r) == jobs' = jobs \cup {r}

\* Mutant of Insert: the row is left to be written after the publication.
InsertLater(r) ==
  /\ pc[r] = "insert"
  /\ Goto(r, "publish")
  /\ UNCHANGED <<limiterVars, limitVars, reply, storeVars, busVars,
                 stopping, faultVars>>

\* Jobs.CreateJob
Insert(r) ==
  /\ pc[r] = "insert"
  /\ \/ CreateJob(r) /\ Goto(r, "publish") /\ UNCHANGED <<reply, faultVars>>
     \/ Disturb("call") /\ (CreateJob(r) \/ UNCHANGED jobs) /\ Answer(r, "500")
  /\ UNCHANGED <<limiterVars, limitVars, objects, busVars, stopping>>

\* Mutant of Publish: 202 without waiting for the confirm.
PublishUnconfirmed(r) ==
  /\ pc[r] = "publish"
  /\ \/ busUp /\ sent' = sent \cup {r} /\ Answer(r, "202")
     \/ ~busUp /\ Answer(r, "502") /\ UNCHANGED sent
  /\ UNCHANGED <<limiterVars, limitVars, storeVars, queue, confirms, busUp,
                 stopping, faultVars>>

\* PublishWithDeferredConfirm: errs at once on a dead connection.
Publish(r) ==
  /\ pc[r] = "publish"
  /\ \/ busUp /\ sent' = sent \cup {r} /\ Goto(r, "confirm") /\ UNCHANGED reply
     \/ ~busUp /\ Answer(r, "502") /\ UNCHANGED sent
  /\ UNCHANGED <<limiterVars, limitVars, storeVars, queue, confirms, busUp,
                 stopping, faultVars>>

\* Mutants of AwaitConfirm: whatever ends the wait counts as an ack; a nack
\* does not end it.
AwaitAnything(r) ==
  /\ pc[r] = "confirm" /\ r \notin sent
  /\ Answer(r, "202")
  /\ confirms' = confirms \ {r}
  /\ UNCHANGED <<limiterVars, limitVars, storeVars, sent, queue, busUp,
                 stopping, faultVars>>

AwaitAck(r) ==
  /\ pc[r] = "confirm"
  /\ r \in confirms /\ Answer(r, "202")
  /\ confirms' = confirms \ {r}
  /\ UNCHANGED <<limiterVars, limitVars, storeVars, sent, queue, busUp,
                 stopping, faultVars>>

\* conf.Wait: true for an ack; false for a nack (nothing is on its way any
\* more) or when the connection is gone.
AwaitConfirm(r) ==
  /\ pc[r] = "confirm"
  /\ \/ r \in confirms /\ Answer(r, "202")
     \/ r \notin confirms \cup sent /\ Answer(r, "502")
  /\ confirms' = confirms \ {r}
  /\ UNCHANGED <<limiterVars, limitVars, storeVars, sent, queue, busUp,
                 stopping, faultVars>>

----
(***************************************************************************)
(* The broker, the connection and the process                              *)
(***************************************************************************)

\* The broker takes a message over and confirms it, or nacks it.
TakeOver(r) ==
  /\ r \in sent
  /\ sent' = sent \ {r}
  /\ \/ queue' = queue \cup {r} /\ confirms' = confirms \cup {r} /\ UNCHANGED faultVars
     \/ Disturb("nack") /\ UNCHANGED <<queue, confirms>>
  /\ UNCHANGED <<limiterVars, pc, limitVars, reply, storeVars, busUp, stopping>>

\* The connection is gone: what was sent arrives or not, and no confirm
\* comes back.
LoseConnection ==
  /\ \E arrived \in SUBSET sent : queue' = queue \cup arrived
  /\ sent' = {} /\ confirms' = {}

\* Nothing connects again before the next start.
ConnectionLost ==
  /\ busUp
  /\ Disturb("connection")
  /\ LoseConnection
  /\ busUp' = FALSE
  /\ UNCHANGED <<limiterVars, pc, limitVars, reply, storeVars, stopping>>

\* The process ends, its requests are cut off, and a new one starts.
Restart ==
  /\ reply' = [r \in Requests |-> IF Active(r) THEN "reset" ELSE reply[r]]
  /\ pc' = [r \in Requests |-> IF Active(r) THEN "done" ELSE pc[r]]
  /\ LoseConnection
  /\ busUp' = TRUE
  /\ stopping' = FALSE
  /\ UNCHANGED <<limiterVars, limitVars, storeVars>>

\* The process dies, or Shutdown gives up waiting after 15 seconds.
Crash == Disturb("crash") /\ Restart

\* SIGTERM: no new requests, those in progress go on.
Sigterm ==
  /\ ~stopping
  /\ Disturb("sigterm")
  /\ stopping' = TRUE
  /\ UNCHANGED <<limiterVars, pc, limitVars, reply, storeVars, busVars>>

\* Mutant of Stop: the broker connection is closed without draining.
StopAtOnce ==
  /\ stopping
  /\ Restart
  /\ UNCHANGED faultVars

\* Shutdown returns once no request is in progress.
Stop ==
  /\ stopping
  /\ \A r \in Requests : ~Active(r)
  /\ Restart
  /\ UNCHANGED faultVars

Second ==
  /\ Tick
  /\ UNCHANGED <<pc, limitVars, reply, storeVars, busVars, stopping, faultVars>>

\* Every request has its answer.
Served ==
  /\ \A r \in Requests : pc[r] = "done"
  /\ ~stopping
  /\ UNCHANGED vars

Handle(r) ==
  \/ Count(r) \/ SetExpiry(r) \/ CheckForm(r) \/ PutUpload(r) \/ Insert(r)
  \/ Publish(r) \/ AwaitConfirm(r)

Next ==
  \/ \E r \in Requests : Accept(r) \/ Handle(r) \/ TakeOver(r)
  \/ ConnectionLost \/ Crash \/ Sigterm \/ Stop
  \/ Second
  \/ Served

\* Calls return and the broker answers what reaches it; clients need not
\* come, and disturbances are never owed.
Fairness ==
  /\ \A r \in Requests : WF_vars(Handle(r)) /\ WF_vars(TakeOver(r))
  /\ WF_vars(Stop)

Spec == Init /\ [][Next]_vars /\ Fairness

----
(***************************************************************************)
(* Properties                                                              *)
(***************************************************************************)

\* A client told 202 has its job on the queue, with the row and the source
\* the worker needs (docs/architecture.md, Publisher guarantees), whatever the connection, the broker or the
\* process does in between.
AcceptedIsQueued ==
  \A r \in Requests : reply[r] = "202" => r \in objects \cap jobs \cap queue

\* A worker never sees a message whose row or source is not there yet, not
\* even of a request that fails later.
QueuedIsRunnable == queue \cup sent \subseteq objects \cap jobs

\* No silent orphan: a job that will stay pending because no message exists
\* for it belongs to a request that was told of a failure or cut off.
OrphanWasReported ==
  \A r \in jobs \ (queue \cup sent) :
    Active(r) \/ reply[r] \in {"500", "502", "reset"}

\* The limiter lets at most Limit requests of a client through per window,
\* counting those that Redis counted before the window was over: its key
\* does not expire earlier, however the two calls of several requests
\* interleave.
WindowHolds ==
  \A c \in Clients, b \in Windows :
    Cardinality({r \in inWindow : ClientOf[r] = c /\ window[r] = b /\ Allows(n[r])})
      <= Limit

\* A deployment cuts no request off: on SIGTERM those in progress finish.
ShutdownDrains ==
  \A r \in Requests : reply[r] = "reset" => "crash" \in seen

\* Every request gets an answer or is cut off: the wait for the confirm
\* ends, also when the connection is lost under it.
EveryRequestEnds ==
  \A r \in Requests : pc[r] = "incr" ~> reply[r] # Unanswered

----
(***************************************************************************)
(* The inductive invariant                                                 *)
(***************************************************************************)

\* What a request has written when its handler is at a step.
Written ==
  \A r \in Requests :
    /\ pc[r] \in {"new", "incr", "expire", "form", "put"} => r \notin jobs
    /\ pc[r] \in {"insert", "publish", "confirm"} => r \in objects
    /\ pc[r] \in {"publish", "confirm"} => r \in jobs

\* A message that is on its way, or whose confirm is, has a handler waiting
\* for it, and the connection carries both.
Awaited ==
  /\ \A r \in sent \cup confirms : pc[r] = "confirm"
  /\ confirms \subseteq queue \ sent
  /\ ~busUp => sent = {} /\ confirms = {}

\* No key goes before its window is over, so until then the requests counted
\* under it have numbers of their own, none above the counter.
Counted ==
  /\ \A c \in Clients, b \in Windows : ttl[c][b] >= Window * (b + 1)
  /\ \A r \in Requests : window[r] <= CurrentWindow
  /\ \A r \in inWindow :
       /\ pc[r] \notin {"new", "incr"}
       /\ n[r] > 0
       /\ CurrentWindow = window[r] => n[r] <= count[ClientOf[r]][window[r]]
       /\ \A s \in inWindow \ {r} :
            ClientOf[s] = ClientOf[r] /\ window[s] = window[r] => n[s] # n[r]

\* The inductive invariant: it implies every safety property above.
IInv ==
  /\ TypeOK
  /\ Counted
  /\ Written
  /\ Awaited
  /\ AcceptedIsQueued
  /\ QueuedIsRunnable
  /\ OrphanWasReported
  /\ ShutdownDrains

====
