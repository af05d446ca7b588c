---- MODULE OcrWorker ----
(***************************************************************************)
(* The OCR workers (services/worker-ocr): Worker.handle, driven by         *)
(* Broker.consume.  It follows the image worker, but                       *)
(*   - one thread runs the handler, the channel and the signal handler, so *)
(*     SIGTERM closes the connection under a running handler, which finds  *)
(*     out at its next operation on the channel;                           *)
(*   - every call may raise, the publication of an event too, and whatever *)
(*     is raised is recorded as a failure of the job;                      *)
(*   - a job has one artifact, its text.                                   *)
(***************************************************************************)
EXTENDS WorkQueue, Lifecycle

CONSTANTS
  Rejectable,   \* jobs whose extraction may raise: that of an unreadable
                \* source, and that of a good one when its process fails
  Unreadable,   \* messages whose body Job.from_bytes rejects
  NoJob,        \* job of a worker that handles none
  Disturbances, \* the kinds of disturbance this instance is exposed to
  MaxFaults     \* bound on the number of disturbances

DisturbanceKind == {"call", "connection", "crash", "sigterm"}

ASSUME OcrAssumption ==
  /\ Rejectable \subseteq Jobs
  /\ Unreadable \subseteq Jobs
  /\ NoJob \notin Jobs
  /\ Disturbances \subseteq DisturbanceKind
  /\ MaxFaults \in Nat

VARIABLES
  status,    \* jobs.status in Postgres
  recorded,  \* jobs with a row (job, "text") in artifacts
  stored,    \* jobs with an object artifacts/<job>/text.txt
  announced, \* announced[j]: terminal statuses published on media.events
  pc,        \* next call of the worker's handler
  job,       \* the job in hand, or NoJob
  attempt,   \* the attempt number it was delivered with
  err,       \* what the handler call raises
  channel,   \* "open", "lost" by the network, or "closed" by SIGTERM
  faults,    \* disturbances so far
  seen       \* and their kinds

storeVars == <<status, recorded, stored, announced>>
handlerVars == <<job, attempt>>
faultVars == <<faults, seen>>
vars == <<queueVars, storeVars, pc, handlerVars, err, channel, faultVars>>

Status == {"pending", "processing", "completed", "failed"}

\* The step that follows the publication of a `processing` event.
AfterEvent ==
  [tellStarted |-> "fetch", tellFetched |-> "extract", tellStored |-> "finalize"]

Step == DOMAIN AfterEvent \cup
  {"idle", "check", "mark", "fetch", "extract", "put", "record", "finalize",
   "announce", "fail", "tell", "settle", "ack"}

TypeOK ==
  /\ QueueTypeOK
  /\ status \in [Jobs -> Status]
  /\ recorded \subseteq Jobs
  /\ stored \subseteq Jobs
  /\ announced \in [Jobs -> SUBSET {"completed", "failed"}]
  /\ pc \in [Workers -> Step]
  /\ job \in [Workers -> Jobs \cup {NoJob}]
  /\ attempt \in [Workers -> Nat]
  /\ err \in [Workers -> {"none", "transient", "permanent"}]
  /\ channel \in [Workers -> {"open", "lost", "closed"}]
  /\ faults \in Nat
  /\ seen \subseteq DisturbanceKind

Init ==
  /\ QueueInit
  /\ status = [j \in Jobs |-> "pending"]
  /\ recorded = {}
  /\ stored = {}
  /\ announced = [j \in Jobs |-> {}]
  /\ pc = [w \in Workers |-> "idle"]
  /\ job = [w \in Workers |-> NoJob]
  /\ attempt = [w \in Workers |-> 0]
  /\ err = [w \in Workers |-> "none"]
  /\ channel = [w \in Workers |-> "open"]
  /\ faults = 0
  /\ seen = {}

----
(***************************************************************************)
(* Outcomes of a call                                                      *)
(***************************************************************************)

Disturb(kind) ==
  /\ kind \in Disturbances
  /\ faults < MaxFaults
  /\ faults' = faults + 1
  /\ seen' = seen \cup {kind}

Goto(w, step) == pc' = [pc EXCEPT ![w] = step]

Raise(w, kind) ==
  /\ err' = [err EXCEPT ![w] = kind]
  /\ Goto(w, "fail")

\* A call to Postgres or the object store returns, with its Effect, and the
\* handler goes on with step `to`; or it raises, with or without the Effect.
Call(w, Effect, NoEffect, to) ==
  \/ Effect /\ Goto(w, to) /\ UNCHANGED <<err, faultVars>>
  \/ Disturb("call") /\ (Effect \/ NoEffect) /\ Raise(w, "transient")

\* publish_event returns: the event is out, or the dead connection has not
\* been noticed and the event is gone.
Publishes(w) == channel[w] # "closed"

\* publish_event raises: the connection is known to be gone.
PublishRaises(w) == channel[w] # "open"

SetStatus(j, s) == status' = [status EXCEPT ![j] = s]

Event(w, s) ==
  announced' = IF channel[w] = "open"
                 THEN [announced EXCEPT ![job[w]] = @ \cup {s}]
                 ELSE announced

----
(***************************************************************************)
(* Broker.consume                                                          *)
(***************************************************************************)

Deliver(w) ==
  /\ channel[w] = "open"
  /\ \E j \in Jobs : Push(w, j)
  /\ UNCHANGED <<storeVars, pc, handlerVars, err, channel, faultVars>>

\* _on_message is called with a delivery; a body that does not parse goes
\* straight to the parking lot.
Take(w) ==
  /\ pc[w] = "idle"
  /\ \E j \in Held(w) :
       /\ job' = [job EXCEPT ![w] = j]
       /\ attempt' = [attempt EXCEPT ![w] = AttemptOf(j)]
       /\ IF j \in Unreadable
            THEN Goto(w, "settle") /\ err' = [err EXCEPT ![w] = "permanent"]
            ELSE Goto(w, "check") /\ err' = [err EXCEPT ![w] = "none"]
  /\ UNCHANGED <<queueVars, storeVars, channel, faultVars>>

----
(***************************************************************************)
(* Worker.handle: _process, and _fail for whatever it raises               *)
(***************************************************************************)

\* Mutant of Check: no idempotency check.
CheckNothing(w) ==
  /\ pc[w] = "check"
  /\ Goto(w, "mark")
  /\ UNCHANGED <<queueVars, storeVars, handlerVars, err, channel, faultVars>>

\* Mutant of Check: every job that is not pending is skipped.
CheckSkipsStarted(w) ==
  /\ pc[w] = "check"
  /\ Goto(w, IF status[job[w]] = "pending" THEN "mark" ELSE "settle")
  /\ UNCHANGED <<queueVars, storeVars, handlerVars, err, channel, faultVars>>

\* A completed job is skipped; when the read fails, so does the attempt.
Check(w) ==
  /\ pc[w] = "check"
  /\ Call(w, UNCHANGED status, UNCHANGED status,
          IF status[job[w]] = "completed" THEN "settle" ELSE "mark")
  /\ UNCHANGED <<queueVars, recorded, stored, announced, handlerVars, channel>>

Mark(w) ==
  /\ pc[w] = "mark"
  /\ Call(w, SetStatus(job[w], "processing"), UNCHANGED status, "tellStarted")
  /\ UNCHANGED <<queueVars, recorded, stored, announced, handlerVars, channel>>

\* A `processing` event.
EmitProgress(w) ==
  /\ pc[w] \in DOMAIN AfterEvent
  /\ \/ Publishes(w) /\ Goto(w, AfterEvent[pc[w]]) /\ UNCHANGED err
     \/ PublishRaises(w) /\ Raise(w, "transient")
  /\ UNCHANGED <<queueVars, storeVars, handlerVars, channel, faultVars>>

Fetch(w) ==
  /\ pc[w] = "fetch"
  /\ Call(w, UNCHANGED stored, UNCHANGED stored, "tellFetched")
  /\ UNCHANGED <<queueVars, status, recorded, stored, announced, handlerVars, channel>>

\* Whatever extract_text raises is wrapped as permanent: also a failure of
\* the tesseract or poppler process it runs.
Extract(w) ==
  /\ pc[w] = "extract"
  /\ \/ Goto(w, "put") /\ UNCHANGED err
     \/ job[w] \in Rejectable /\ Raise(w, "permanent")
  /\ UNCHANGED <<queueVars, storeVars, handlerVars, channel, faultVars>>

StoreText(w) == stored' = stored \cup {job[w]}

Put(w) ==
  /\ pc[w] = "put"
  /\ Call(w, StoreText(w), UNCHANGED stored, "record")
  /\ UNCHANGED <<queueVars, status, recorded, announced, handlerVars, channel>>

RecordText(w) == recorded' = recorded \cup {job[w]}

\* Mutant of Record: the error of the upsert is swallowed.
RecordUnchecked(w) ==
  /\ pc[w] = "record"
  /\ \/ RecordText(w) /\ UNCHANGED faultVars
     \/ Disturb("call") /\ UNCHANGED recorded
  /\ Goto(w, "tellStored")
  /\ UNCHANGED <<queueVars, status, stored, announced, handlerVars, err, channel>>

Record(w) ==
  /\ pc[w] = "record"
  /\ Call(w, RecordText(w), UNCHANGED recorded, "tellStored")
  /\ UNCHANGED <<queueVars, status, stored, announced, handlerVars, channel>>

Finalize(w) ==
  /\ pc[w] = "finalize"
  /\ Call(w, SetStatus(job[w], "completed"), UNCHANGED status, "announce")
  /\ UNCHANGED <<queueVars, recorded, stored, announced, handlerVars, channel>>

\* The `completed` event: when it raises, the job has been set to completed.
Announce(w) ==
  /\ pc[w] = "announce"
  /\ \/ Publishes(w) /\ Event(w, "completed") /\ Goto(w, "settle") /\ UNCHANGED err
     \/ PublishRaises(w) /\ Raise(w, "transient") /\ UNCHANGED announced
  /\ UNCHANGED <<queueVars, status, recorded, stored, handlerVars, channel, faultVars>>

\* _fail: the status, then the event; an exception of either is swallowed.
Fail(w) ==
  /\ pc[w] = "fail"
  /\ \/ SetStatus(job[w], "failed") /\ Goto(w, "tell") /\ UNCHANGED faultVars
     \/ /\ Disturb("call")
        /\ SetStatus(job[w], "failed") \/ UNCHANGED status
        /\ Goto(w, "settle")
  /\ UNCHANGED <<queueVars, recorded, stored, announced, handlerVars, err, channel>>

Tell(w) ==
  /\ pc[w] = "tell"
  /\ Event(w, "failed")
  /\ Goto(w, "settle")
  /\ UNCHANGED <<queueVars, status, recorded, stored, handlerVars, err, channel, faultVars>>

----
(***************************************************************************)
(* _on_message after the handler                                           *)
(***************************************************************************)

MustPark(w) == err[w] # "none" /\ GivesUp(err[w] = "permanent", attempt[w])

MustRetry(w) == err[w] # "none" /\ ~MustPark(w)

\* Back in start_consuming, or in a new process.
Reset(w) ==
  /\ Goto(w, "idle")
  /\ job' = [job EXCEPT ![w] = NoJob]
  /\ attempt' = [attempt EXCEPT ![w] = 0]
  /\ err' = [err EXCEPT ![w] = "none"]
  /\ channel' = [channel EXCEPT ![w] = "open"]

Park(w) ==
  /\ pc[w] = "settle" /\ channel[w] = "open" /\ MustPark(w)
  /\ ParkMessage(job[w])
  /\ Goto(w, "ack")
  /\ UNCHANGED <<storeVars, handlerVars, err, channel, faultVars>>

Ack(w) ==
  /\ channel[w] = "open"
  /\ pc[w] = "ack" \/ (pc[w] = "settle" /\ err[w] = "none")
  /\ AckMessage(job[w])
  /\ Reset(w)
  /\ UNCHANGED <<storeVars, faultVars>>

Nack(w) ==
  /\ pc[w] = "settle" /\ channel[w] = "open" /\ MustRetry(w)
  /\ NackMessage(job[w])
  /\ Reset(w)
  /\ UNCHANGED <<storeVars, faultVars>>

\* An operation on the dead channel raises out of start_consuming: main
\* returns, and the process is restarted.
Abandon(w) ==
  /\ pc[w] \in {"settle", "ack"} /\ channel[w] # "open"
  /\ Reset(w)
  /\ UNCHANGED <<queueVars, storeVars, faultVars>>

----
(***************************************************************************)
(* The process and its connection                                          *)
(***************************************************************************)

\* The channel ends and the broker requeues what it held.  An idle worker
\* exits and is restarted; a busy one goes on.
EndChannel(w, how) ==
  /\ channel[w] = "open"
  /\ Requeue(w)
  /\ channel' = IF pc[w] = "idle" THEN channel ELSE [channel EXCEPT ![w] = how]
  /\ UNCHANGED <<storeVars, pc, handlerVars, err>>

\* The network fails, or the heartbeats stop during a long extraction.
ConnectionLost(w) == Disturb("connection") /\ EndChannel(w, "lost")

\* The signal handler runs between two steps of the main thread, and closes
\* the connection.
Sigterm(w) == Disturb("sigterm") /\ EndChannel(w, "closed")

Crash(w) ==
  /\ Disturb("crash")
  /\ Requeue(w)
  /\ Reset(w)
  /\ UNCHANGED storeVars

Expire(j) ==
  /\ ExpireRetry(j)
  /\ UNCHANGED <<storeVars, pc, handlerVars, err, channel, faultVars>>

\* Every message has left the queue and every worker waits.
Drained ==
  /\ \A j \in Jobs : at[j] = "acked"
  /\ \A w \in Workers : pc[w] = "idle"
  /\ UNCHANGED vars

Handle(w) ==
  \/ Check(w) \/ Mark(w) \/ EmitProgress(w) \/ Fetch(w) \/ Extract(w) \/ Put(w)
  \/ Record(w) \/ Finalize(w) \/ Announce(w) \/ Fail(w) \/ Tell(w)
  \/ Park(w) \/ Ack(w) \/ Nack(w) \/ Abandon(w)

Next ==
  \/ \E w \in Workers :
       \/ Deliver(w) \/ Take(w) \/ Handle(w)
       \/ ConnectionLost(w) \/ Sigterm(w) \/ Crash(w)
  \/ \E j \in Jobs : Expire(j)
  \/ Drained

\* Calls return, the broker delivers and runs the TTL; disturbances are
\* never owed.
Fairness ==
  /\ \A w \in Workers :
       WF_vars(Deliver(w)) /\ WF_vars(Take(w)) /\ WF_vars(Handle(w))
  /\ \A j \in Jobs : WF_vars(Expire(j))

Spec == Init /\ [][Next]_vars

FairSpec == Spec /\ Fairness

----
(***************************************************************************)
(* Properties                                                              *)
(***************************************************************************)

Busy(w) == pc[w] # "idle"

\* A message leaves the queue for good only with its text recorded or a copy
\* in the parking lot, wherever SIGTERM or a dead connection cuts the
\* handler off.
NothingLost == \A j \in Jobs : at[j] = "acked" => j \in recorded \/ parked[j] > 0

\* A job is dead-lettered fewer than MaxRetries times, even when a stale
\* handler and the current one both fail.
RetriesBounded == \A j \in Jobs : deaths[j] = 0 \/ deaths[j] < MaxRetries

\* A job is parked for its body, for what extract_text raised or after its
\* last attempt: a failing call never parks a job that has attempts left.
ParkedForCause ==
  \A j \in Jobs : parked[j] > 0 =>
    j \in Rejectable \cup Unreadable \/ AttemptOf(j) >= MaxRetries

\* Whoever reads or hears `completed` finds the text, in the object store
\* too.
CompletedHasText ==
  /\ recorded \subseteq stored
  /\ \A j \in Jobs :
       status[j] = "completed" \/ "completed" \in announced[j] => j \in recorded

\* A completed job is not taken back: a redelivered one is a no-op.
CompletedIsFinal ==
  [][\A j \in Jobs : status[j] = "completed" => status'[j] = "completed"]_vars

\* Crashes are harmless: every job goes through its life in order, and a
\* completed one, which the check finds, stays so.
CrashesKeepOrder ==
  [][seen' \subseteq {"crash"} =>
       \A j \in Jobs : status'[j] # status[j] => <<status[j], status'[j]>> \in Lifecycle]_vars

\* A good source ends up completed and stays so when fewer calls fail and
\* processes die than a job has attempts.
SurvivesFewFaults ==
  [](faults < MaxRetries /\ seen \subseteq {"call", "crash"}) =>
    \A j \in Jobs \ (Rejectable \cup Unreadable) :
      <>[](status[j] = "completed" /\ parked[j] = 0)

\* The OCR workers implement the same contract as the image workers.
Contract == INSTANCE JobContract WITH
  Hopeless <- Rejectable \cup Unreadable,
  Effortless <- {},
  open <- {j \in Jobs : at[j] # "acked"},
  stored <- recorded,
  givenUp <- {j \in Jobs : parked[j] > 0},
  retries <- deaths

\* Bounded, at-least-once processing, whatever the handler raises and
\* wherever it is cut off.
ImplementsContract == Contract!Spec

----
(***************************************************************************)
(* The inductive invariant                                                 *)
(***************************************************************************)

\* Who handles what: a message is unacked exactly on a worker's channel, and
\* a busy worker whose channel is open holds its message there, at the
\* attempt it was told.
Ownership ==
  /\ \A j \in Jobs : holder[j] # Nobody <=> at[j] = "unacked"
  /\ \A w \in Workers :
       /\ Busy(w) <=> job[w] # NoJob
       /\ ~Busy(w) => channel[w] = "open"
       /\ Busy(w) /\ channel[w] = "open" =>
            holder[job[w]] = w /\ attempt[w] = AttemptOf(job[w])

\* How far the handler of a worker has got, and why it fails.
Progressed(w) ==
  /\ pc[w] = "record" => job[w] \in stored
  /\ pc[w] \in {"tellStored", "finalize", "announce"}
       \/ (pc[w] = "settle" /\ err[w] = "none") => job[w] \in recorded
  /\ Busy(w) /\ err[w] = "permanent" => job[w] \in Rejectable \cup Unreadable
  /\ pc[w] \in {"fail", "tell", "ack"} => err[w] # "none"
  /\ pc[w] = "ack" /\ channel[w] = "open" => parked[job[w]] > 0

\* The inductive invariant: it implies every safety property above, and says
\* what a handler that lost its channel may still do.
IInv ==
  /\ TypeOK
  /\ Ownership
  /\ \A w \in Workers : Progressed(w)
  /\ CompletedHasText
  /\ RetriesBounded
  /\ ParkedForCause
  /\ NothingLost

====
