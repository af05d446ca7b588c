---- MODULE ImageWorker ----
(***************************************************************************)
(* The image workers (services/worker-image): every replica runs Consume,  *)
(* which hands one delivery at a time to handler.handle, which drives the  *)
(* job row, the artifact rows and the stored objects and returns an error  *)
(* that decides between ack, the retry loop and the parking lot.           *)
(*                                                                         *)
(* A handler is a sequence of external calls, one action each, so that the *)
(* handlers of several workers interleave between any two calls.  A call   *)
(* can fail, with or without its effect; a connection can drop while its   *)
(* handler goes on; a process can be killed or told to stop at any point.  *)
(***************************************************************************)
EXTENDS WorkQueue, Lifecycle, Sequences

CONSTANTS
  Variants,     \* names of the variants a worker can produce
  Results,      \* Results[j]: the variants Process makes for job j, in order
  Undecodable,  \* jobs whose source Process rejects, on every attempt
  Unreadable,   \* messages whose body json.Unmarshal rejects
  NoJob,        \* job of a worker that handles none
  Disturbances, \* the kinds of disturbance this instance is exposed to
  MaxFaults     \* bound on the number of disturbances

DisturbanceKind == {"call", "connection", "crash", "sigterm"}

ASSUME ImageAssumption ==
  /\ Results \in [Jobs -> Seq(Variants)]
  /\ Undecodable \subseteq Jobs
  /\ Unreadable \subseteq Jobs
  /\ NoJob \notin Jobs
  /\ Disturbances \subseteq DisturbanceKind
  /\ MaxFaults \in Nat

VARIABLES
  status,     \* jobs.status in Postgres
  rows,       \* rows[j]: names with a row (j, name) in artifacts
  objects,    \* objects[j]: variants stored under artifacts/<j>/
  announced,  \* announced[j]: terminal statuses published on media.events
  pc,         \* next call of the worker's handler
  job,        \* the job in hand, or NoJob
  attempt,    \* the attempt number it was delivered with
  done,       \* results uploaded and recorded by this handler call
  err,        \* what the handler call returns
  connected,  \* the process still has the channel it consumed on
  cancelled,  \* SIGTERM has cancelled the context of every call
  faults,     \* disturbances so far
  seen        \* and their kinds

storeVars == <<status, rows, objects, announced>>
handlerVars == <<job, attempt, done, err>>
processVars == <<connected, cancelled>>
faultVars == <<faults, seen>>
vars == <<queueVars, storeVars, pc, handlerVars, processVars, faultVars>>

Status == {"pending", "processing", "completed", "failed"}

Step == {"idle", "check", "mark", "fetch", "put", "record", "finalize",
         "announce", "fail", "tell", "settle", "ack"}

TypeOK ==
  /\ QueueTypeOK
  /\ status \in [Jobs -> Status]
  /\ rows \in [Jobs -> SUBSET Variants]
  /\ objects \in [Jobs -> SUBSET Variants]
  /\ announced \in [Jobs -> SUBSET {"completed", "failed"}]
  /\ pc \in [Workers -> Step]
  /\ job \in [Workers -> Jobs \cup {NoJob}]
  /\ attempt \in [Workers -> Nat]
  /\ done \in [Workers -> Nat]
  /\ err \in [Workers -> {"none", "transient", "permanent"}]
  /\ connected \in [Workers -> BOOLEAN]
  /\ cancelled \in [Workers -> BOOLEAN]
  /\ faults \in Nat
  /\ seen \subseteq DisturbanceKind

Init ==
  /\ QueueInit
  /\ status = [j \in Jobs |-> "pending"]
  /\ rows = [j \in Jobs |-> {}]
  /\ objects = [j \in Jobs |-> {}]
  /\ announced = [j \in Jobs |-> {}]
  /\ pc = [w \in Workers |-> "idle"]
  /\ job = [w \in Workers |-> NoJob]
  /\ attempt = [w \in Workers |-> 0]
  /\ done = [w \in Workers |-> 0]
  /\ err = [w \in Workers |-> "none"]
  /\ connected = [w \in Workers |-> TRUE]
  /\ cancelled = [w \in Workers |-> FALSE]
  /\ faults = 0
  /\ seen = {}

----
(***************************************************************************)
(* Outcomes of a call to Postgres or the object store                      *)
(***************************************************************************)

Disturb(kind) ==
  /\ kind \in Disturbances
  /\ faults < MaxFaults
  /\ faults' = faults + 1
  /\ seen' = seen \cup {kind}

\* The context is live and the call succeeds.
CallWorks(w) == ~cancelled[w] /\ UNCHANGED faultVars

\* The call returns an error: under a cancelled context every call does.  It
\* had no effect, or took effect and its answer was lost (also to a SIGTERM
\* that arrives during the call).
CallFails(w) ==
  \/ cancelled[w] /\ UNCHANGED faultVars
  \/ ~cancelled[w] /\ Disturb("call")

Goto(w, step) == pc' = [pc EXCEPT ![w] = step]

\* Mutant of Raise: every error is wrapped as permanent.
RaisePermanent(w, kind) ==
  /\ err' = [err EXCEPT ![w] = "permanent"]
  /\ Goto(w, "fail")
  /\ UNCHANGED <<job, attempt, done>>

Raise(w, kind) ==
  /\ err' = [err EXCEPT ![w] = kind]
  /\ Goto(w, "fail")
  /\ UNCHANGED <<job, attempt, done>>

SetStatus(j, s) == status' = [status EXCEPT ![j] = s]

Event(w, s) ==
  announced' = IF connected[w]
                 THEN [announced EXCEPT ![job[w]] = @ \cup {s}]
                 ELSE announced

\* Mutant of LoopStep: the loop stops one result early.
LoopStepShort(w, n) == IF n + 1 < Len(Results[job[w]]) THEN "put" ELSE "finalize"

\* After `n` results: the next one, or the end of the loop.
LoopStep(w, n) == IF n < Len(Results[job[w]]) THEN "put" ELSE "finalize"

----
(***************************************************************************)
(* The consume loop                                                        *)
(***************************************************************************)

Deliver(w) ==
  /\ connected[w]
  /\ \E j \in Jobs : Push(w, j)
  /\ UNCHANGED <<storeVars, pc, handlerVars, processVars, faultVars>>

\* Mutant of Take: a body that does not parse is acked and forgotten.
TakeForgets(w) ==
  /\ pc[w] = "idle"
  /\ \E j \in Held(w) :
       /\ job' = [job EXCEPT ![w] = j]
       /\ attempt' = [attempt EXCEPT ![w] = AttemptOf(j)]
       /\ Goto(w, IF j \in Unreadable THEN "settle" ELSE "check")
       /\ err' = [err EXCEPT ![w] = "none"]
       /\ done' = [done EXCEPT ![w] = 0]
  /\ UNCHANGED <<queueVars, storeVars, processVars, faultVars>>

\* select picks a buffered delivery.  It may do so after SIGTERM too: both
\* cases of the select are ready then.  A body that does not parse goes
\* straight to the parking lot.
Take(w) ==
  /\ pc[w] = "idle"
  /\ \E j \in Held(w) :
       /\ job' = [job EXCEPT ![w] = j]
       /\ attempt' = [attempt EXCEPT ![w] = AttemptOf(j)]
       /\ IF j \in Unreadable
            THEN Goto(w, "settle") /\ err' = [err EXCEPT ![w] = "permanent"]
            ELSE Goto(w, "check") /\ err' = [err EXCEPT ![w] = "none"]
       /\ done' = [done EXCEPT ![w] = 0]
  /\ UNCHANGED <<queueVars, storeVars, processVars, faultVars>>

----
(***************************************************************************)
(* The handler                                                             *)
(***************************************************************************)

\* Mutant of Check: skips every job in a terminal state.
CheckSkipsFailed(w) ==
  /\ pc[w] = "check"
  /\ \/ /\ CallWorks(w) /\ status[job[w]] \in {"completed", "failed"}
        /\ Goto(w, "settle")
     \/ /\ CallWorks(w) /\ status[job[w]] \notin {"completed", "failed"}
        /\ Goto(w, "mark")
     \/ CallFails(w) /\ Goto(w, "mark")
  /\ UNCHANGED <<queueVars, storeVars, handlerVars, processVars>>

\* Mutant of Check: no idempotency check.
CheckNothing(w) ==
  /\ pc[w] = "check"
  /\ Goto(w, "mark")
  /\ UNCHANGED <<queueVars, storeVars, handlerVars, processVars, faultVars>>

\* db.Status: a completed job is skipped (the handler returns nil).  When
\* the read fails the job is not skipped.
Check(w) ==
  /\ pc[w] = "check"
  /\ \/ CallWorks(w) /\ status[job[w]] = "completed" /\ Goto(w, "settle")
     \/ CallWorks(w) /\ status[job[w]] # "completed" /\ Goto(w, "mark")
     \/ CallFails(w) /\ Goto(w, "mark")
  /\ UNCHANGED <<queueVars, storeVars, handlerVars, processVars>>

\* db.SetStatus(processing), whose error is ignored.
Mark(w) ==
  /\ pc[w] = "mark"
  /\ \/ CallWorks(w) /\ SetStatus(job[w], "processing")
     \/ CallFails(w) /\ UNCHANGED status
  /\ Goto(w, "fetch")
  /\ UNCHANGED <<queueVars, rows, objects, announced, handlerVars, processVars>>

\* objects.Get, then proc.Process on the bytes: a pure function whose error
\* is permanent.
Fetch(w) ==
  /\ pc[w] = "fetch"
  /\ \/ CallWorks(w) /\ job[w] \in Undecodable /\ Raise(w, "permanent")
     \/ /\ CallWorks(w) /\ job[w] \notin Undecodable
        /\ Goto(w, LoopStep(w, 0))
        /\ UNCHANGED handlerVars
     \/ CallFails(w) /\ Raise(w, "transient")
  /\ UNCHANGED <<queueVars, storeVars, processVars>>

\* The result of this iteration of the loop.
Current(w) == Results[job[w]][done[w] + 1]

StoreObject(w) ==
  objects' = [objects EXCEPT ![job[w]] = @ \cup {Current(w)}]

\* Mutant of Put: the error of the upload is ignored.
PutUnchecked(w) ==
  /\ pc[w] = "put"
  /\ \/ CallWorks(w) /\ StoreObject(w)
     \/ CallFails(w) /\ (UNCHANGED objects \/ StoreObject(w))
  /\ Goto(w, "record")
  /\ UNCHANGED <<queueVars, status, rows, announced, handlerVars, processVars>>

\* objects.Put of the result at the key artifacts/<job>/<name>.
Put(w) ==
  /\ pc[w] = "put"
  /\ \/ CallWorks(w) /\ StoreObject(w) /\ Goto(w, "record") /\ UNCHANGED handlerVars
     \/ CallFails(w) /\ (UNCHANGED objects \/ StoreObject(w)) /\ Raise(w, "transient")
  /\ UNCHANGED <<queueVars, status, rows, announced, processVars>>

AddArtifact(w) == rows' = [rows EXCEPT ![job[w]] = @ \cup {Current(w)}]

\* db.AddArtifact: an upsert on (job_id, name).
Record(w) ==
  /\ pc[w] = "record"
  /\ \/ /\ CallWorks(w)
        /\ AddArtifact(w)
        /\ done' = [done EXCEPT ![w] = @ + 1]
        /\ Goto(w, LoopStep(w, done[w] + 1))
        /\ UNCHANGED <<job, attempt, err>>
     \/ CallFails(w) /\ (UNCHANGED rows \/ AddArtifact(w)) /\ Raise(w, "transient")
  /\ UNCHANGED <<queueVars, status, objects, announced, processVars>>

\* db.SetStatus(completed), whose error fails the attempt.
Finalize(w) ==
  /\ pc[w] = "finalize"
  /\ \/ /\ CallWorks(w)
        /\ SetStatus(job[w], "completed")
        /\ Goto(w, "announce")
        /\ UNCHANGED handlerVars
     \/ CallFails(w) /\ (UNCHANGED status \/ SetStatus(job[w], "completed")) /\ Raise(w, "transient")
  /\ UNCHANGED <<queueVars, rows, objects, announced, processVars>>

\* bus.PublishEvent(completed), whose error is ignored.
Announce(w) ==
  /\ pc[w] = "announce"
  /\ Event(w, "completed")
  /\ Goto(w, "settle")
  /\ UNCHANGED <<queueVars, status, rows, objects, handlerVars, processVars, faultVars>>

\* fail: db.SetStatus(failed), whose error is ignored ...
Fail(w) ==
  /\ pc[w] = "fail"
  /\ \/ CallWorks(w) /\ SetStatus(job[w], "failed")
     \/ CallFails(w) /\ UNCHANGED status
  /\ Goto(w, "tell")
  /\ UNCHANGED <<queueVars, rows, objects, announced, handlerVars, processVars>>

\* ... and bus.PublishEvent(failed).
Tell(w) ==
  /\ pc[w] = "tell"
  /\ Event(w, "failed")
  /\ Goto(w, "settle")
  /\ UNCHANGED <<queueVars, status, rows, objects, handlerVars, processVars, faultVars>>

----
(***************************************************************************)
(* What the broker adapter does with the handler's error                   *)
(***************************************************************************)

MustPark(w) == err[w] # "none" /\ GivesUp(err[w] = "permanent", attempt[w])

MustRetry(w) == err[w] # "none" /\ ~MustPark(w)

\* An operation on the channel: a no-op that errs when the channel is gone.
OnChannel(w, Operation) == IF connected[w] THEN Operation ELSE UNCHANGED queueVars

\* Back in the select.  A worker whose channel is gone finds the delivery
\* channel closed and exits; it is restarted with a new connection.
BackToLoop(w) ==
  /\ Goto(w, "idle")
  /\ job' = [job EXCEPT ![w] = NoJob]
  /\ attempt' = [attempt EXCEPT ![w] = 0]
  /\ done' = [done EXCEPT ![w] = 0]
  /\ err' = [err EXCEPT ![w] = "none"]
  /\ connected' = [connected EXCEPT ![w] = TRUE]
  /\ cancelled' = [cancelled EXCEPT ![w] = @ /\ connected[w]]

\* b.park, whose error is ignored.
Park(w) ==
  /\ pc[w] = "settle" /\ MustPark(w)
  /\ OnChannel(w, ParkMessage(job[w]))
  /\ Goto(w, "ack")
  /\ UNCHANGED <<storeVars, handlerVars, processVars, faultVars>>

Ack(w) ==
  /\ \/ pc[w] = "settle" /\ err[w] = "none"
     \/ pc[w] = "ack"
  /\ OnChannel(w, AckMessage(job[w]))
  /\ BackToLoop(w)
  /\ UNCHANGED <<storeVars, faultVars>>

Nack(w) ==
  /\ pc[w] = "settle" /\ MustRetry(w)
  /\ OnChannel(w, NackMessage(job[w]))
  /\ BackToLoop(w)
  /\ UNCHANGED <<storeVars, faultVars>>

----
(***************************************************************************)
(* The process and its connection                                          *)
(***************************************************************************)

\* The connection drops: the broker requeues what the channel held, the
\* client drops what it had buffered.  An idle worker exits and is
\* restarted; a busy one knows nothing before its handler returns.
ConnectionLost(w) ==
  /\ connected[w]
  /\ Disturb("connection")
  /\ Requeue(w)
  /\ connected' = [connected EXCEPT ![w] = pc[w] = "idle"]
  /\ cancelled' = [cancelled EXCEPT ![w] = @ /\ pc[w] # "idle"]
  /\ UNCHANGED <<storeVars, pc, handlerVars>>

\* The process dies and is restarted.
Crash(w) ==
  /\ Disturb("crash")
  /\ Requeue(w)
  /\ Goto(w, "idle")
  /\ job' = [job EXCEPT ![w] = NoJob]
  /\ attempt' = [attempt EXCEPT ![w] = 0]
  /\ done' = [done EXCEPT ![w] = 0]
  /\ err' = [err EXCEPT ![w] = "none"]
  /\ connected' = [connected EXCEPT ![w] = TRUE]
  /\ cancelled' = [cancelled EXCEPT ![w] = FALSE]
  /\ UNCHANGED storeVars

\* SIGTERM cancels the context the handler passes to every call.
Sigterm(w) ==
  /\ ~cancelled[w]
  /\ Disturb("sigterm")
  /\ cancelled' = [cancelled EXCEPT ![w] = TRUE]
  /\ UNCHANGED <<queueVars, storeVars, pc, handlerVars, connected>>

\* select picks ctx.Done: main closes the connection and returns.
Exit(w) ==
  /\ pc[w] = "idle" /\ cancelled[w]
  /\ Requeue(w)
  /\ cancelled' = [cancelled EXCEPT ![w] = FALSE]
  /\ UNCHANGED <<storeVars, pc, handlerVars, connected, faultVars>>

Expire(j) ==
  /\ ExpireRetry(j)
  /\ UNCHANGED <<storeVars, pc, handlerVars, processVars, faultVars>>

\* Every message has left the queue and every worker waits.
Drained ==
  /\ \A j \in Jobs : at[j] = "acked"
  /\ \A w \in Workers : pc[w] = "idle" /\ ~cancelled[w]
  /\ UNCHANGED vars

Handle(w) ==
  \/ Check(w) \/ Mark(w) \/ Fetch(w) \/ Put(w) \/ Record(w) \/ Finalize(w)
  \/ Announce(w) \/ Fail(w) \/ Tell(w) \/ Park(w) \/ Ack(w) \/ Nack(w)

Next ==
  \/ \E w \in Workers :
       \/ Deliver(w) \/ Take(w) \/ Handle(w)
       \/ ConnectionLost(w) \/ Crash(w) \/ Sigterm(w) \/ Exit(w)
  \/ \E j \in Jobs : Expire(j)
  \/ Drained

\* Every call returns, the select takes what is ready, the broker pushes
\* ready messages to consumers with credit and runs the TTL.  Disturbances
\* are never owed.
Fairness ==
  /\ \A w \in Workers :
       /\ WF_vars(Deliver(w))
       /\ WF_vars(Take(w))
       /\ WF_vars(Handle(w))
       /\ WF_vars(Exit(w))
  /\ \A j \in Jobs : WF_vars(Expire(j))

Spec == Init /\ [][Next]_vars

FairSpec == Spec /\ Fairness

----
(***************************************************************************)
(* Properties                                                              *)
(***************************************************************************)

\* Every variant of the job has its artifact row.
Complete(j) == \A k \in 1..Len(Results[j]) : Results[j][k] \in rows[j]

\* A message leaves the work queue for good only with its artifacts recorded
\* or a copy in the parking lot, whatever fails, drops or restarts between
\* the handler's calls, the park and the ack.
NothingLost ==
  \A j \in Jobs : at[j] = "acked" => Complete(j) \/ parked[j] > 0

\* The retry loop is bounded: a job is dead-lettered fewer than MaxRetries
\* times, even when a stale handler and the current one both fail.
RetriesBounded ==
  \A j \in Jobs : deaths[j] = 0 \/ deaths[j] < MaxRetries

\* A job is parked for a permanent error or after its last attempt, never
\* earlier.
ParkedForCause ==
  \A j \in Jobs : parked[j] > 0 =>
    j \in Undecodable \cup Unreadable \/ AttemptOf(j) >= MaxRetries

\* Whoever reads `completed` in the row or hears it on media.events finds
\* every artifact, also while a second handler works on the same job.
CompletedHasArtifacts ==
  \A j \in Jobs :
    status[j] = "completed" \/ "completed" \in announced[j] => Complete(j)

\* A row of artifacts names a stored object: the link the API signs from it
\* leads somewhere.
NoDanglingArtifact == \A j \in Jobs : rows[j] \subseteq objects[j]

\* A worker that still has its channel handles a message the broker holds
\* for that channel: its ack or nack settles the job in hand and no other,
\* and two such workers never handle the same job.
HandlerHoldsMessage ==
  \A w \in Workers : connected[w] /\ pc[w] # "idle" =>
    at[job[w]] = "unacked" /\ holder[job[w]] = w

\* A completed job is never taken back: what docs/architecture.md promises
\* of the idempotency check.
CompletedIsFinal ==
  [][\A j \in Jobs : status[j] = "completed" => status'[j] = "completed"]_vars

\* The idempotency check makes restarts harmless: as long as workers only
\* crash or are told to stop, every job goes through its life in order,
\* wherever in its handler the process ends.  A completed one stays so, none
\* fails or completes that nobody works on, although every write of a status
\* is unconditional and its error may be dropped.
RestartsKeepOrder ==
  [][seen' \subseteq {"crash", "sigterm"} =>
       \A j \in Jobs : status'[j] # status[j] => <<status[j], status'[j]>> \in Lifecycle]_vars

\* What the retry loop is for: a job with a good source ends up completed
\* and stays so when fewer calls fail and processes die than it has attempts.
SurvivesFewFaults ==
  [](faults < MaxRetries /\ seen \subseteq {"call", "crash"}) =>
    \A j \in Jobs \ (Undecodable \cup Unreadable) :
      <>[](status[j] = "completed" /\ parked[j] = 0)

\* The workers implement the contract of JobContract: a message on its way
\* is an open job, its x-death count the number of retries.
Contract == INSTANCE JobContract WITH
  Hopeless <- Undecodable \cup Unreadable,
  Effortless <- {j \in Jobs : Len(Results[j]) = 0},
  open <- {j \in Jobs : at[j] # "acked"},
  stored <- {j \in Jobs : Complete(j)},
  givenUp <- {j \in Jobs : parked[j] > 0},
  retries <- deaths

\* Bounded, at-least-once processing: a message is retried fewer than
\* MaxRetries times, parked only for a cause, leaves the queue only with its
\* output or a parked copy, and leaves it in the end.
ImplementsContract == Contract!Spec

----
(***************************************************************************)
(* The inductive invariant behind the safety properties                    *)
(***************************************************************************)

Busy(w) == pc[w] # "idle"

\* A message is unacked exactly on some worker's channel.
HeldIsUnacked == \A j \in Jobs : holder[j] # Nobody <=> at[j] = "unacked"

\* A worker has a job exactly while it is busy, and only a busy one can be
\* without its channel.
BusyHasJob ==
  \A w \in Workers :
    /\ Busy(w) <=> job[w] # NoJob
    /\ ~Busy(w) => connected[w]

\* While the channel holds, nobody else can have dead-lettered the message.
AttemptIsCurrent ==
  \A w \in Workers : connected[w] /\ Busy(w) => attempt[w] = AttemptOf(job[w])

\* How far the handler of a busy worker has got: the first done[w] results
\* have their rows, the one to record its object, and a handler that returns
\* nil has all of them.
Progressed(w) ==
  /\ pc[w] \in {"check", "mark", "fetch"} => done[w] = 0
  /\ pc[w] \in {"put", "record", "finalize"} =>
       \A k \in 1..Len(Results[job[w]]) :
         k <= done[w] => Results[job[w]][k] \in rows[job[w]]
  /\ pc[w] \in {"put", "record"} => done[w] < Len(Results[job[w]])
  /\ pc[w] = "record" => Current(w) \in objects[job[w]]
  /\ pc[w] = "finalize" => done[w] >= Len(Results[job[w]])
  /\ pc[w] = "announce" \/ (pc[w] = "settle" /\ err[w] = "none") =>
       Complete(job[w])

\* Why the handler of a busy worker fails: a permanent error comes from the
\* message or its source, and the ack of a job given up follows its copy to
\* the parking lot.
Excused(w) ==
  /\ pc[w] # "idle" /\ err[w] = "permanent" => job[w] \in Undecodable \cup Unreadable
  /\ pc[w] \in {"fail", "tell", "ack"} => err[w] # "none"
  /\ pc[w] = "ack" /\ connected[w] => parked[job[w]] > 0

\* Who handles what, and what the broker knows of it.
Ownership ==
  HeldIsUnacked /\ BusyHasJob /\ HandlerHoldsMessage /\ AttemptIsCurrent

\* What the stores hold, and how far each handler has got.
Progress ==
  /\ NoDanglingArtifact
  /\ CompletedHasArtifacts
  /\ \A w \in Workers : Progressed(w)

\* How messages leave the queue.
Settlement ==
  /\ RetriesBounded
  /\ ParkedForCause
  /\ NothingLost
  /\ \A w \in Workers : Excused(w)

\* The inductive invariant: it implies every safety property above.
IInv == TypeOK /\ Ownership /\ Progress /\ Settlement

====
