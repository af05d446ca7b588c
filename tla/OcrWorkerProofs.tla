---- MODULE OcrWorkerProofs ----
(***************************************************************************)
(* Proofs about OcrWorker, for every value of its constants.               *)
(*                                                                         *)
(* The steps fall into three kinds.  A handler that computes (Computes)    *)
(* touches the stores, its pc and its err and leaves the queue alone       *)
(* (ComputeFrame); one that settles its message, and the broker, touch the *)
(* queue and leave the stores alone (QueueFrame).  So each part of IInv is *)
(* preserved for a reason of its own:                                      *)
(*   OwnershipStep  only the steps on the queue matter;                    *)
(*   ProgressStep   rows and objects only grow, and copies in the parking  *)
(*                  lot too (Grows), so a handler that a step does not     *)
(*                  move keeps its progress;                               *)
(*   the bounds     the fate of a message changes only by the worker that  *)
(*                  holds it, on its own channel (Settles).                *)
(***************************************************************************)
EXTENDS OcrWorker, TLAPS

\* A handler between the delivery and the settlement of its message.
Computes(w) ==
  \/ Check(w) \/ Mark(w) \/ EmitProgress(w) \/ Fetch(w) \/ Extract(w) \/ Put(w)
  \/ Record(w) \/ Finalize(w) \/ Announce(w) \/ Fail(w) \/ Tell(w)

\* A disturbance is counted.
LEMMA DisturbType ==
  ASSUME TypeOK, NEW kind, Disturb(kind)
  PROVE  faults' \in Nat /\ seen' \subseteq DisturbanceKind
  BY OcrAssumption DEF Disturb, TypeOK

\* What a computing handler moves: its own pc and err.
LEMMA ComputeFrame ==
  ASSUME TypeOK, NEW w \in Workers, Computes(w)
  PROVE  /\ UNCHANGED <<queueVars, handlerVars, channel>>
         /\ Busy(w)
         /\ \E step \in Step \ {"idle", "ack"} : pc' = [pc EXCEPT ![w] = step]
         /\ \E e \in {"none", "transient", "permanent"} : err' = [err EXCEPT ![w] = e]
<1> USE DEF Step, AfterEvent, Goto, Raise, Call, Busy, TypeOK
<1>1. CASE Check(w)
  BY <1>1 DEF Check
<1>2. CASE Mark(w)
  BY <1>2 DEF Mark
<1>3. CASE EmitProgress(w)
  BY <1>3 DEF EmitProgress
<1>4. CASE Fetch(w)
  BY <1>4 DEF Fetch
<1>5. CASE Extract(w)
  BY <1>5 DEF Extract
<1>6. CASE Put(w)
  BY <1>6 DEF Put
<1>7. CASE Record(w)
  BY <1>7 DEF Record
<1>8. CASE Finalize(w)
  BY <1>8 DEF Finalize
<1>9. CASE Announce(w)
  BY <1>9 DEF Announce
<1>10. CASE Fail(w)
  BY <1>10 DEF Fail
<1>11. CASE Tell(w)
  BY <1>11 DEF Tell
<1>12. QED
  BY <1>1, <1>2, <1>3, <1>4, <1>5, <1>6, <1>7, <1>8, <1>9, <1>10, <1>11 DEF Computes

\* A busy worker has one of the jobs in hand.
LEMMA BusyJob ==
  ASSUME IInv, NEW w \in Workers, Busy(w)
  PROVE  job[w] \in Jobs
  BY DEF IInv, TypeOK, Ownership

\* What a computing handler does to the stores: rows and objects only grow.
LEMMA ComputeStores ==
  ASSUME IInv, NEW w \in Workers, Computes(w)
  PROVE  /\ status' \in [Jobs -> Status]
         /\ recorded \subseteq recorded' /\ recorded' \subseteq Jobs
         /\ stored \subseteq stored' /\ stored' \subseteq Jobs
         /\ announced' \in [Jobs -> SUBSET {"completed", "failed"}]
         /\ faults' \in Nat /\ seen' \subseteq DisturbanceKind
<1>1. job[w] \in Jobs /\ TypeOK
  BY BusyJob, ComputeFrame DEF IInv
<1> USE <1>1, DisturbType DEF Status, Call, storeVars, faultVars, TypeOK
<1>2. CASE Check(w)
  BY <1>2 DEF Check
<1>3. CASE Mark(w)
  BY <1>3 DEF Mark, SetStatus
<1>4. CASE EmitProgress(w) \/ Extract(w)
  BY <1>4 DEF EmitProgress, Extract
<1>5. CASE Fetch(w)
  BY <1>5 DEF Fetch
<1>6. CASE Put(w)
  BY <1>6 DEF Put, StoreText
<1>7. CASE Record(w)
  BY <1>7 DEF Record, RecordText
<1>8. CASE Finalize(w)
  BY <1>8 DEF Finalize, SetStatus
<1>9. CASE Announce(w)
  BY <1>9 DEF Announce, Event
<1>10. CASE Fail(w)
  BY <1>10 DEF Fail, SetStatus
<1>11. CASE Tell(w)
  BY <1>11 DEF Tell, Event
<1>12. QED
  BY <1>2, <1>3, <1>4, <1>5, <1>6, <1>7, <1>8, <1>9, <1>10, <1>11, ComputeFrame DEF Computes

\* The other steps of a worker and of the broker.
Settles(w) == Park(w) \/ Ack(w) \/ Nack(w) \/ Abandon(w)

\* The kinds of steps, to split on.
LEMMA Steps ==
  ASSUME [Next]_vars
  PROVE  \/ \E w \in Workers :
              \/ Computes(w) \/ Settles(w)
              \/ Deliver(w) \/ Take(w) \/ ConnectionLost(w) \/ Sigterm(w) \/ Crash(w)
         \/ \E j \in Jobs : Expire(j)
         \/ UNCHANGED vars
  BY DEF Next, Handle, Computes, Settles, Drained

\* They leave the stores alone.
LEMMA QueueFrame ==
  ASSUME NEW w \in Workers,
         Settles(w) \/ Deliver(w) \/ Take(w) \/ ConnectionLost(w) \/ Sigterm(w) \/ Crash(w)
  PROVE  UNCHANGED storeVars
  BY DEF Settles, Park, Ack, Nack, Abandon, Deliver, Take, ConnectionLost, Sigterm, Crash,
         EndChannel, storeVars

\* Every step preserves the types.
LEMMA TypeStep == IInv /\ [Next]_vars => TypeOK'
<1> SUFFICES ASSUME IInv, [Next]_vars PROVE TypeOK'
  OBVIOUS
<1>1. ASSUME NEW w \in Workers, Computes(w) PROVE TypeOK'
  BY <1>1, ComputeFrame, ComputeStores
  DEF IInv, TypeOK, QueueTypeOK, queueVars, handlerVars, Step
<1> USE DEF IInv, TypeOK, QueueTypeOK, Place, storeVars, handlerVars, faultVars
<1>2. ASSUME NEW w \in Workers, Deliver(w) PROVE TypeOK'
  BY <1>2 DEF Deliver, Push
<1>3. ASSUME NEW w \in Workers, Take(w) PROVE TypeOK'
  BY <1>3 DEF Take, Held, AttemptOf, Goto, queueVars, Step
<1>4. ASSUME NEW w \in Workers, Settles(w) PROVE TypeOK'
  <2>1. Busy(w) /\ job[w] \in Jobs
    BY <1>4, BusyJob DEF Settles, Park, Ack, Nack, Abandon, Busy
  <2>2. CASE Park(w)
    BY <2>1, <2>2 DEF Park, ParkMessage, Goto, Step
  <2>3. CASE Ack(w)
    BY <2>1, <2>3 DEF Ack, AckMessage, Reset, Goto, Step
  <2>4. CASE Nack(w)
    BY <2>1, <2>4 DEF Nack, NackMessage, Reset, Goto, Step
  <2>5. CASE Abandon(w)
    BY <2>5 DEF Abandon, Reset, Goto, queueVars, Step
  <2>6. QED
    BY <1>4, <2>2, <2>3, <2>4, <2>5 DEF Settles
<1>5. ASSUME NEW w \in Workers, ConnectionLost(w) \/ Sigterm(w) PROVE TypeOK'
  BY <1>5, DisturbType DEF ConnectionLost, Sigterm, EndChannel, Requeue
<1>6. ASSUME NEW w \in Workers, Crash(w) PROVE TypeOK'
  BY <1>6, DisturbType DEF Crash, Requeue, Reset, Goto, Step
<1>7. ASSUME NEW j \in Jobs, Expire(j) PROVE TypeOK'
  BY <1>7 DEF Expire, ExpireRetry
<1>8. CASE UNCHANGED vars
  BY <1>8 DEF vars, queueVars
<1>9. QED
  BY <1>1, <1>2, <1>3, <1>4, <1>5, <1>6, <1>7, <1>8, Steps

\* Every step keeps handlers and broker in agreement.
LEMMA OwnershipStep == IInv /\ [Next]_vars => Ownership'
<1> SUFFICES ASSUME IInv, [Next]_vars PROVE Ownership'
  OBVIOUS
<1> USE QueueAssumption, OcrAssumption
    DEF IInv, TypeOK, QueueTypeOK, Place, Ownership, Busy, AttemptOf, Goto
<1>1. ASSUME NEW w \in Workers, Computes(w) PROVE Ownership'
  BY <1>1, ComputeFrame DEF queueVars, handlerVars, Step
<1>2. ASSUME NEW w \in Workers, Deliver(w) PROVE Ownership'
  BY <1>2 DEF Deliver, Push, handlerVars
<1>3. ASSUME NEW w \in Workers, Take(w) PROVE Ownership'
  BY <1>3 DEF Take, Held, queueVars
<1>4. ASSUME NEW w \in Workers, Park(w) PROVE Ownership'
  BY <1>4 DEF Park, ParkMessage, handlerVars
<1>5. ASSUME NEW w \in Workers, Ack(w) PROVE Ownership'
  BY <1>5 DEF Ack, AckMessage, Reset
<1>6. ASSUME NEW w \in Workers, Nack(w) PROVE Ownership'
  BY <1>6 DEF Nack, NackMessage, Reset
<1>7. ASSUME NEW w \in Workers, Abandon(w) PROVE Ownership'
  BY <1>7 DEF Abandon, Reset, queueVars
<1>8. ASSUME NEW w \in Workers, ConnectionLost(w) \/ Sigterm(w) PROVE Ownership'
  BY <1>8 DEF ConnectionLost, Sigterm, EndChannel, Requeue, handlerVars
<1>9. ASSUME NEW w \in Workers, Crash(w) PROVE Ownership'
  BY <1>9 DEF Crash, Requeue, Reset
<1>10. ASSUME NEW j \in Jobs, Expire(j) PROVE Ownership'
  BY <1>10 DEF Expire, ExpireRetry, handlerVars
<1>11. CASE UNCHANGED vars
  BY <1>11 DEF vars, queueVars, handlerVars
<1>12. QED
  BY <1>1, <1>2, <1>3, <1>4, <1>5, <1>6, <1>7, <1>8, <1>9, <1>10, <1>11, Steps DEF Settles

\* Whoever reads or hears `completed` finds the text: only a handler past the
\* upsert says so.
LEMMA CompletedStep == IInv /\ [Next]_vars => CompletedHasText'
<1> SUFFICES ASSUME IInv, [Next]_vars PROVE CompletedHasText'
  OBVIOUS
<1>1. ASSUME NEW w \in Workers, Computes(w) PROVE CompletedHasText'
  <2>1. job[w] \in Jobs /\ Progressed(w) /\ TypeOK /\ CompletedHasText
    BY <1>1, BusyJob, ComputeFrame DEF IInv
  <2>2. recorded \subseteq recorded' /\ stored \subseteq stored'
    BY <1>1, ComputeStores
  <2> USE <2>1, <2>2 DEF Call, storeVars, TypeOK, CompletedHasText, Progressed
  <2>3. CASE Check(w) \/ EmitProgress(w) \/ Fetch(w) \/ Extract(w)
    BY <2>3 DEF Check, EmitProgress, Fetch, Extract
  <2>4. CASE Mark(w) \/ Fail(w)
    BY <2>4 DEF Mark, Fail, SetStatus
  <2>5. CASE Put(w)
    BY <2>5 DEF Put
  <2>6. CASE Record(w)
    BY <2>6 DEF Record, RecordText
  <2>7. CASE Finalize(w)
    BY <2>7 DEF Finalize, SetStatus
  <2>8. CASE Announce(w)
    BY <2>8 DEF Announce, Event
  <2>9. CASE Tell(w)
    BY <2>9 DEF Tell, Event
  <2>10. QED
    BY <1>1, <2>3, <2>4, <2>5, <2>6, <2>7, <2>8, <2>9 DEF Computes
<1>2. CASE UNCHANGED storeVars
  BY <1>2 DEF IInv, CompletedHasText, storeVars
<1>3. QED
  BY <1>1, <1>2, Steps, QueueFrame DEF vars, Expire

\* Rows, objects and copies in the parking lot stay; deaths only count up.
LEMMA Grows ==
  ASSUME IInv, [Next]_vars
  PROVE  /\ recorded \subseteq recorded' /\ stored \subseteq stored'
         /\ \A j \in Jobs : parked'[j] >= parked[j] /\ deaths'[j] >= deaths[j]
<1>1. recorded \subseteq recorded' /\ stored \subseteq stored'
  BY Steps, ComputeStores, QueueFrame DEF vars, storeVars, Expire
<1> USE DEF IInv, TypeOK, QueueTypeOK
<1>2. ASSUME NEW w \in Workers, Computes(w)
      PROVE  UNCHANGED <<parked, deaths>>
  BY <1>2, ComputeFrame DEF queueVars
<1>3. ASSUME NEW w \in Workers, Settles(w), NEW j \in Jobs
      PROVE  parked'[j] >= parked[j] /\ deaths'[j] >= deaths[j]
  BY <1>3
  DEF Settles, Park, ParkMessage, Ack, AckMessage, Nack, NackMessage, Abandon, queueVars
<1>4. ASSUME NEW w \in Workers,
             Deliver(w) \/ Take(w) \/ ConnectionLost(w) \/ Sigterm(w) \/ Crash(w)
      PROVE  UNCHANGED <<parked, deaths>>
  BY <1>4
  DEF Deliver, Push, Take, ConnectionLost, Sigterm, EndChannel, Crash, Requeue, queueVars
<1>5. ASSUME NEW j \in Jobs, Expire(j) PROVE UNCHANGED <<parked, deaths>>
  BY <1>5 DEF Expire, ExpireRetry
<1>6. QED
  BY <1>1, <1>2, <1>3, <1>4, <1>5, Steps DEF vars, queueVars

\* A computing handler gets further, or notes why it fails.
LEMMA ComputeProgress ==
  ASSUME IInv, NEW w \in Workers, Computes(w)
  PROVE  Progressed(w)'
<1>1. /\ job[w] \in Jobs /\ job' = job /\ TypeOK /\ CompletedHasText
      /\ Progressed(w) /\ recorded \subseteq recorded' /\ stored \subseteq stored'
  BY BusyJob, ComputeFrame, ComputeStores DEF IInv, handlerVars
<1> USE <1>1 DEF Progressed, Busy, Goto, Raise, Call, TypeOK
<1>2. CASE Check(w)
  BY <1>2 DEF Check, CompletedHasText
<1>3. CASE Mark(w)
  BY <1>3 DEF Mark
<1>4. CASE EmitProgress(w)
  BY <1>4 DEF EmitProgress, AfterEvent
<1>5. CASE Fetch(w)
  BY <1>5 DEF Fetch
<1>6. CASE Extract(w)
  BY <1>6 DEF Extract
<1>7. CASE Put(w)
  BY <1>7 DEF Put, StoreText
<1>8. CASE Record(w)
  BY <1>8 DEF Record, RecordText
<1>9. CASE Finalize(w)
  BY <1>9 DEF Finalize
<1>10. CASE Announce(w)
  BY <1>10 DEF Announce
<1>11. CASE Fail(w)
  BY <1>11 DEF Fail
<1>12. CASE Tell(w)
  BY <1>12 DEF Tell
<1>13. QED
  BY <1>2, <1>3, <1>4, <1>5, <1>6, <1>7, <1>8, <1>9, <1>10, <1>11, <1>12 DEF Computes

\* A step that moves another handler, or none, leaves v alone.
Unmoved(v) ==
  /\ pc'[v] = pc[v] /\ job'[v] = job[v] /\ err'[v] = err[v]
  /\ Busy(v) /\ channel'[v] = "open" => channel[v] = "open"

\* What is unmoved keeps its progress, because the stores only grow.
LEMMA UnmovedProgress ==
  ASSUME IInv, [Next]_vars, NEW v \in Workers, Unmoved(v)
  PROVE  Progressed(v)'
<1>1. CASE Busy(v)
  <2>1. Progressed(v) /\ job[v] \in Jobs
    BY <1>1, BusyJob DEF IInv
  <2>2. parked[job[v]] > 0 => parked'[job[v]] > 0
    BY <2>1, Grows, TypeStep DEF IInv, TypeOK, QueueTypeOK
  <2>3. QED
    BY <1>1, <2>1, <2>2, Grows DEF Unmoved, Progressed, Busy
<1>2. CASE ~Busy(v)
  BY <1>2 DEF Unmoved, Progressed, Busy
<1>3. QED
  BY <1>1, <1>2

\* Every handler keeps its progress, whoever takes the step.
LEMMA ProgressStep ==
  ASSUME IInv, [Next]_vars, NEW v \in Workers
  PROVE  Progressed(v)'
<1> USE DEF IInv, TypeOK, Goto
<1>1. ASSUME NEW w \in Workers, Computes(w) PROVE Progressed(v)'
  <2>1. CASE v = w
    BY <1>1, <2>1, ComputeProgress
  <2>2. CASE v # w
    BY <1>1, <2>2, ComputeFrame, UnmovedProgress DEF Unmoved, handlerVars
  <2>3. QED
    BY <2>1, <2>2
<1>2. ASSUME NEW w \in Workers, Take(w) PROVE Progressed(v)'
  <2>1. CASE v = w
    BY <1>2, <2>1, OcrAssumption DEF Take, Progressed
  <2>2. CASE v # w
    BY <1>2, <2>2, UnmovedProgress DEF Take, Unmoved
  <2>3. QED
    BY <2>1, <2>2
<1>3. ASSUME NEW w \in Workers, Park(w) PROVE Progressed(v)'
  <2>1. CASE v = w
    <3>1. job[w] \in Jobs /\ Progressed(w)
      BY <1>3, BusyJob DEF Park, Busy
    <3>2. QED
      BY <1>3, <2>1, <3>1
      DEF Park, ParkMessage, MustPark, handlerVars, Progressed, Busy, QueueTypeOK
  <2>2. CASE v # w
    BY <1>3, <2>2, UnmovedProgress DEF Park, Unmoved, handlerVars
  <2>3. QED
    BY <2>1, <2>2
<1>4. ASSUME NEW w \in Workers, Ack(w) \/ Nack(w) \/ Abandon(w) \/ Crash(w) PROVE Progressed(v)'
  <2>1. CASE v = w
    BY <1>4, <2>1 DEF Ack, Nack, Abandon, Crash, Reset, Progressed, Busy
  <2>2. CASE v # w
    BY <1>4, <2>2, UnmovedProgress DEF Ack, Nack, Abandon, Crash, Reset, Unmoved
  <2>3. QED
    BY <2>1, <2>2
<1>5. ASSUME NEW w \in Workers, Deliver(w) \/ ConnectionLost(w) \/ Sigterm(w) PROVE Progressed(v)'
  BY <1>5, UnmovedProgress
  DEF Deliver, ConnectionLost, Sigterm, EndChannel, Unmoved, handlerVars, Busy
<1>6. ASSUME NEW j \in Jobs, Expire(j) PROVE Progressed(v)'
  BY <1>6, UnmovedProgress DEF Expire, Unmoved, handlerVars
<1>7. CASE UNCHANGED vars
  BY <1>7, UnmovedProgress DEF vars, Unmoved, handlerVars
<1>8. QED
  BY <1>1, <1>2, <1>3, <1>4, <1>5, <1>6, <1>7, Steps DEF Settles

\* What a step on the queue may do to a message: it is dead-lettered, parked
\* or acked only by the worker that holds it, on its own channel.
LEMMA QueueMoves ==
  ASSUME IInv, [Next]_vars, NEW j \in Jobs
  PROVE  /\ deaths'[j] # deaths[j] =>
              /\ \E w \in Workers : Nack(w) /\ job[w] = j
              /\ deaths'[j] = deaths[j] + 1
         /\ parked'[j] # parked[j] => \E w \in Workers : Park(w) /\ job[w] = j
         /\ at'[j] = "acked" /\ at[j] # "acked" => \E w \in Workers : Ack(w) /\ job[w] = j
<1> USE DEF IInv, TypeOK, QueueTypeOK
<1>1. ASSUME NEW w \in Workers, Computes(w) PROVE UNCHANGED queueVars
  BY <1>1, ComputeFrame
<1>2. ASSUME NEW w \in Workers, Settles(w)
      PROVE  \/ UNCHANGED <<at, deaths, parked>>
             \/ Park(w) /\ UNCHANGED <<at, deaths>> /\ (parked'[j] # parked[j] => job[w] = j)
             \/ Ack(w) /\ UNCHANGED <<deaths, parked>> /\ (at'[j] # at[j] => job[w] = j)
             \/ /\ Nack(w) /\ UNCHANGED parked /\ at'[j] \in {at[j], "retry"}
                /\ deaths'[j] # deaths[j] => job[w] = j /\ deaths'[j] = deaths[j] + 1
  BY <1>2
  DEF Settles, Park, ParkMessage, Ack, AckMessage, Nack, NackMessage, Abandon, queueVars
<1>3. ASSUME NEW w \in Workers, Deliver(w) \/ Take(w) \/ ConnectionLost(w) \/ Sigterm(w) \/ Crash(w)
      PROVE  UNCHANGED <<deaths, parked>> /\ (at'[j] = "acked" => at[j] = "acked")
  BY <1>3
  DEF Deliver, Push, Take, ConnectionLost, Sigterm, EndChannel, Crash, Requeue, queueVars
<1>4. ASSUME NEW i \in Jobs, Expire(i)
      PROVE  UNCHANGED <<deaths, parked>> /\ (at'[j] = "acked" => at[j] = "acked")
  BY <1>4 DEF Expire, ExpireRetry
<1>5. QED
  BY <1>1, <1>2, <1>3, <1>4, Steps DEF vars, queueVars

\* A worker on its channel settles the message it was given, at the attempt
\* it was told.
LEMMA OwnMessage ==
  ASSUME IInv, NEW w \in Workers, Park(w) \/ Ack(w) \/ Nack(w)
  PROVE  /\ job[w] \in Jobs /\ Progressed(w)
         /\ holder[job[w]] = w /\ at[job[w]] = "unacked"
         /\ attempt[w] = deaths[job[w]] + 1
<1>1. Busy(w) /\ channel[w] = "open"
  BY DEF Park, Ack, Nack, Busy
<1>2. QED
  BY <1>1, BusyJob, QueueAssumption DEF IInv, Ownership, AttemptOf

\* The retry loop stays bounded, and parking has its cause.
LEMMA RetryStep == IInv /\ [Next]_vars => (RetriesBounded /\ ParkedForCause)'
<1> SUFFICES ASSUME IInv, [Next]_vars, NEW j \in Jobs
             PROVE  /\ deaths'[j] = 0 \/ deaths'[j] < MaxRetries
                    /\ parked'[j] > 0 =>
                         j \in Rejectable \cup Unreadable \/ deaths'[j] + 1 >= MaxRetries
  BY DEF RetriesBounded, ParkedForCause, AttemptOf
<1>1. /\ deaths[j] \in Nat /\ parked[j] \in Nat /\ deaths'[j] \in Nat /\ deaths'[j] >= deaths[j]
      /\ MaxRetries \in Nat
      /\ deaths[j] = 0 \/ deaths[j] < MaxRetries
      /\ parked[j] > 0 => j \in Rejectable \cup Unreadable \/ deaths[j] + 1 >= MaxRetries
  BY Grows, TypeStep, QueueAssumption
  DEF IInv, TypeOK, QueueTypeOK, RetriesBounded, ParkedForCause, AttemptOf
<1>2. ASSUME deaths'[j] # deaths[j] PROVE deaths'[j] < MaxRetries
  <2>1. PICK w \in Workers : Nack(w) /\ job[w] = j
    BY <1>2, QueueMoves
  <2>2. deaths'[j] = attempt[w]
    BY <1>2, <2>1, QueueMoves, OwnMessage
  <2>3. QED
    BY <1>1, <2>1, <2>2 DEF Nack, MustRetry, MustPark, GivesUp
<1>3. ASSUME parked'[j] # parked[j]
      PROVE  j \in Rejectable \cup Unreadable \/ deaths[j] + 1 >= MaxRetries
  <2>1. PICK w \in Workers : Park(w) /\ job[w] = j
    BY <1>3, QueueMoves
  <2>2. attempt[w] = deaths[j] + 1 /\ Progressed(w) /\ Busy(w)
    BY <2>1, OwnMessage DEF Park, Busy
  <2>3. QED
    BY <2>1, <2>2 DEF Park, MustPark, GivesUp, Progressed
<1>4. QED
  BY <1>1, <1>2, <1>3

\* What is acked has its text recorded or a copy in the parking lot.
LEMMA NothingLostStep == IInv /\ [Next]_vars => NothingLost'
<1> SUFFICES ASSUME IInv, [Next]_vars, NEW j \in Jobs, at'[j] = "acked"
             PROVE  j \in recorded' \/ parked'[j] > 0
  BY DEF NothingLost
<1>1. j \in recorded \/ parked[j] > 0
  <2>1. CASE at[j] = "acked"
    BY <2>1 DEF IInv, NothingLost
  <2>2. CASE at[j] # "acked"
    <3>1. PICK w \in Workers : Ack(w) /\ job[w] = j
      BY <2>2, QueueMoves
    <3>2. QED
      BY <3>1, OwnMessage DEF Ack, Progressed
  <2>3. QED
    BY <2>1, <2>2
<1>2. parked[j] \in Nat /\ parked'[j] \in Nat
  BY TypeStep DEF IInv, TypeOK, QueueTypeOK
<1>3. QED
  BY <1>1, <1>2, Grows

\* The initial states satisfy the invariant.
LEMMA InvInit == Init => IInv
<1> SUFFICES ASSUME Init PROVE IInv
  OBVIOUS
<1>1. TypeOK
  BY QueueAssumption, OcrAssumption
  DEF Init, QueueInit, TypeOK, QueueTypeOK, Place, Status, Step
<1>2. Ownership /\ \A w \in Workers : Progressed(w)
  BY DEF Init, QueueInit, Ownership, Busy, Progressed
<1>3. CompletedHasText /\ RetriesBounded /\ ParkedForCause /\ NothingLost
  BY DEF Init, QueueInit, CompletedHasText, RetriesBounded, ParkedForCause, NothingLost
<1>4. QED
  BY <1>1, <1>2, <1>3 DEF IInv

\* Every step preserves it.
LEMMA InvStep == IInv /\ [Next]_vars => IInv'
  BY TypeStep, OwnershipStep, ProgressStep, CompletedStep, RetryStep, NothingLostStep DEF IInv

\* The inductive invariant holds in every state of every instance: whatever
\* Worker.handle raises and wherever SIGTERM or a dead connection cuts it off.
THEOREM Invariance == Spec => []IInv
  BY InvInit, InvStep, PTL DEF Spec

\* No message leaves the queue without its text recorded or a parked copy.
THEOREM NothingIsLost == Spec => []NothingLost
<1>1. IInv => NothingLost
  BY DEF IInv
<1>2. QED
  BY <1>1, Invariance, PTL

\* The retry loop is bounded and parks for a cause only.
THEOREM RetryPolicy == Spec => [](RetriesBounded /\ ParkedForCause)
<1>1. IInv => RetriesBounded /\ ParkedForCause
  BY DEF IInv
<1>2. QED
  BY <1>1, Invariance, PTL

\* A job that reads or was announced completed has its text, and every row
\* its object.
THEOREM CompletedIsComplete == Spec => []CompletedHasText
<1>1. IInv => CompletedHasText
  BY DEF IInv
<1>2. QED
  BY <1>1, Invariance, PTL

----
(***************************************************************************)
(* Crashes leave the lives of the jobs in order.                           *)
(***************************************************************************)

\* Where a handler has marked its job and not yet settled its fate.
Marked == DOMAIN AfterEvent \cup {"fetch", "extract", "put", "record", "finalize", "fail"}

\* As long as workers only crash, no channel outlives its process, and what a
\* handler knows of its job stays true, for nobody else has the message: it is
\* not completed after the check, and processing once it was marked.
OnlyCrashes ==
  seen \subseteq {"crash"} =>
    \A w \in Workers :
      /\ channel[w] = "open"
      /\ pc[w] = "mark" => status[job[w]] # "completed"
      /\ pc[w] \in Marked => status[job[w]] = "processing"

\* Two workers with their channels have different jobs in hand.
LEMMA Exclusive ==
  ASSUME IInv, NEW v \in Workers, NEW w \in Workers, Busy(v), Busy(w),
         channel[v] = "open", channel[w] = "open", job[v] = job[w]
  PROVE  v = w
  BY DEF IInv, Ownership

\* The kinds of disturbance seen are never forgotten.
LEMMA SeenGrows == [Next]_vars => seen \subseteq seen'
<1> SUFFICES ASSUME [Next]_vars PROVE seen \subseteq seen'
  OBVIOUS
<1> USE DEF Disturb, faultVars
<1>1. ASSUME NEW w \in Workers, Computes(w) PROVE seen \subseteq seen'
  BY <1>1
  DEF Computes, Check, Mark, EmitProgress, Fetch, Extract, Put, Record, Finalize, Announce,
      Fail, Tell, Call
<1>2. ASSUME NEW w \in Workers, ~Computes(w),
             Settles(w) \/ Deliver(w) \/ Take(w) \/ ConnectionLost(w) \/ Sigterm(w) \/ Crash(w)
      PROVE  seen \subseteq seen'
  BY <1>2
  DEF Settles, Park, Ack, Nack, Abandon, Deliver, Take, ConnectionLost, Sigterm, Crash
<1>3. QED
  BY <1>1, <1>2, Steps DEF Expire, vars

\* A handler with its channel, undisturbed, moves its own job on in its life,
\* and goes on knowing where it is.
LEMMA ComputeKeeps ==
  ASSUME IInv, OnlyCrashes, NEW w \in Workers, Computes(w), seen' \subseteq {"crash"},
         [Next]_vars
  PROVE  /\ \A j \in Jobs : status'[j] # status[j] => <<status[j], status'[j]>> \in Lifecycle
         /\ \A j \in Jobs : j # job[w] => status'[j] = status[j]
         /\ pc'[w] = "mark" => status'[job[w]] # "completed"
         /\ pc'[w] \in Marked => status'[job[w]] = "processing"
<1>1. /\ job[w] \in Jobs /\ TypeOK /\ channel[w] = "open" /\ seen' \subseteq {"crash"}
      /\ pc[w] = "mark" => status[job[w]] # "completed"
      /\ pc[w] \in Marked => status[job[w]] = "processing"
  BY BusyJob, ComputeFrame, SeenGrows DEF IInv, OnlyCrashes
<1> USE <1>1 DEF Marked, Step, AfterEvent, Call, Disturb, Goto, Raise, storeVars, TypeOK
<1>2. CASE Check(w)
  BY <1>2 DEF Check
<1>3. CASE Mark(w)
  BY <1>3 DEF Mark, SetStatus, Lifecycle, Status
<1>4. CASE EmitProgress(w)
  BY <1>4 DEF EmitProgress
<1>5. CASE Fetch(w)
  BY <1>5 DEF Fetch
<1>6. CASE Extract(w)
  BY <1>6 DEF Extract
<1>7. CASE Put(w)
  BY <1>7 DEF Put
<1>8. CASE Record(w)
  BY <1>8 DEF Record
<1>9. CASE Finalize(w)
  BY <1>9 DEF Finalize, SetStatus, Lifecycle
<1>10. CASE Announce(w)
  BY <1>10 DEF Announce, PublishRaises
<1>11. CASE Fail(w)
  BY <1>11 DEF Fail, SetStatus, Lifecycle
<1>12. CASE Tell(w)
  BY <1>12 DEF Tell
<1>13. QED
  BY <1>2, <1>3, <1>4, <1>5, <1>6, <1>7, <1>8, <1>9, <1>10, <1>11, <1>12 DEF Computes

\* Every step preserves it.
LEMMA OnlyCrashesStep == IInv /\ OnlyCrashes /\ [Next]_vars => OnlyCrashes'
<1> DEFINE Knows(v) ==
      /\ pc[v] = "mark" => status[job[v]] # "completed"
      /\ pc[v] \in Marked => status[job[v]] = "processing"
<1> SUFFICES ASSUME IInv, OnlyCrashes, [Next]_vars, seen' \subseteq {"crash"}, NEW v \in Workers
             PROVE  channel'[v] = "open" /\ Knows(v)'
  BY DEF OnlyCrashes
<1>1. /\ \A w \in Workers : channel[w] = "open" /\ Knows(w)
      /\ TypeOK /\ TypeOK'
  BY SeenGrows, TypeStep DEF OnlyCrashes, IInv
<1>2. ASSUME NEW w \in Workers, Computes(w)
      PROVE  channel'[v] = "open" /\ Knows(v)'
  <2>1. job' = job /\ channel' = channel
    BY <1>2, ComputeFrame DEF IInv, handlerVars
  <2>2. CASE v = w
    BY <1>1, <1>2, <2>1, <2>2, ComputeKeeps
  <2>3. CASE v # w
    <3>1. ASSUME pc'[v] \in Marked \cup {"mark"} PROVE Knows(v)'
      <4>1. pc'[v] = pc[v] /\ Busy(v) /\ Busy(w)
        BY <1>1, <1>2, <2>3, <3>1, ComputeFrame DEF Marked, AfterEvent, Busy, TypeOK
      <4>2. job[v] \in Jobs /\ job[v] # job[w]
        BY <1>1, <2>3, <4>1, BusyJob, Exclusive
      <4>3. status'[job[v]] = status[job[v]]
        BY <1>2, <4>2, ComputeKeeps
      <4>4. QED
        BY <1>1, <2>1, <4>1, <4>3
    <3>2. QED
      BY <1>1, <2>1, <3>1
  <2>4. QED
    BY <2>2, <2>3
<1> USE <1>1 DEF TypeOK, Marked, AfterEvent, Goto
<1>3. ASSUME NEW w \in Workers, Take(w)
      PROVE  channel'[v] = "open" /\ Knows(v)'
  BY <1>3 DEF Take, storeVars
<1>4. ASSUME NEW w \in Workers, Park(w)
      PROVE  channel'[v] = "open" /\ Knows(v)'
  BY <1>4 DEF Park, storeVars, handlerVars
<1>5. ASSUME NEW w \in Workers, Ack(w) \/ Nack(w) \/ Abandon(w) \/ Crash(w)
      PROVE  channel'[v] = "open" /\ Knows(v)'
  BY <1>5 DEF Ack, Nack, Abandon, Crash, Reset, storeVars
<1>6. ASSUME NEW w \in Workers, Deliver(w)
      PROVE  channel'[v] = "open" /\ Knows(v)'
  BY <1>6 DEF Deliver, storeVars, handlerVars
<1>7. ASSUME NEW w \in Workers, ConnectionLost(w) \/ Sigterm(w) PROVE FALSE
  BY <1>7 DEF ConnectionLost, Sigterm, Disturb
<1>8. ASSUME NEW j \in Jobs, Expire(j)
      PROVE  channel'[v] = "open" /\ Knows(v)'
  BY <1>8 DEF Expire, storeVars, handlerVars
<1>9. CASE UNCHANGED vars
  BY <1>9 DEF vars, storeVars, handlerVars
<1>10. QED
  BY <1>2, <1>3, <1>4, <1>5, <1>6, <1>7, <1>8, <1>9, Steps DEF Settles

\* Crashes leave the lives of the jobs in order, wherever they fall.
THEOREM OrderSurvivesCrashes == Spec => CrashesKeepOrder
<1>1. Init => OnlyCrashes
  BY DEF Init, OnlyCrashes, Marked, AfterEvent
<1>2. IInv /\ OnlyCrashes /\ [Next]_vars =>
        [seen' \subseteq {"crash"} =>
           \A j \in Jobs :
             status'[j] # status[j] => <<status[j], status'[j]>> \in Lifecycle]_vars
  <2> SUFFICES ASSUME IInv, OnlyCrashes, [Next]_vars, seen' \subseteq {"crash"},
                      NEW j \in Jobs, status'[j] # status[j]
               PROVE  <<status[j], status'[j]>> \in Lifecycle
    OBVIOUS
  <2>1. ASSUME NEW w \in Workers, Computes(w) PROVE <<status[j], status'[j]>> \in Lifecycle
    BY <2>1, ComputeKeeps
  <2>2. CASE UNCHANGED storeVars
    BY <2>2 DEF storeVars
  <2>3. QED
    BY <2>1, <2>2, Steps, QueueFrame DEF vars, Expire
<1>3. QED
  BY <1>1, <1>2, Invariance, OnlyCrashesStep, PTL DEF Spec, CrashesKeepOrder

----
(***************************************************************************)
(* The workers implement the safety part of JobContract.                   *)
(***************************************************************************)

\* The jobs are open, nothing is stored and nothing retried.
LEMMA ContractInit == Init => Contract!Init
  BY DEF Init, QueueInit, Contract!Init

\* A computing handler stores the output of at most its own job, which is a
\* Store of the contract; it may be that of a job closed by another worker.
LEMMA ComputeRefines ==
  ASSUME IInv, NEW w \in Workers, Computes(w)
  PROVE  (\E j \in Jobs : Contract!Store(j)) \/ UNCHANGED Contract!contractVars
<1>1. job[w] \in Jobs /\ UNCHANGED queueVars
  BY BusyJob, ComputeFrame DEF IInv
<1>2. recorded' \in {recorded, recorded \cup {job[w]}}
  <2> USE DEF Call, storeVars
  <2>1. CASE Record(w)
    BY <2>1 DEF Record, RecordText
  <2>2. CASE ~Record(w)
    BY <2>2
    DEF Computes, Check, Mark, EmitProgress, Fetch, Extract, Put, Finalize, Announce, Fail, Tell
  <2>3. QED
    BY <2>1, <2>2
<1>3. QED
  BY <1>1, <1>2 DEF Contract!Store, Contract!contractVars, queueVars

\* Parking is giving up, dead-lettering a retry, acking a close.
LEMMA SettleRefines ==
  ASSUME IInv, [Next]_vars, NEW w \in Workers, Settles(w), NEW j \in Jobs, j = job[w]
  PROVE  Contract!Next \/ UNCHANGED Contract!contractVars
<1>1. ASSUME Park(w) PROVE Contract!GiveUp(j)
  <2>1. /\ at[j] = "unacked" /\ Progressed(w) /\ TypeOK /\ Busy(w)
        /\ attempt[w] = deaths[j] + 1
    BY <1>1, OwnMessage DEF IInv, Park, Busy
  <2>2. j \in Rejectable \cup Unreadable \/ deaths[j] + 1 >= MaxRetries
    BY <1>1, <2>1 DEF Park, MustPark, GivesUp, Progressed
  <2>3. {k \in Jobs : parked'[k] > 0} = {k \in Jobs : parked[k] > 0} \cup {j}
    BY <1>1, <2>1 DEF Park, ParkMessage, TypeOK, QueueTypeOK
  <2>4. QED
    BY <1>1, <2>1, <2>2, <2>3 DEF Park, ParkMessage, storeVars, Contract!GiveUp
<1>2. ASSUME Ack(w) PROVE Contract!Close(j)
  <2>1. at[j] = "unacked" /\ TypeOK /\ Progressed(w)
    BY <1>2, OwnMessage DEF IInv
  <2>2. QED
    BY <1>2, <2>1
    DEF Ack, AckMessage, Progressed, TypeOK, QueueTypeOK, storeVars, Contract!Close
<1>3. ASSUME Nack(w) PROVE Contract!Retry(j)
  <2>1. at[j] = "unacked" /\ TypeOK /\ attempt[w] = deaths[j] + 1
    BY <1>3, OwnMessage DEF IInv
  <2>2. deaths[j] + 1 < MaxRetries
    BY <1>3, <2>1, QueueAssumption DEF Nack, MustRetry, MustPark, GivesUp, TypeOK, QueueTypeOK
  <2>3. {k \in Jobs : at'[k] # "acked"} = {k \in Jobs : at[k] # "acked"}
    BY <1>3, <2>1 DEF Nack, NackMessage, TypeOK, QueueTypeOK
  <2>4. QED
    BY <1>3, <2>1, <2>2, <2>3 DEF Nack, NackMessage, storeVars, Contract!Retry
<1>4. ASSUME Abandon(w) PROVE UNCHANGED Contract!contractVars
  BY <1>4 DEF Abandon, queueVars, storeVars, Contract!contractVars
<1>5. QED
  BY <1>1, <1>2, <1>3, <1>4 DEF Settles, Contract!Next

\* The rest moves a message between the queue, a channel and the retry queue,
\* which the contract does not tell apart.
LEMMA ContractStep == IInv /\ [Next]_vars => [Contract!Next]_(Contract!contractVars)
<1> SUFFICES ASSUME IInv, [Next]_vars
             PROVE  Contract!Next \/ UNCHANGED Contract!contractVars
  OBVIOUS
<1> USE DEF Contract!contractVars, IInv, TypeOK, QueueTypeOK, storeVars
<1>1. ASSUME NEW w \in Workers, Computes(w)
      PROVE  Contract!Next \/ UNCHANGED Contract!contractVars
  BY <1>1, ComputeRefines DEF Contract!Next
<1>2. ASSUME NEW w \in Workers, Deliver(w) PROVE UNCHANGED Contract!contractVars
  BY <1>2 DEF Deliver, Push
<1>3. ASSUME NEW w \in Workers, Take(w) PROVE UNCHANGED Contract!contractVars
  BY <1>3 DEF Take, queueVars
<1>4. ASSUME NEW w \in Workers, ConnectionLost(w) \/ Sigterm(w) \/ Crash(w)
      PROVE  UNCHANGED Contract!contractVars
  BY <1>4, QueueAssumption
  DEF ConnectionLost, Sigterm, EndChannel, Crash, Requeue, Ownership
<1>5. ASSUME NEW j \in Jobs, Expire(j) PROVE UNCHANGED Contract!contractVars
  BY <1>5 DEF Expire, ExpireRetry
<1>6. CASE UNCHANGED vars
  BY <1>6 DEF vars, queueVars
<1>7. ASSUME NEW w \in Workers, Settles(w)
      PROVE  Contract!Next \/ UNCHANGED Contract!contractVars
  <2>1. job[w] \in Jobs
    BY <1>7, BusyJob DEF Settles, Park, Ack, Nack, Abandon, Busy
  <2>2. PICK j \in Jobs : j = job[w]
    BY <2>1
  <2>3. QED
    BY <1>7, <2>2, SettleRefines
<1>8. QED
  BY <1>1, <1>2, <1>3, <1>4, <1>5, <1>6, <1>7, Steps

\* The safety part of ImplementsContract: bounded, at-least-once processing.
THEOREM ImplementsContractSafely == Spec => Contract!Safety
  BY Invariance, ContractInit, ContractStep, PTL DEF Spec, Contract!Safety

====
