---- MODULE ImageWorkerProofs ----
(***************************************************************************)
(* Proofs about ImageWorker, for every value of its constants: any number  *)
(* of jobs, workers, variants and disturbances.                            *)
(*                                                                         *)
(* The argument has four parts, one per conjunct of IInv, each preserved   *)
(* by every step of Next:                                                  *)
(*   TypeStep        the variables keep their types;                       *)
(*   OwnershipStep   a busy worker with a channel holds its message, so    *)
(*                   nobody else can settle it or change its x-death count *)
(*   ProgressStep    the stores only grow (StoresGrow), so a handler that  *)
(*                   a step does not move keeps its progress, and one that *)
(*                   moves adds to it;                                     *)
(*   SettlementStep  the fate of a message changes only by its own worker  *)
(*                   on its own channel (QueueMoves), which by then has    *)
(*                   the reason for it.                                    *)
(* On top of it, a second invariant for runs in which workers only restart *)
(* (OnlyRestarts), and the simulation of JobContract step by step.         *)
(***************************************************************************)
EXTENDS ImageWorker, TLAPS

\* What ImageAssumption says of the results of a job.
LEMMA ResultsAreVariants ==
  ASSUME NEW j \in Jobs
  PROVE  /\ Len(Results[j]) \in Nat
         /\ \A k \in 1..Len(Results[j]) : Results[j][k] \in Variants
<1>1. Results[j] \in Seq(Variants)
  BY ImageAssumption
<1>2. QED
  BY <1>1

\* The loop goes on or ends.
LEMMA LoopStepType ==
  ASSUME NEW w \in Workers, NEW n
  PROVE  LoopStep(w, n) \in {"put", "finalize"}
  BY DEF LoopStep

\* The result in hand is one of the variants of the job.
LEMMA CurrentType ==
  ASSUME IInv, NEW w \in Workers, pc[w] \in {"put", "record"}
  PROVE  job[w] \in Jobs /\ Current(w) \in Variants
<1>1. job[w] \in Jobs
  BY DEF IInv, TypeOK, Ownership, BusyHasJob, Busy
<1>2. done[w] + 1 \in 1..Len(Results[job[w]])
  BY <1>1, ResultsAreVariants DEF IInv, TypeOK, Progress, Progressed
<1>3. QED
  BY <1>1, <1>2, ResultsAreVariants DEF Current

\* A disturbance is counted.
LEMMA DisturbType ==
  ASSUME TypeOK, NEW kind, Disturb(kind)
  PROVE  faults' \in Nat /\ seen' \subseteq DisturbanceKind
  BY ImageAssumption DEF Disturb, TypeOK

\* Every step preserves the types.
LEMMA TypeStep == IInv /\ [Next]_vars => TypeOK'
<1> SUFFICES ASSUME IInv, [Next]_vars PROVE TypeOK'
  OBVIOUS
<1>1. ASSUME NEW w \in Workers, Deliver(w) PROVE TypeOK'
  BY <1>1
  DEF Deliver, Push, storeVars, handlerVars, processVars, faultVars, IInv,
      TypeOK, QueueTypeOK, Place, Status, Step
<1>2. ASSUME NEW w \in Workers, Take(w) PROVE TypeOK'
  BY <1>2
  DEF Take, Held, AttemptOf, Goto, queueVars, storeVars, processVars, faultVars,
      IInv, TypeOK, QueueTypeOK, Place, Status, Step
<1>3. ASSUME NEW w \in Workers, Check(w) PROVE TypeOK'
  BY <1>3, DisturbType
  DEF Check, CallWorks, CallFails, Goto, queueVars, storeVars, handlerVars,
      processVars, faultVars, IInv, TypeOK, QueueTypeOK, Place, Status, Step
<1>4. ASSUME NEW w \in Workers, Mark(w) PROVE TypeOK'
  BY <1>4, DisturbType
  DEF Mark, CallWorks, CallFails, Goto, SetStatus, queueVars, handlerVars,
      processVars, faultVars, IInv, TypeOK, QueueTypeOK, Place, Status, Step
<1>5. ASSUME NEW w \in Workers, Fetch(w) PROVE TypeOK'
  BY <1>5, LoopStepType, DisturbType
  DEF Fetch, CallWorks, CallFails, Goto, Raise, queueVars, storeVars,
      handlerVars, processVars, faultVars, IInv, TypeOK, QueueTypeOK, Place,
      Status, Step
<1>6. ASSUME NEW w \in Workers, Put(w) PROVE TypeOK'
  BY <1>6, CurrentType, DisturbType
  DEF Put, CallWorks, CallFails, Goto, Raise, StoreObject, queueVars,
      handlerVars, processVars, faultVars, IInv, TypeOK, QueueTypeOK, Place,
      Status, Step
<1>7. ASSUME NEW w \in Workers, Record(w) PROVE TypeOK'
  BY <1>7, CurrentType, LoopStepType, DisturbType
  DEF Record, CallWorks, CallFails, Goto, Raise, AddArtifact, queueVars,
      processVars, faultVars, IInv, TypeOK, QueueTypeOK, Place, Status, Step
<1>8. ASSUME NEW w \in Workers, Finalize(w) PROVE TypeOK'
  BY <1>8, DisturbType
  DEF Finalize, CallWorks, CallFails, Goto, Raise, SetStatus, queueVars,
      handlerVars, processVars, faultVars, IInv, TypeOK, QueueTypeOK, Place,
      Status, Step
<1>9. ASSUME NEW w \in Workers, Announce(w) PROVE TypeOK'
  BY <1>9
  DEF Announce, Event, Goto, queueVars, handlerVars, processVars, faultVars,
      IInv, TypeOK, QueueTypeOK, Place, Status, Step
<1>10. ASSUME NEW w \in Workers, Fail(w) PROVE TypeOK'
  BY <1>10, DisturbType
  DEF Fail, CallWorks, CallFails, Goto, SetStatus, queueVars, handlerVars,
      processVars, faultVars, IInv, TypeOK, QueueTypeOK, Place, Status, Step
<1>11. ASSUME NEW w \in Workers, Tell(w) PROVE TypeOK'
  BY <1>11
  DEF Tell, Event, Goto, queueVars, handlerVars, processVars, faultVars, IInv,
      TypeOK, QueueTypeOK, Place, Status, Step
<1>12. ASSUME NEW w \in Workers, Park(w) PROVE TypeOK'
  BY <1>12
  DEF Park, OnChannel, ParkMessage, Goto, queueVars, storeVars, handlerVars,
      processVars, faultVars, IInv, TypeOK, QueueTypeOK, Place, Status, Step
<1>13. ASSUME NEW w \in Workers, Ack(w) PROVE TypeOK'
  BY <1>13
  DEF Ack, OnChannel, AckMessage, BackToLoop, Goto, queueVars, storeVars,
      faultVars, IInv, TypeOK, QueueTypeOK, Place, Status, Step
<1>14. ASSUME NEW w \in Workers, Nack(w) PROVE TypeOK'
  BY <1>14
  DEF Nack, OnChannel, NackMessage, BackToLoop, Goto, queueVars, storeVars,
      faultVars, IInv, TypeOK, QueueTypeOK, Place, Status, Step
<1>15. ASSUME NEW w \in Workers, ConnectionLost(w) PROVE TypeOK'
  BY <1>15, DisturbType
  DEF ConnectionLost, Requeue, storeVars, handlerVars, IInv, TypeOK,
      QueueTypeOK, Place, Status, Step
<1>16. ASSUME NEW w \in Workers, Crash(w) PROVE TypeOK'
  BY <1>16, DisturbType
  DEF Crash, Requeue, Goto, storeVars, IInv, TypeOK, QueueTypeOK, Place, Status,
      Step
<1>17. ASSUME NEW w \in Workers, Sigterm(w) PROVE TypeOK'
  BY <1>17, DisturbType
  DEF Sigterm, queueVars, storeVars, handlerVars, IInv, TypeOK, QueueTypeOK,
      Place, Status, Step
<1>18. ASSUME NEW w \in Workers, Exit(w) PROVE TypeOK'
  BY <1>18
  DEF Exit, Requeue, storeVars, handlerVars, faultVars, IInv, TypeOK,
      QueueTypeOK, Place, Status, Step
<1>19. ASSUME NEW j \in Jobs, Expire(j) PROVE TypeOK'
  BY <1>19
  DEF Expire, ExpireRetry, storeVars, handlerVars, processVars, faultVars, IInv,
      TypeOK, QueueTypeOK, Place, Status, Step
<1>20. CASE UNCHANGED vars
  BY <1>20
  DEF vars, queueVars, storeVars, handlerVars, processVars, faultVars, IInv,
      TypeOK, QueueTypeOK, Place, Status, Step
<1>21. QED
  BY <1>1, <1>2, <1>3, <1>4, <1>5, <1>6, <1>7, <1>8, <1>9, <1>10, <1>11, <1>12,
     <1>13, <1>14, <1>15, <1>16, <1>17, <1>18, <1>19, <1>20
  DEF Next, Handle, Drained

\* Every step keeps handlers and broker in agreement.
LEMMA OwnershipStep == IInv /\ [Next]_vars => Ownership'
<1> SUFFICES ASSUME IInv, [Next]_vars PROVE Ownership'
  OBVIOUS
<1>1. ASSUME NEW w \in Workers, Deliver(w) PROVE Ownership'
  BY <1>1, QueueAssumption
  DEF Deliver, Push, AttemptOf, storeVars, handlerVars, processVars, faultVars,
      IInv, TypeOK, QueueTypeOK, Place, Ownership, HeldIsUnacked, BusyHasJob,
      Busy, HandlerHoldsMessage, AttemptIsCurrent
<1>2. ASSUME NEW w \in Workers, Take(w) PROVE Ownership'
  BY <1>2, QueueAssumption, ImageAssumption
  DEF Take, Held, AttemptOf, Goto, queueVars, storeVars, processVars, faultVars,
      IInv, TypeOK, QueueTypeOK, Place, Ownership, HeldIsUnacked, BusyHasJob,
      Busy, HandlerHoldsMessage, AttemptIsCurrent
<1>3. ASSUME NEW w \in Workers, Check(w) PROVE Ownership'
  BY <1>3
  DEF Check, CallWorks, CallFails, Disturb, Goto, AttemptOf, queueVars,
      storeVars, handlerVars, processVars, faultVars, IInv, TypeOK, QueueTypeOK,
      Place, Ownership, HeldIsUnacked, BusyHasJob, Busy, HandlerHoldsMessage,
      AttemptIsCurrent
<1>4. ASSUME NEW w \in Workers, Mark(w) PROVE Ownership'
  BY <1>4
  DEF Mark, CallWorks, CallFails, Disturb, Goto, SetStatus, AttemptOf,
      queueVars, handlerVars, processVars, faultVars, IInv, TypeOK, QueueTypeOK,
      Place, Ownership, HeldIsUnacked, BusyHasJob, Busy, HandlerHoldsMessage,
      AttemptIsCurrent
<1>5. ASSUME NEW w \in Workers, Fetch(w) PROVE Ownership'
  BY <1>5, LoopStepType
  DEF Fetch, CallWorks, CallFails, Disturb, Goto, Raise, AttemptOf, queueVars,
      storeVars, handlerVars, processVars, faultVars, IInv, TypeOK, QueueTypeOK,
      Place, Ownership, HeldIsUnacked, BusyHasJob, Busy, HandlerHoldsMessage,
      AttemptIsCurrent
<1>6. ASSUME NEW w \in Workers, Put(w) PROVE Ownership'
  BY <1>6
  DEF Put, CallWorks, CallFails, Disturb, Goto, Raise, StoreObject, AttemptOf,
      queueVars, handlerVars, processVars, faultVars, IInv, TypeOK, QueueTypeOK,
      Place, Ownership, HeldIsUnacked, BusyHasJob, Busy, HandlerHoldsMessage,
      AttemptIsCurrent
<1>7. ASSUME NEW w \in Workers, Record(w) PROVE Ownership'
  BY <1>7, LoopStepType
  DEF Record, CallWorks, CallFails, Disturb, Goto, Raise, AddArtifact,
      AttemptOf, queueVars, processVars, faultVars, IInv, TypeOK, QueueTypeOK,
      Place, Ownership, HeldIsUnacked, BusyHasJob, Busy, HandlerHoldsMessage,
      AttemptIsCurrent
<1>8. ASSUME NEW w \in Workers, Finalize(w) PROVE Ownership'
  BY <1>8
  DEF Finalize, CallWorks, CallFails, Disturb, Goto, Raise, SetStatus,
      AttemptOf, queueVars, handlerVars, processVars, faultVars, IInv, TypeOK,
      QueueTypeOK, Place, Ownership, HeldIsUnacked, BusyHasJob, Busy,
      HandlerHoldsMessage, AttemptIsCurrent
<1>9. ASSUME NEW w \in Workers, Announce(w) PROVE Ownership'
  BY <1>9
  DEF Announce, Event, Goto, AttemptOf, queueVars, handlerVars, processVars,
      faultVars, IInv, TypeOK, QueueTypeOK, Place, Ownership, HeldIsUnacked,
      BusyHasJob, Busy, HandlerHoldsMessage, AttemptIsCurrent
<1>10. ASSUME NEW w \in Workers, Fail(w) PROVE Ownership'
  BY <1>10
  DEF Fail, CallWorks, CallFails, Disturb, Goto, SetStatus, AttemptOf,
      queueVars, handlerVars, processVars, faultVars, IInv, TypeOK, QueueTypeOK,
      Place, Ownership, HeldIsUnacked, BusyHasJob, Busy, HandlerHoldsMessage,
      AttemptIsCurrent
<1>11. ASSUME NEW w \in Workers, Tell(w) PROVE Ownership'
  BY <1>11
  DEF Tell, Event, Goto, AttemptOf, queueVars, handlerVars, processVars,
      faultVars, IInv, TypeOK, QueueTypeOK, Place, Ownership, HeldIsUnacked,
      BusyHasJob, Busy, HandlerHoldsMessage, AttemptIsCurrent
<1>12. ASSUME NEW w \in Workers, Park(w) PROVE Ownership'
  BY <1>12
  DEF Park, OnChannel, ParkMessage, Goto, AttemptOf, queueVars, storeVars,
      handlerVars, processVars, faultVars, IInv, TypeOK, QueueTypeOK, Place,
      Ownership, HeldIsUnacked, BusyHasJob, Busy, HandlerHoldsMessage,
      AttemptIsCurrent
<1>13. ASSUME NEW w \in Workers, Ack(w) PROVE Ownership'
  BY <1>13
  DEF Ack, OnChannel, AckMessage, BackToLoop, Goto, AttemptOf, queueVars,
      storeVars, faultVars, IInv, TypeOK, QueueTypeOK, Place, Ownership,
      HeldIsUnacked, BusyHasJob, Busy, HandlerHoldsMessage, AttemptIsCurrent
<1>14. ASSUME NEW w \in Workers, Nack(w) PROVE Ownership'
  BY <1>14
  DEF Nack, OnChannel, NackMessage, BackToLoop, Goto, AttemptOf, queueVars,
      storeVars, faultVars, IInv, TypeOK, QueueTypeOK, Place, Ownership,
      HeldIsUnacked, BusyHasJob, Busy, HandlerHoldsMessage, AttemptIsCurrent
<1>15. ASSUME NEW w \in Workers, ConnectionLost(w) PROVE Ownership'
  <2>1. \A v \in Workers : connected'[v] => connected[v] /\ (v = w => pc[v] = "idle")
    BY <1>15 DEF ConnectionLost, IInv, TypeOK
  <2>2. \A j \in Jobs : IF holder[j] = w THEN at'[j] = "ready" /\ holder'[j] = Nobody
                       ELSE at'[j] = at[j] /\ holder'[j] = holder[j]
    BY <1>15 DEF ConnectionLost, Requeue, IInv, TypeOK, QueueTypeOK
  <2>3. HeldIsUnacked'
    BY <2>2, QueueAssumption DEF IInv, Ownership, HeldIsUnacked
  <2>4. BusyHasJob'
    <3>1. \A v \in Workers : ~Busy(v) => connected'[v]
      BY <1>15 DEF ConnectionLost, Busy, IInv, TypeOK, Ownership, BusyHasJob
    <3>2. QED
      BY <1>15, <3>1
      DEF ConnectionLost, handlerVars, IInv, Ownership, BusyHasJob, Busy
  <2>5. HandlerHoldsMessage' /\ AttemptIsCurrent'
    BY <1>15, <2>1, <2>2
    DEF ConnectionLost, Requeue, handlerVars, IInv, TypeOK, Ownership,
        HandlerHoldsMessage, AttemptIsCurrent, AttemptOf, Busy, BusyHasJob
  <2>6. QED
    BY <2>3, <2>4, <2>5 DEF Ownership
<1>16. ASSUME NEW w \in Workers, Crash(w) PROVE Ownership'
  BY <1>16
  DEF Crash, Disturb, Requeue, Goto, AttemptOf, storeVars, IInv, TypeOK,
      QueueTypeOK, Place, Ownership, HeldIsUnacked, BusyHasJob, Busy,
      HandlerHoldsMessage, AttemptIsCurrent
<1>17. ASSUME NEW w \in Workers, Sigterm(w) PROVE Ownership'
  BY <1>17
  DEF Sigterm, Disturb, AttemptOf, queueVars, storeVars, handlerVars, IInv,
      TypeOK, QueueTypeOK, Place, Ownership, HeldIsUnacked, BusyHasJob, Busy,
      HandlerHoldsMessage, AttemptIsCurrent
<1>18. ASSUME NEW w \in Workers, Exit(w) PROVE Ownership'
  BY <1>18
  DEF Exit, Requeue, AttemptOf, storeVars, handlerVars, faultVars, IInv, TypeOK,
      QueueTypeOK, Place, Ownership, HeldIsUnacked, BusyHasJob, Busy,
      HandlerHoldsMessage, AttemptIsCurrent
<1>19. ASSUME NEW j \in Jobs, Expire(j) PROVE Ownership'
  BY <1>19
  DEF Expire, ExpireRetry, storeVars, handlerVars, processVars, faultVars, IInv,
      TypeOK, QueueTypeOK, Place, Ownership, HeldIsUnacked, BusyHasJob, Busy,
      HandlerHoldsMessage, AttemptIsCurrent, AttemptOf
<1>20. CASE UNCHANGED vars
  BY <1>20
  DEF vars, queueVars, storeVars, handlerVars, processVars, faultVars, IInv,
      TypeOK, QueueTypeOK, Place, Ownership, HeldIsUnacked, BusyHasJob, Busy,
      HandlerHoldsMessage, AttemptIsCurrent, AttemptOf
<1>21. QED
  BY <1>1, <1>2, <1>3, <1>4, <1>5, <1>6, <1>7, <1>8, <1>9, <1>10, <1>11, <1>12,
     <1>13, <1>14, <1>15, <1>16, <1>17, <1>18, <1>19, <1>20
  DEF Next, Handle, Drained

\* The handler of v stays where it is.
Unmoved(v) ==
  pc'[v] = pc[v] /\ job'[v] = job[v] /\ done'[v] = done[v] /\ err'[v] = err[v]

\* A step that moves a handler is a step of that handler, or kills it.
LEMMA Moves ==
  ASSUME IInv, [Next]_vars, NEW v \in Workers, ~Unmoved(v)
  PROVE  \/ Take(v) \/ Check(v) \/ Mark(v) \/ Fetch(v) \/ Put(v) \/ Record(v) \/ Finalize(v)
         \/ Announce(v) \/ Fail(v) \/ Tell(v) \/ Park(v) \/ Ack(v) \/ Nack(v) \/ Crash(v)
<1>1. ASSUME NEW w \in Workers, Deliver(w) PROVE v = w \/ Unmoved(v)
  BY <1>1 DEF Deliver, Push, Unmoved, handlerVars, IInv, TypeOK
<1>2. ASSUME NEW w \in Workers, Take(w) PROVE v = w \/ Unmoved(v)
  BY <1>2 DEF Take, Held, AttemptOf, Goto, Unmoved, handlerVars, IInv, TypeOK
<1>3. ASSUME NEW w \in Workers, Check(w) PROVE v = w \/ Unmoved(v)
  BY <1>3
  DEF Check, CallWorks, CallFails, Disturb, Goto, Unmoved, handlerVars, IInv,
      TypeOK
<1>4. ASSUME NEW w \in Workers, Mark(w) PROVE v = w \/ Unmoved(v)
  BY <1>4
  DEF Mark, CallWorks, CallFails, Disturb, Goto, SetStatus, Unmoved,
      handlerVars, IInv, TypeOK
<1>5. ASSUME NEW w \in Workers, Fetch(w) PROVE v = w \/ Unmoved(v)
  BY <1>5
  DEF Fetch, CallWorks, CallFails, Disturb, Goto, Raise, LoopStep, Unmoved,
      handlerVars, IInv, TypeOK
<1>6. ASSUME NEW w \in Workers, Put(w) PROVE v = w \/ Unmoved(v)
  BY <1>6
  DEF Put, CallWorks, CallFails, Disturb, Goto, Raise, StoreObject, Current,
      Unmoved, handlerVars, IInv, TypeOK
<1>7. ASSUME NEW w \in Workers, Record(w) PROVE v = w \/ Unmoved(v)
  BY <1>7
  DEF Record, CallWorks, CallFails, Disturb, Goto, Raise, AddArtifact, Current,
      LoopStep, Unmoved, handlerVars, IInv, TypeOK
<1>8. ASSUME NEW w \in Workers, Finalize(w) PROVE v = w \/ Unmoved(v)
  BY <1>8
  DEF Finalize, CallWorks, CallFails, Disturb, Goto, Raise, SetStatus, Unmoved,
      handlerVars, IInv, TypeOK
<1>9. ASSUME NEW w \in Workers, Announce(w) PROVE v = w \/ Unmoved(v)
  BY <1>9 DEF Announce, Event, Goto, Unmoved, handlerVars, IInv, TypeOK
<1>10. ASSUME NEW w \in Workers, Fail(w) PROVE v = w \/ Unmoved(v)
  BY <1>10
  DEF Fail, CallWorks, CallFails, Disturb, Goto, SetStatus, Unmoved,
      handlerVars, IInv, TypeOK
<1>11. ASSUME NEW w \in Workers, Tell(w) PROVE v = w \/ Unmoved(v)
  BY <1>11 DEF Tell, Event, Goto, Unmoved, handlerVars, IInv, TypeOK
<1>12. ASSUME NEW w \in Workers, Park(w) PROVE v = w \/ Unmoved(v)
  BY <1>12
  DEF Park, OnChannel, ParkMessage, Goto, Unmoved, handlerVars, IInv, TypeOK
<1>13. ASSUME NEW w \in Workers, Ack(w) PROVE v = w \/ Unmoved(v)
  BY <1>13
  DEF Ack, OnChannel, AckMessage, BackToLoop, Goto, Unmoved, handlerVars, IInv,
      TypeOK
<1>14. ASSUME NEW w \in Workers, Nack(w) PROVE v = w \/ Unmoved(v)
  BY <1>14
  DEF Nack, OnChannel, NackMessage, BackToLoop, Goto, Unmoved, handlerVars,
      IInv, TypeOK
<1>15. ASSUME NEW w \in Workers, ConnectionLost(w) PROVE v = w \/ Unmoved(v)
  BY <1>15 DEF ConnectionLost, Disturb, Requeue, Unmoved, handlerVars, IInv, TypeOK
<1>16. ASSUME NEW w \in Workers, Crash(w) PROVE v = w \/ Unmoved(v)
  BY <1>16 DEF Crash, Disturb, Requeue, Goto, Unmoved, handlerVars, IInv, TypeOK
<1>17. ASSUME NEW w \in Workers, Sigterm(w) PROVE v = w \/ Unmoved(v)
  BY <1>17 DEF Sigterm, Disturb, Unmoved, handlerVars, IInv, TypeOK
<1>18. ASSUME NEW w \in Workers, Exit(w) PROVE v = w \/ Unmoved(v)
  BY <1>18 DEF Exit, Requeue, Unmoved, handlerVars, IInv, TypeOK
<1>19. ASSUME Deliver(v) \/ ConnectionLost(v) \/ Sigterm(v) \/ Exit(v)
       PROVE  Unmoved(v)
  BY <1>19 DEF Deliver, ConnectionLost, Sigterm, Exit, Unmoved, handlerVars
<1>20. ASSUME NEW j \in Jobs, Expire(j) PROVE Unmoved(v)
  BY <1>20 DEF Expire, Unmoved, handlerVars
<1>21. CASE UNCHANGED vars
  BY <1>21 DEF vars, Unmoved, handlerVars
<1>22. QED
  BY <1>1, <1>2, <1>3, <1>4, <1>5, <1>6, <1>7, <1>8, <1>9, <1>10, <1>11, <1>12,
     <1>13, <1>14, <1>15, <1>16, <1>17, <1>18, <1>19, <1>20, <1>21
  DEF Next, Handle, Drained

\* Rows, objects and parked copies are never taken away.
LEMMA StoresGrow ==
  ASSUME IInv, [Next]_vars, NEW j \in Jobs
  PROVE  rows[j] \subseteq rows'[j] /\ objects[j] \subseteq objects'[j]
         /\ parked[j] <= parked'[j]
<1> DEFINE Grows == rows[j] \subseteq rows'[j] /\ objects[j] \subseteq objects'[j] /\ parked[j] <= parked'[j]
<1> SUFFICES Grows
  OBVIOUS
<1>1. ASSUME NEW w \in Workers, Deliver(w) PROVE Grows
  BY <1>1
  DEF Deliver, Push, storeVars, handlerVars, processVars, faultVars, IInv,
      TypeOK, QueueTypeOK
<1>2. ASSUME NEW w \in Workers, Take(w) PROVE Grows
  BY <1>2
  DEF Take, Held, AttemptOf, Goto, queueVars, storeVars, processVars, faultVars,
      IInv, TypeOK, QueueTypeOK
<1>3. ASSUME NEW w \in Workers, Check(w) PROVE Grows
  BY <1>3
  DEF Check, CallWorks, CallFails, Disturb, Goto, queueVars, storeVars,
      handlerVars, processVars, faultVars, IInv, TypeOK, QueueTypeOK
<1>4. ASSUME NEW w \in Workers, Mark(w) PROVE Grows
  BY <1>4
  DEF Mark, CallWorks, CallFails, Disturb, Goto, SetStatus, queueVars,
      handlerVars, processVars, faultVars, IInv, TypeOK, QueueTypeOK
<1>5. ASSUME NEW w \in Workers, Fetch(w) PROVE Grows
  BY <1>5
  DEF Fetch, CallWorks, CallFails, Disturb, Goto, Raise, LoopStep, queueVars,
      storeVars, handlerVars, processVars, faultVars, IInv, TypeOK, QueueTypeOK
<1>6. ASSUME NEW w \in Workers, Put(w) PROVE Grows
  BY <1>6
  DEF Put, CallWorks, CallFails, Disturb, Goto, Raise, StoreObject, queueVars,
      handlerVars, processVars, faultVars, IInv, TypeOK, QueueTypeOK
<1>7. ASSUME NEW w \in Workers, Record(w) PROVE Grows
  BY <1>7 DEF Record, AddArtifact, queueVars, IInv, TypeOK, QueueTypeOK
<1>8. ASSUME NEW w \in Workers, Finalize(w) PROVE Grows
  BY <1>8
  DEF Finalize, CallWorks, CallFails, Disturb, Goto, Raise, SetStatus,
      queueVars, handlerVars, processVars, faultVars, IInv, TypeOK, QueueTypeOK
<1>9. ASSUME NEW w \in Workers, Announce(w) PROVE Grows
  BY <1>9
  DEF Announce, Event, Goto, queueVars, handlerVars, processVars, faultVars,
      IInv, TypeOK, QueueTypeOK
<1>10. ASSUME NEW w \in Workers, Fail(w) PROVE Grows
  BY <1>10
  DEF Fail, CallWorks, CallFails, Disturb, Goto, SetStatus, queueVars,
      handlerVars, processVars, faultVars, IInv, TypeOK, QueueTypeOK
<1>11. ASSUME NEW w \in Workers, Tell(w) PROVE Grows
  BY <1>11
  DEF Tell, Event, Goto, queueVars, handlerVars, processVars, faultVars, IInv,
      TypeOK, QueueTypeOK
<1>12. ASSUME NEW w \in Workers, Park(w) PROVE Grows
  BY <1>12
  DEF Park, OnChannel, ParkMessage, Goto, queueVars, storeVars, handlerVars,
      processVars, faultVars, IInv, TypeOK, QueueTypeOK
<1>13. ASSUME NEW w \in Workers, Ack(w) PROVE Grows
  BY <1>13
  DEF Ack, OnChannel, AckMessage, BackToLoop, Goto, queueVars, storeVars,
      faultVars, IInv, TypeOK, QueueTypeOK
<1>14. ASSUME NEW w \in Workers, Nack(w) PROVE Grows
  BY <1>14
  DEF Nack, OnChannel, NackMessage, BackToLoop, Goto, queueVars, storeVars,
      faultVars, IInv, TypeOK, QueueTypeOK
<1>15. ASSUME NEW w \in Workers, ConnectionLost(w) PROVE Grows
  BY <1>15
  DEF ConnectionLost, Disturb, Requeue, storeVars, handlerVars, IInv, TypeOK,
      QueueTypeOK
<1>16. ASSUME NEW w \in Workers, Crash(w) PROVE Grows
  BY <1>16 DEF Crash, Disturb, Requeue, Goto, storeVars, IInv, TypeOK, QueueTypeOK
<1>17. ASSUME NEW w \in Workers, Sigterm(w) PROVE Grows
  BY <1>17
  DEF Sigterm, Disturb, queueVars, storeVars, handlerVars, IInv, TypeOK,
      QueueTypeOK
<1>18. ASSUME NEW w \in Workers, Exit(w) PROVE Grows
  BY <1>18
  DEF Exit, Requeue, storeVars, handlerVars, faultVars, IInv, TypeOK,
      QueueTypeOK
<1>19. ASSUME NEW i \in Jobs, Expire(i) PROVE Grows
  BY <1>19 DEF Expire, ExpireRetry, storeVars, IInv, TypeOK, QueueTypeOK
<1>20. CASE UNCHANGED vars
  BY <1>20
  DEF vars, queueVars, storeVars, handlerVars, processVars, faultVars, IInv,
      TypeOK, QueueTypeOK
<1>21. QED
  BY <1>1, <1>2, <1>3, <1>4, <1>5, <1>6, <1>7, <1>8, <1>9, <1>10, <1>11, <1>12,
     <1>13, <1>14, <1>15, <1>16, <1>17, <1>18, <1>19, <1>20
  DEF Next, Handle, Drained

\* A job that has all its rows keeps them.
LEMMA CompleteStays ==
  ASSUME IInv, [Next]_vars, NEW j \in Jobs, Complete(j)
  PROVE  Complete(j)'
  BY StoresGrow DEF Complete

\* A busy worker has a job.
LEMMA BusyJob ==
  ASSUME IInv, NEW v \in Workers, pc[v] # "idle"
  PROVE  job[v] \in Jobs
  BY DEF IInv, TypeOK, Ownership, BusyHasJob, Busy

\* A handler that does not move keeps its progress: the stores only grow.
LEMMA UnmovedProgress ==
  ASSUME IInv, [Next]_vars, NEW v \in Workers, Unmoved(v)
  PROVE  Progressed(v)'
<1>1. Progressed(v)
  BY DEF IInv, Progress
<1>2. CASE pc[v] = "idle"
  BY <1>2 DEF Unmoved, Progressed
<1>3. CASE pc[v] # "idle"
  <2>1. job[v] \in Jobs
    BY <1>3, BusyJob
  <2>2. rows[job[v]] \subseteq rows'[job[v]] /\ objects[job[v]] \subseteq objects'[job[v]]
    BY <2>1, StoresGrow
  <2>3. QED
    BY <1>1, <2>2 DEF Progressed, Unmoved, Current, Complete
<1>4. QED
  BY <1>2, <1>3

\* A handler that moves keeps its progress.
LEMMA MovedProgress ==
  ASSUME IInv, [Next]_vars, NEW v \in Workers, ~Unmoved(v)
  PROVE  Progressed(v)'
<1>1. Progressed(v)
  BY DEF IInv, Progress
<1>2. TypeOK /\ (pc[v] # "idle" => job[v] \in Jobs)
  BY BusyJob DEF IInv
<1>3. CASE Take(v)
  BY <1>2, <1>3 DEF Take, Goto, Progressed, TypeOK
<1>4. CASE Check(v)
  <2>1. CASE status[job[v]] = "completed"
    <3>1. job[v] \in Jobs /\ Complete(job[v])
      BY <1>2, <1>4, <2>1 DEF Check, IInv, Progress, CompletedHasArtifacts
    <3>2. QED
      BY <1>1, <1>2, <1>4, <3>1
      DEF Check, Goto, handlerVars, storeVars, Progressed, Complete, TypeOK
  <2>2. CASE status[job[v]] # "completed"
    BY <1>1, <1>2, <1>4, <2>2 DEF Check, Goto, handlerVars, Progressed, TypeOK
  <2>3. QED
    BY <2>1, <2>2
<1>5. CASE Mark(v)
  BY <1>1, <1>2, <1>5 DEF Mark, Goto, handlerVars, Progressed, TypeOK
<1>6. CASE Fetch(v)
  <2>1. CASE pc'[v] = "fail"
    BY <1>2, <1>6, <2>1 DEF Progressed
  <2>2. CASE pc'[v] # "fail"
    <3>1. /\ done'[v] = 0 /\ job'[v] = job[v]
          /\ pc'[v] = LoopStep(v, 0)
      BY <1>1, <1>2, <1>6, <2>2
      DEF Fetch, Goto, Raise, handlerVars, Progressed, TypeOK
    <3>2. Len(Results[job[v]]) \in Nat
      BY <1>2, <1>6, ResultsAreVariants DEF Fetch
    <3>3. QED
      BY <3>1, <3>2 DEF LoopStep, Progressed
  <2>3. QED
    BY <2>1, <2>2
<1>7. CASE Put(v)
  <2>1. CASE pc'[v] = "fail"
    BY <1>2, <1>7, <2>1 DEF Progressed
  <2>2. CASE pc'[v] # "fail"
    <3>1. /\ pc'[v] = "record" /\ pc[v] = "put"
          /\ done'[v] = done[v] /\ job'[v] = job[v] /\ rows' = rows
          /\ objects'[job[v]] = objects[job[v]] \cup {Current(v)}
      BY <1>2, <1>7, <2>2 DEF Put, Goto, Raise, StoreObject, handlerVars, TypeOK
    <3>2. QED
      BY <1>1, <3>1 DEF Progressed, Current
  <2>3. QED
    BY <2>1, <2>2
<1>8. CASE Record(v)
  BY <1>1, <1>2, <1>8
  DEF Record, Goto, Raise, AddArtifact, LoopStep, Progressed, Current, TypeOK
<1>9. CASE Finalize(v)
  BY <1>1, <1>2, <1>9, ResultsAreVariants
  DEF Finalize, Goto, Raise, handlerVars, Progressed, Complete, TypeOK
<1>10. CASE Announce(v)
  BY <1>1, <1>2, <1>10
  DEF Announce, Goto, handlerVars, Progressed, Complete, TypeOK
<1>11. CASE Fail(v)
  BY <1>2, <1>11 DEF Fail, Goto, Progressed, TypeOK
<1>12. CASE Tell(v)
  <2>1. err'[v] # "none"
    BY <1>12 DEF Tell, handlerVars, IInv, Settlement, Excused
  <2>2. QED
    BY <1>2, <1>12, <2>1 DEF Tell, Goto, Progressed, TypeOK
<1>13. CASE Park(v)
  BY <1>2, <1>13 DEF Park, Goto, Progressed, TypeOK
<1>14. CASE Ack(v) \/ Nack(v) \/ Crash(v)
  BY <1>2, <1>14 DEF Ack, Nack, Crash, BackToLoop, Goto, Progressed, TypeOK
<1>15. QED
  BY Moves, <1>3, <1>4, <1>5, <1>6, <1>7, <1>8, <1>9, <1>10, <1>11, <1>12,
     <1>13, <1>14

\* Only AddArtifact changes the rows.
LEMMA RowsByRecord ==
  ASSUME [Next]_vars, NEW j \in Jobs, rows'[j] # rows[j]
  PROVE  \E w \in Workers : Record(w)
<1>1. ASSUME NEW w \in Workers, Deliver(w) PROVE \E x \in Workers : Record(x)
  BY <1>1 DEF Deliver, storeVars
<1>2. ASSUME NEW w \in Workers, Take(w) PROVE \E x \in Workers : Record(x)
  BY <1>2 DEF Take, storeVars
<1>3. ASSUME NEW w \in Workers, Check(w) PROVE \E x \in Workers : Record(x)
  BY <1>3 DEF Check, storeVars
<1>4. ASSUME NEW w \in Workers, Mark(w) PROVE \E x \in Workers : Record(x)
  BY <1>4 DEF Mark
<1>5. ASSUME NEW w \in Workers, Fetch(w) PROVE \E x \in Workers : Record(x)
  BY <1>5 DEF Fetch, storeVars
<1>6. ASSUME NEW w \in Workers, Put(w) PROVE \E x \in Workers : Record(x)
  BY <1>6 DEF Put
<1>7. ASSUME NEW w \in Workers, Record(w) PROVE \E x \in Workers : Record(x)
  BY <1>7
<1>8. ASSUME NEW w \in Workers, Finalize(w) PROVE \E x \in Workers : Record(x)
  BY <1>8 DEF Finalize
<1>9. ASSUME NEW w \in Workers, Announce(w) PROVE \E x \in Workers : Record(x)
  BY <1>9 DEF Announce
<1>10. ASSUME NEW w \in Workers, Fail(w) PROVE \E x \in Workers : Record(x)
  BY <1>10 DEF Fail
<1>11. ASSUME NEW w \in Workers, Tell(w) PROVE \E x \in Workers : Record(x)
  BY <1>11 DEF Tell
<1>12. ASSUME NEW w \in Workers, Park(w) PROVE \E x \in Workers : Record(x)
  BY <1>12 DEF Park, storeVars
<1>13. ASSUME NEW w \in Workers, Ack(w) PROVE \E x \in Workers : Record(x)
  BY <1>13 DEF Ack, storeVars
<1>14. ASSUME NEW w \in Workers, Nack(w) PROVE \E x \in Workers : Record(x)
  BY <1>14 DEF Nack, storeVars
<1>15. ASSUME NEW w \in Workers, ConnectionLost(w)
       PROVE  \E x \in Workers : Record(x)
  BY <1>15 DEF ConnectionLost, storeVars
<1>16. ASSUME NEW w \in Workers, Crash(w) PROVE \E x \in Workers : Record(x)
  BY <1>16 DEF Crash, storeVars
<1>17. ASSUME NEW w \in Workers, Sigterm(w) PROVE \E x \in Workers : Record(x)
  BY <1>17 DEF Sigterm, storeVars
<1>18. ASSUME NEW w \in Workers, Exit(w) PROVE \E x \in Workers : Record(x)
  BY <1>18 DEF Exit, storeVars
<1>19. ASSUME NEW i \in Jobs, Expire(i) PROVE \E x \in Workers : Record(x)
  BY <1>19 DEF Expire, storeVars
<1>20. CASE UNCHANGED vars
  BY <1>20 DEF vars, storeVars
<1>21. QED
  BY <1>1, <1>2, <1>3, <1>4, <1>5, <1>6, <1>7, <1>8, <1>9, <1>10, <1>11, <1>12,
     <1>13, <1>14, <1>15, <1>16, <1>17, <1>18, <1>19, <1>20
  DEF Next, Handle, Drained

\* Only a handler past its loop completes a job or announces it.
LEMMA CompletedByHandler ==
  ASSUME IInv, [Next]_vars, NEW j \in Jobs,
         ~(status[j] = "completed" \/ "completed" \in announced[j]),
         status'[j] = "completed" \/ "completed" \in announced'[j]
  PROVE  \E w \in Workers : (Finalize(w) \/ Announce(w)) /\ job[w] = j
<1>1. ASSUME NEW w \in Workers, Deliver(w)
      PROVE  \E x \in Workers : (Finalize(x) \/ Announce(x)) /\ job[x] = j
  BY <1>1 DEF Deliver, storeVars
<1>2. ASSUME NEW w \in Workers, Take(w)
      PROVE  \E x \in Workers : (Finalize(x) \/ Announce(x)) /\ job[x] = j
  BY <1>2 DEF Take, storeVars
<1>3. ASSUME NEW w \in Workers, Check(w)
      PROVE  \E x \in Workers : (Finalize(x) \/ Announce(x)) /\ job[x] = j
  BY <1>3 DEF Check, storeVars
<1>4. ASSUME NEW w \in Workers, Mark(w)
      PROVE  \E x \in Workers : (Finalize(x) \/ Announce(x)) /\ job[x] = j
  BY <1>4 DEF Mark, SetStatus, IInv, TypeOK
<1>5. ASSUME NEW w \in Workers, Fetch(w)
      PROVE  \E x \in Workers : (Finalize(x) \/ Announce(x)) /\ job[x] = j
  BY <1>5 DEF Fetch, storeVars
<1>6. ASSUME NEW w \in Workers, Put(w)
      PROVE  \E x \in Workers : (Finalize(x) \/ Announce(x)) /\ job[x] = j
  BY <1>6 DEF Put
<1>7. ASSUME NEW w \in Workers, Record(w)
      PROVE  \E x \in Workers : (Finalize(x) \/ Announce(x)) /\ job[x] = j
  BY <1>7 DEF Record
<1>8. ASSUME NEW w \in Workers, Finalize(w)
      PROVE  \E x \in Workers : (Finalize(x) \/ Announce(x)) /\ job[x] = j
  BY <1>8 DEF Finalize, SetStatus, IInv, TypeOK
<1>9. ASSUME NEW w \in Workers, Announce(w)
      PROVE  \E x \in Workers : (Finalize(x) \/ Announce(x)) /\ job[x] = j
  BY <1>9 DEF Announce, Event, IInv, TypeOK
<1>10. ASSUME NEW w \in Workers, Fail(w)
       PROVE  \E x \in Workers : (Finalize(x) \/ Announce(x)) /\ job[x] = j
  BY <1>10 DEF Fail, SetStatus, IInv, TypeOK
<1>11. ASSUME NEW w \in Workers, Tell(w)
       PROVE  \E x \in Workers : (Finalize(x) \/ Announce(x)) /\ job[x] = j
  BY <1>11 DEF Tell, Event, IInv, TypeOK
<1>12. ASSUME NEW w \in Workers, Park(w)
       PROVE  \E x \in Workers : (Finalize(x) \/ Announce(x)) /\ job[x] = j
  BY <1>12 DEF Park, storeVars
<1>13. ASSUME NEW w \in Workers, Ack(w)
       PROVE  \E x \in Workers : (Finalize(x) \/ Announce(x)) /\ job[x] = j
  BY <1>13 DEF Ack, storeVars
<1>14. ASSUME NEW w \in Workers, Nack(w)
       PROVE  \E x \in Workers : (Finalize(x) \/ Announce(x)) /\ job[x] = j
  BY <1>14 DEF Nack, storeVars
<1>15. ASSUME NEW w \in Workers, ConnectionLost(w)
       PROVE  \E x \in Workers : (Finalize(x) \/ Announce(x)) /\ job[x] = j
  BY <1>15 DEF ConnectionLost, storeVars
<1>16. ASSUME NEW w \in Workers, Crash(w)
       PROVE  \E x \in Workers : (Finalize(x) \/ Announce(x)) /\ job[x] = j
  BY <1>16 DEF Crash, storeVars
<1>17. ASSUME NEW w \in Workers, Sigterm(w)
       PROVE  \E x \in Workers : (Finalize(x) \/ Announce(x)) /\ job[x] = j
  BY <1>17 DEF Sigterm, storeVars
<1>18. ASSUME NEW w \in Workers, Exit(w)
       PROVE  \E x \in Workers : (Finalize(x) \/ Announce(x)) /\ job[x] = j
  BY <1>18 DEF Exit, storeVars
<1>19. ASSUME NEW i \in Jobs, Expire(i)
       PROVE  \E x \in Workers : (Finalize(x) \/ Announce(x)) /\ job[x] = j
  BY <1>19 DEF Expire, storeVars
<1>20. CASE UNCHANGED vars
  BY <1>20 DEF vars, storeVars
<1>21. QED
  BY <1>1, <1>2, <1>3, <1>4, <1>5, <1>6, <1>7, <1>8, <1>9, <1>10, <1>11, <1>12,
     <1>13, <1>14, <1>15, <1>16, <1>17, <1>18, <1>19, <1>20
  DEF Next, Handle, Drained

\* The link from rows to objects, and from a completed job to its rows.
LEMMA ProgressStep == IInv /\ [Next]_vars => Progress'
<1> SUFFICES ASSUME IInv, [Next]_vars PROVE Progress'
  OBVIOUS
<1>1. NoDanglingArtifact'
  <2> SUFFICES ASSUME NEW j \in Jobs PROVE rows'[j] \subseteq objects'[j]
    BY DEF NoDanglingArtifact
  <2>1. CASE rows'[j] = rows[j]
    BY <2>1, StoresGrow DEF IInv, Progress, NoDanglingArtifact
  <2>2. CASE rows'[j] # rows[j]
    <3>1. PICK w \in Workers : Record(w)
      BY <2>2, RowsByRecord
    <3>2. rows'[j] \subseteq rows[j] \cup (IF j = job[w] THEN {Current(w)} ELSE {})
      BY <3>1 DEF Record, AddArtifact, IInv, TypeOK
    <3>3. j = job[w] => Current(w) \in objects[j]
      BY <3>1 DEF Record, IInv, Progress, Progressed
    <3>4. QED
      BY <3>2, <3>3, StoresGrow DEF IInv, Progress, NoDanglingArtifact
  <2>3. QED
    BY <2>1, <2>2
<1>2. CompletedHasArtifacts'
  <2> SUFFICES ASSUME NEW j \in Jobs,
                      status'[j] = "completed" \/ "completed" \in announced'[j]
               PROVE  Complete(j)'
    BY DEF CompletedHasArtifacts
  <2>1. CASE status[j] = "completed" \/ "completed" \in announced[j]
    BY <2>1, CompleteStays DEF IInv, Progress, CompletedHasArtifacts
  <2>2. CASE ~(status[j] = "completed" \/ "completed" \in announced[j])
    <3>1. PICK w \in Workers : (Finalize(w) \/ Announce(w)) /\ job[w] = j
      BY <2>2, CompletedByHandler
    <3>2. Complete(j)
      <4>1. Progressed(w) /\ done[w] \in Nat /\ Len(Results[j]) \in Nat
        BY ResultsAreVariants DEF IInv, TypeOK, Progress
      <4>2. CASE pc[w] = "announce"
        BY <3>1, <4>1, <4>2 DEF Progressed
      <4>3. CASE pc[w] = "finalize"
        BY <3>1, <4>1, <4>3 DEF Progressed, Complete
      <4>4. QED
        BY <3>1, <4>2, <4>3 DEF Finalize, Announce
    <3>3. QED
      BY <3>2, CompleteStays
  <2>3. QED
    BY <2>1, <2>2
<1>3. \A v \in Workers : Progressed(v)'
  BY UnmovedProgress, MovedProgress
<1>4. QED
  BY <1>1, <1>2, <1>3 DEF Progress

\* A worker that lost its channel gets another one only by starting afresh.
LEMMA LostStaysLost ==
  ASSUME IInv, [Next]_vars, NEW v \in Workers, connected'[v]
  PROVE  connected[v] \/ pc'[v] = "idle"
<1>1. ASSUME NEW w \in Workers, Deliver(w) PROVE connected[v] \/ pc'[v] = "idle"
  BY <1>1 DEF Deliver, processVars, IInv, TypeOK
<1>2. ASSUME NEW w \in Workers, Take(w) PROVE connected[v] \/ pc'[v] = "idle"
  BY <1>2 DEF Take, processVars, IInv, TypeOK, Goto
<1>3. ASSUME NEW w \in Workers, Check(w) PROVE connected[v] \/ pc'[v] = "idle"
  BY <1>3 DEF Check, processVars, IInv, TypeOK, Goto
<1>4. ASSUME NEW w \in Workers, Mark(w) PROVE connected[v] \/ pc'[v] = "idle"
  BY <1>4 DEF Mark, processVars, IInv, TypeOK, Goto
<1>5. ASSUME NEW w \in Workers, Fetch(w) PROVE connected[v] \/ pc'[v] = "idle"
  BY <1>5 DEF Fetch, processVars, IInv, TypeOK, Goto
<1>6. ASSUME NEW w \in Workers, Put(w) PROVE connected[v] \/ pc'[v] = "idle"
  BY <1>6 DEF Put, processVars, IInv, TypeOK, Goto
<1>7. ASSUME NEW w \in Workers, Record(w) PROVE connected[v] \/ pc'[v] = "idle"
  BY <1>7 DEF Record, processVars, IInv, TypeOK, Goto
<1>8. ASSUME NEW w \in Workers, Finalize(w) PROVE connected[v] \/ pc'[v] = "idle"
  BY <1>8 DEF Finalize, processVars, IInv, TypeOK, Goto
<1>9. ASSUME NEW w \in Workers, Announce(w) PROVE connected[v] \/ pc'[v] = "idle"
  BY <1>9 DEF Announce, processVars, IInv, TypeOK, Goto
<1>10. ASSUME NEW w \in Workers, Fail(w) PROVE connected[v] \/ pc'[v] = "idle"
  BY <1>10 DEF Fail, processVars, IInv, TypeOK, Goto
<1>11. ASSUME NEW w \in Workers, Tell(w) PROVE connected[v] \/ pc'[v] = "idle"
  BY <1>11 DEF Tell, processVars, IInv, TypeOK, Goto
<1>12. ASSUME NEW w \in Workers, Park(w) PROVE connected[v] \/ pc'[v] = "idle"
  BY <1>12 DEF Park, processVars, IInv, TypeOK, Goto
<1>13. ASSUME NEW w \in Workers, Ack(w) PROVE connected[v] \/ pc'[v] = "idle"
  BY <1>13 DEF Ack, processVars, IInv, TypeOK, BackToLoop, Goto
<1>14. ASSUME NEW w \in Workers, Nack(w) PROVE connected[v] \/ pc'[v] = "idle"
  BY <1>14 DEF Nack, processVars, IInv, TypeOK, BackToLoop, Goto
<1>15. ASSUME NEW w \in Workers, ConnectionLost(w)
       PROVE  connected[v] \/ pc'[v] = "idle"
  BY <1>15 DEF ConnectionLost, processVars, IInv, TypeOK
<1>16. ASSUME NEW w \in Workers, Crash(w) PROVE connected[v] \/ pc'[v] = "idle"
  BY <1>16 DEF Crash, processVars, IInv, TypeOK, Goto
<1>17. ASSUME NEW w \in Workers, Sigterm(w) PROVE connected[v] \/ pc'[v] = "idle"
  BY <1>17 DEF Sigterm, processVars, IInv, TypeOK
<1>18. ASSUME NEW w \in Workers, Exit(w) PROVE connected[v] \/ pc'[v] = "idle"
  BY <1>18 DEF Exit, processVars, IInv, TypeOK
<1>19. ASSUME NEW i \in Jobs, Expire(i) PROVE connected[v] \/ pc'[v] = "idle"
  BY <1>19 DEF Expire, ExpireRetry, processVars, IInv, TypeOK
<1>20. CASE UNCHANGED vars
  BY <1>20 DEF vars, processVars, IInv, TypeOK
<1>21. QED
  BY <1>1, <1>2, <1>3, <1>4, <1>5, <1>6, <1>7, <1>8, <1>9, <1>10, <1>11, <1>12,
     <1>13, <1>14, <1>15, <1>16, <1>17, <1>18, <1>19, <1>20
  DEF Next, Handle, Drained

\* The x-death count never falls.
LEMMA DeathsGrow ==
  ASSUME IInv, [Next]_vars, NEW j \in Jobs
  PROVE  deaths'[j] >= deaths[j]
<1>1. ASSUME NEW w \in Workers, Deliver(w) PROVE deaths'[j] >= deaths[j]
  BY <1>1 DEF Deliver, queueVars, IInv, TypeOK, QueueTypeOK, Push
<1>2. ASSUME NEW w \in Workers, Take(w) PROVE deaths'[j] >= deaths[j]
  BY <1>2 DEF Take, queueVars, IInv, TypeOK, QueueTypeOK
<1>3. ASSUME NEW w \in Workers, Check(w) PROVE deaths'[j] >= deaths[j]
  BY <1>3 DEF Check, queueVars, IInv, TypeOK, QueueTypeOK
<1>4. ASSUME NEW w \in Workers, Mark(w) PROVE deaths'[j] >= deaths[j]
  BY <1>4 DEF Mark, queueVars, IInv, TypeOK, QueueTypeOK
<1>5. ASSUME NEW w \in Workers, Fetch(w) PROVE deaths'[j] >= deaths[j]
  BY <1>5 DEF Fetch, queueVars, IInv, TypeOK, QueueTypeOK
<1>6. ASSUME NEW w \in Workers, Put(w) PROVE deaths'[j] >= deaths[j]
  BY <1>6 DEF Put, queueVars, IInv, TypeOK, QueueTypeOK
<1>7. ASSUME NEW w \in Workers, Record(w) PROVE deaths'[j] >= deaths[j]
  BY <1>7 DEF Record, queueVars, IInv, TypeOK, QueueTypeOK
<1>8. ASSUME NEW w \in Workers, Finalize(w) PROVE deaths'[j] >= deaths[j]
  BY <1>8 DEF Finalize, queueVars, IInv, TypeOK, QueueTypeOK
<1>9. ASSUME NEW w \in Workers, Announce(w) PROVE deaths'[j] >= deaths[j]
  BY <1>9 DEF Announce, queueVars, IInv, TypeOK, QueueTypeOK
<1>10. ASSUME NEW w \in Workers, Fail(w) PROVE deaths'[j] >= deaths[j]
  BY <1>10 DEF Fail, queueVars, IInv, TypeOK, QueueTypeOK
<1>11. ASSUME NEW w \in Workers, Tell(w) PROVE deaths'[j] >= deaths[j]
  BY <1>11 DEF Tell, queueVars, IInv, TypeOK, QueueTypeOK
<1>12. ASSUME NEW w \in Workers, Park(w) PROVE deaths'[j] >= deaths[j]
  BY <1>12 DEF Park, queueVars, IInv, TypeOK, QueueTypeOK, OnChannel, ParkMessage
<1>13. ASSUME NEW w \in Workers, Ack(w) PROVE deaths'[j] >= deaths[j]
  BY <1>13 DEF Ack, queueVars, IInv, TypeOK, QueueTypeOK, OnChannel, AckMessage
<1>14. ASSUME NEW w \in Workers, Nack(w) PROVE deaths'[j] >= deaths[j]
  BY <1>14 DEF Nack, queueVars, IInv, TypeOK, QueueTypeOK, OnChannel, NackMessage
<1>15. ASSUME NEW w \in Workers, ConnectionLost(w) PROVE deaths'[j] >= deaths[j]
  BY <1>15 DEF ConnectionLost, queueVars, IInv, TypeOK, QueueTypeOK, Requeue
<1>16. ASSUME NEW w \in Workers, Crash(w) PROVE deaths'[j] >= deaths[j]
  BY <1>16 DEF Crash, queueVars, IInv, TypeOK, QueueTypeOK, Requeue
<1>17. ASSUME NEW w \in Workers, Sigterm(w) PROVE deaths'[j] >= deaths[j]
  BY <1>17 DEF Sigterm, queueVars, IInv, TypeOK, QueueTypeOK
<1>18. ASSUME NEW w \in Workers, Exit(w) PROVE deaths'[j] >= deaths[j]
  BY <1>18 DEF Exit, queueVars, IInv, TypeOK, QueueTypeOK, Requeue
<1>19. ASSUME NEW i \in Jobs, Expire(i) PROVE deaths'[j] >= deaths[j]
  BY <1>19 DEF Expire, ExpireRetry, queueVars, IInv, TypeOK, QueueTypeOK
<1>20. CASE UNCHANGED vars
  BY <1>20 DEF vars, queueVars, IInv, TypeOK, QueueTypeOK
<1>21. QED
  BY <1>1, <1>2, <1>3, <1>4, <1>5, <1>6, <1>7, <1>8, <1>9, <1>10, <1>11, <1>12,
     <1>13, <1>14, <1>15, <1>16, <1>17, <1>18, <1>19, <1>20
  DEF Next, Handle, Drained

\* What changes the fate of a message is its own worker, on its own channel.
SettledBy(w, j) ==
  /\ deaths'[j] # deaths[j] => Nack(w) /\ connected[w] /\ job[w] = j
  /\ parked'[j] # parked[j] => Park(w) /\ connected[w] /\ job[w] = j
  /\ at'[j] = "acked" /\ at[j] # "acked" => Ack(w) /\ connected[w] /\ job[w] = j

\* A step changes the fate of a message through its own worker or not at all.
LEMMA QueueStep ==
  ASSUME IInv, [Next]_vars, NEW j \in Jobs
  PROVE  \/ \E w \in Workers : SettledBy(w, j)
         \/ /\ deaths'[j] = deaths[j] /\ parked'[j] = parked[j]
            /\ at'[j] = "acked" => at[j] = "acked"
<1>1. ASSUME NEW w \in Workers, Deliver(w) PROVE SettledBy(w, j)
  BY <1>1 DEF Deliver, SettledBy, queueVars, IInv, TypeOK, QueueTypeOK, Push
<1>2. ASSUME NEW w \in Workers, Take(w) PROVE SettledBy(w, j)
  BY <1>2 DEF Take, SettledBy, queueVars, IInv, TypeOK, QueueTypeOK
<1>3. ASSUME NEW w \in Workers, Check(w) PROVE SettledBy(w, j)
  BY <1>3 DEF Check, SettledBy, queueVars, IInv, TypeOK, QueueTypeOK
<1>4. ASSUME NEW w \in Workers, Mark(w) PROVE SettledBy(w, j)
  BY <1>4 DEF Mark, SettledBy, queueVars, IInv, TypeOK, QueueTypeOK
<1>5. ASSUME NEW w \in Workers, Fetch(w) PROVE SettledBy(w, j)
  BY <1>5 DEF Fetch, SettledBy, queueVars, IInv, TypeOK, QueueTypeOK
<1>6. ASSUME NEW w \in Workers, Put(w) PROVE SettledBy(w, j)
  BY <1>6 DEF Put, SettledBy, queueVars, IInv, TypeOK, QueueTypeOK
<1>7. ASSUME NEW w \in Workers, Record(w) PROVE SettledBy(w, j)
  BY <1>7 DEF Record, SettledBy, queueVars, IInv, TypeOK, QueueTypeOK
<1>8. ASSUME NEW w \in Workers, Finalize(w) PROVE SettledBy(w, j)
  BY <1>8 DEF Finalize, SettledBy, queueVars, IInv, TypeOK, QueueTypeOK
<1>9. ASSUME NEW w \in Workers, Announce(w) PROVE SettledBy(w, j)
  BY <1>9 DEF Announce, SettledBy, queueVars, IInv, TypeOK, QueueTypeOK
<1>10. ASSUME NEW w \in Workers, Fail(w) PROVE SettledBy(w, j)
  BY <1>10 DEF Fail, SettledBy, queueVars, IInv, TypeOK, QueueTypeOK
<1>11. ASSUME NEW w \in Workers, Tell(w) PROVE SettledBy(w, j)
  BY <1>11 DEF Tell, SettledBy, queueVars, IInv, TypeOK, QueueTypeOK
<1>12. ASSUME NEW w \in Workers, Park(w) PROVE SettledBy(w, j)
  BY <1>12
  DEF Park, SettledBy, queueVars, IInv, TypeOK, QueueTypeOK, OnChannel,
      ParkMessage
<1>13. ASSUME NEW w \in Workers, Ack(w) PROVE SettledBy(w, j)
  BY <1>13
  DEF Ack, SettledBy, queueVars, IInv, TypeOK, QueueTypeOK, OnChannel,
      AckMessage
<1>14. ASSUME NEW w \in Workers, Nack(w) PROVE SettledBy(w, j)
  BY <1>14
  DEF Nack, SettledBy, queueVars, IInv, TypeOK, QueueTypeOK, OnChannel,
      NackMessage
<1>15. ASSUME NEW w \in Workers, ConnectionLost(w) PROVE SettledBy(w, j)
  BY <1>15
  DEF ConnectionLost, SettledBy, queueVars, IInv, TypeOK, QueueTypeOK, Requeue
<1>16. ASSUME NEW w \in Workers, Crash(w) PROVE SettledBy(w, j)
  BY <1>16 DEF Crash, SettledBy, queueVars, IInv, TypeOK, QueueTypeOK, Requeue
<1>17. ASSUME NEW w \in Workers, Sigterm(w) PROVE SettledBy(w, j)
  BY <1>17 DEF Sigterm, SettledBy, queueVars, IInv, TypeOK, QueueTypeOK
<1>18. ASSUME NEW w \in Workers, Exit(w) PROVE SettledBy(w, j)
  BY <1>18 DEF Exit, SettledBy, queueVars, IInv, TypeOK, QueueTypeOK, Requeue
<1>19. ASSUME NEW i \in Jobs, Expire(i)
       PROVE  deaths'[j] = deaths[j] /\ parked'[j] = parked[j] /\ (at'[j] = "acked" => at[j] = "acked")
  BY <1>19 DEF Expire, ExpireRetry, SettledBy, queueVars, IInv, TypeOK, QueueTypeOK
<1>20. UNCHANGED vars => deaths'[j] = deaths[j] /\ parked'[j] = parked[j] /\ (at'[j] = "acked" => at[j] = "acked")
  BY DEF vars, SettledBy, queueVars, IInv, TypeOK, QueueTypeOK
<1>21. QED
  BY <1>1, <1>2, <1>3, <1>4, <1>5, <1>6, <1>7, <1>8, <1>9, <1>10, <1>11, <1>12,
     <1>13, <1>14, <1>15, <1>16, <1>17, <1>18, <1>19, <1>20
  DEF Next, Handle, Drained

\* Who moves a message: QueueStep, read per kind of move.
LEMMA QueueMoves ==
  ASSUME IInv, [Next]_vars, NEW j \in Jobs
  PROVE  /\ deaths'[j] # deaths[j] =>
              \E w \in Workers : Nack(w) /\ connected[w] /\ job[w] = j
         /\ parked'[j] # parked[j] =>
              \E w \in Workers : Park(w) /\ connected[w] /\ job[w] = j
         /\ at'[j] = "acked" /\ at[j] # "acked" =>
              \E w \in Workers : Ack(w) /\ connected[w] /\ job[w] = j
  BY QueueStep DEF SettledBy

\* A handler keeps its excuse, whether it moves or not.
LEMMA ExcusedStep ==
  ASSUME IInv, [Next]_vars, NEW v \in Workers
  PROVE  Excused(v)'
<1>1. Excused(v)
  BY DEF IInv, Settlement
<1>2. TypeOK /\ (pc[v] # "idle" => job[v] \in Jobs)
  BY BusyJob DEF IInv
<1>3. CASE Unmoved(v)
  <2>1. connected'[v] => connected[v] \/ pc[v] = "idle"
    BY <1>3, LostStaysLost DEF Unmoved
  <2>2. CASE pc[v] = "idle"
    BY <1>3, <2>2 DEF Unmoved, Excused
  <2>3. CASE pc[v] # "idle"
    <3>1. parked[job[v]] > 0 => parked'[job[v]] > 0
      BY <1>2, <2>3, StoresGrow, TypeStep DEF TypeOK, QueueTypeOK
    <3>2. QED
      BY <1>1, <1>2, <1>3, <2>1, <2>3, <3>1 DEF Unmoved, Excused
  <2>4. QED
    BY <2>2, <2>3
<1>4. CASE ~Unmoved(v)
  <2>1. CASE Take(v)
    BY <1>2, <2>1, ImageAssumption DEF Take, Held, Goto, Excused, TypeOK
  <2>2. CASE Check(v) \/ Mark(v) \/ Announce(v) \/ Tell(v) \/ Fail(v)
    BY <1>1, <1>2, <2>2
    DEF Check, Mark, Announce, Tell, Fail, Goto, handlerVars, Excused, TypeOK
  <2>3. CASE Fetch(v)
    BY <1>1, <1>2, <2>3, LoopStepType
    DEF Fetch, Goto, Raise, handlerVars, Excused, TypeOK
  <2>4. CASE Put(v) \/ Finalize(v)
    BY <1>1, <1>2, <2>4 DEF Put, Finalize, Goto, Raise, handlerVars, Excused, TypeOK
  <2>5. CASE Record(v)
    BY <1>1, <1>2, <2>5, LoopStepType DEF Record, Goto, Raise, Excused, TypeOK
  <2>6. CASE Park(v)
    BY <1>1, <1>2, <2>6
    DEF Park, MustPark, OnChannel, ParkMessage, Goto, handlerVars, processVars,
        Excused, TypeOK, QueueTypeOK
  <2>7. CASE Ack(v) \/ Nack(v) \/ Crash(v)
    BY <1>2, <2>7 DEF Ack, Nack, Crash, BackToLoop, Goto, Excused, TypeOK
  <2>8. QED
    BY <1>4, Moves, <2>1, <2>2, <2>3, <2>4, <2>5, <2>6, <2>7
<1>5. QED
  BY <1>3, <1>4

\* The retry loop stays bounded, parking has its cause, and what is acked is
\* stored or parked.
LEMMA SettlementStep == IInv /\ [Next]_vars => Settlement'
<1> SUFFICES ASSUME IInv, [Next]_vars PROVE Settlement'
  OBVIOUS
<1> USE DEF IInv, Settlement
<1>1. RetriesBounded'
  <2> SUFFICES ASSUME NEW j \in Jobs PROVE deaths'[j] = 0 \/ deaths'[j] < MaxRetries
    BY DEF RetriesBounded
  <2>1. CASE deaths'[j] = deaths[j]
    BY <2>1 DEF RetriesBounded
  <2>2. CASE deaths'[j] # deaths[j]
    <3>1. PICK w \in Workers : Nack(w) /\ connected[w] /\ job[w] = j
      BY <2>2, QueueMoves
    <3>2. attempt[w] = deaths[j] + 1 /\ deaths[j] \in Nat
      BY <3>1
      DEF Nack, Ownership, AttemptIsCurrent, AttemptOf, Busy, TypeOK,
          QueueTypeOK
    <3>3. attempt[w] < MaxRetries
      BY <3>1, <3>2, QueueAssumption DEF Nack, MustRetry, MustPark, GivesUp
    <3>4. deaths'[j] = deaths[j] + 1
      BY <3>1 DEF Nack, OnChannel, NackMessage, TypeOK, QueueTypeOK
    <3>5. QED
      BY <3>2, <3>3, <3>4
  <2>3. QED
    BY <2>1, <2>2
<1>2. ParkedForCause'
  <2> SUFFICES ASSUME NEW j \in Jobs, parked'[j] > 0
               PROVE  j \in Undecodable \cup Unreadable \/ deaths'[j] + 1 >= MaxRetries
    BY DEF ParkedForCause, AttemptOf
  <2>1. deaths'[j] >= deaths[j] /\ deaths[j] \in Nat /\ deaths'[j] \in Nat
    BY DeathsGrow, TypeStep DEF TypeOK, QueueTypeOK
  <2>2. j \in Undecodable \cup Unreadable \/ deaths[j] + 1 >= MaxRetries
    <3>1. CASE parked'[j] = parked[j]
      BY <3>1 DEF ParkedForCause, AttemptOf
    <3>2. CASE parked'[j] # parked[j]
      <4>1. PICK w \in Workers : Park(w) /\ connected[w] /\ job[w] = j
        BY <3>2, QueueMoves
      <4>2. attempt[w] = deaths[j] + 1
        BY <4>1 DEF Park, Ownership, AttemptIsCurrent, AttemptOf, Busy
      <4>3. err[w] = "permanent" => j \in Undecodable \cup Unreadable
        BY <4>1 DEF Park, Excused
      <4>4. QED
        BY <4>1, <4>2, <4>3 DEF Park, MustPark, GivesUp
    <3>3. QED
      BY <3>1, <3>2
  <2>3. QED
    BY <2>1, <2>2, QueueAssumption
<1>3. NothingLost'
  <2> SUFFICES ASSUME NEW j \in Jobs, at'[j] = "acked"
               PROVE  Complete(j)' \/ parked'[j] > 0
    BY DEF NothingLost
  <2>1. Complete(j) \/ parked[j] > 0
    <3>1. CASE at[j] = "acked"
      BY <3>1 DEF NothingLost
    <3>2. CASE at[j] # "acked"
      <4>1. PICK w \in Workers : Ack(w) /\ connected[w] /\ job[w] = j
        BY <3>2, QueueMoves
      <4>2. QED
        BY <4>1 DEF Ack, Excused, Progress, Progressed
    <3>3. QED
      BY <3>1, <3>2
  <2>2. parked[j] \in Nat /\ parked'[j] \in Nat
    BY TypeStep DEF TypeOK, QueueTypeOK
  <2>3. QED
    BY <2>1, <2>2, CompleteStays, StoresGrow
<1>4. \A v \in Workers : Excused(v)'
  BY ExcusedStep
<1>5. QED
  BY <1>1, <1>2, <1>3, <1>4

\* The initial states satisfy the invariant.
LEMMA InvInit == Init => IInv
<1> SUFFICES ASSUME Init PROVE IInv
  OBVIOUS
<1>1. TypeOK
  BY QueueAssumption, ImageAssumption
  DEF Init, QueueInit, TypeOK, QueueTypeOK, Place, Status, Step
<1>2. Ownership
  BY DEF Init, QueueInit, Ownership, HeldIsUnacked, BusyHasJob, Busy,
         HandlerHoldsMessage, AttemptIsCurrent
<1>3. Progress
  BY DEF Init, Progress, NoDanglingArtifact, CompletedHasArtifacts, Progressed
<1>4. Settlement
  BY DEF Init, QueueInit, Settlement, RetriesBounded, ParkedForCause,
         NothingLost, Excused
<1>5. QED
  BY <1>1, <1>2, <1>3, <1>4 DEF IInv

\* Every step preserves it.
LEMMA InvStep == IInv /\ [Next]_vars => IInv'
  BY TypeStep, OwnershipStep, ProgressStep, SettlementStep DEF IInv

\* The inductive invariant holds in every state of every instance.
THEOREM Invariance == Spec => []IInv
  BY InvInit, InvStep, PTL DEF Spec

\* Every variable keeps its type.
THEOREM TypeCorrect == Spec => []TypeOK
<1>1. IInv => TypeOK
  BY DEF IInv
<1>2. QED
  BY <1>1, Invariance, PTL

\* No message leaves the queue without its artifacts or a parked copy.
THEOREM NothingIsLost == Spec => []NothingLost
<1>1. IInv => NothingLost
  BY DEF IInv, Settlement
<1>2. QED
  BY <1>1, Invariance, PTL

\* The retry loop is bounded and parks for a cause only.
THEOREM RetryPolicy == Spec => [](RetriesBounded /\ ParkedForCause)
<1>1. IInv => RetriesBounded /\ ParkedForCause
  BY DEF IInv, Settlement
<1>2. QED
  BY <1>1, Invariance, PTL

\* A completed job has every artifact, and every artifact its object.
THEOREM CompletedIsComplete == Spec => [](CompletedHasArtifacts /\ NoDanglingArtifact)
<1>1. IInv => CompletedHasArtifacts /\ NoDanglingArtifact
  BY DEF IInv, Progress
<1>2. QED
  BY <1>1, Invariance, PTL

\* A worker settles the message the broker holds for it.
THEOREM SettlesItsOwn == Spec => []HandlerHoldsMessage
<1>1. IInv => HandlerHoldsMessage
  BY DEF IInv, Ownership
<1>2. QED
  BY <1>1, Invariance, PTL

----
(***************************************************************************)
(* Restarts, planned or not, leave the lives of the jobs in order.         *)
(***************************************************************************)

\* Where a handler that marked its job has seen a later call work.
Past == {"put", "record", "finalize"}

\* As long as workers only crash or are told to stop, no channel outlives its
\* process, and what the handler knows of its job stays true: it is not
\* completed after the check, and it is processing once it was marked.  Only a
\* handler whose calls are cancelled may be wrong about it, and then it writes
\* nothing.
OnlyRestarts ==
  seen \subseteq {"crash", "sigterm"} =>
    \A w \in Workers :
      /\ connected[w]
      /\ pc[w] = "mark" /\ ~cancelled[w] => status[job[w]] # "completed"
      /\ pc[w] \in {"fetch", "fail"} /\ ~cancelled[w] => status[job[w]] = "processing"
      /\ pc[w] \in Past => status[job[w]] = "processing"

\* Two workers with their channels have different jobs in hand.
LEMMA Exclusive ==
  ASSUME IInv, NEW v \in Workers, NEW w \in Workers, pc[v] # "idle", pc[w] # "idle",
         connected[v], connected[w], job[v] = job[w]
  PROVE  v = w
  BY DEF IInv, Ownership, HandlerHoldsMessage

\* The kinds of disturbance only add up.
LEMMA SeenGrows == [Next]_vars => seen \subseteq seen'
<1> SUFFICES ASSUME [Next]_vars PROVE seen \subseteq seen'
  OBVIOUS
<1> USE DEF faultVars, CallWorks, CallFails, Disturb
<1>1. ASSUME NEW w \in Workers, Check(w) \/ Mark(w) \/ Fetch(w) \/ Put(w) PROVE seen \subseteq seen'
  BY <1>1 DEF Check, Mark, Fetch, Put
<1>2. ASSUME NEW w \in Workers, Record(w) \/ Finalize(w) \/ Fail(w) PROVE seen \subseteq seen'
  BY <1>2 DEF Record, Finalize, Fail
<1>3. ASSUME NEW w \in Workers, Deliver(w) \/ Take(w) \/ Announce(w) \/ Tell(w)
      PROVE  seen \subseteq seen'
  BY <1>3 DEF Deliver, Take, Announce, Tell
<1>4. ASSUME NEW w \in Workers, Park(w) \/ Ack(w) \/ Nack(w) PROVE seen \subseteq seen'
  BY <1>4 DEF Park, Ack, Nack
<1>5. ASSUME NEW w \in Workers, ConnectionLost(w) \/ Crash(w) \/ Sigterm(w) \/ Exit(w)
      PROVE  seen \subseteq seen'
  BY <1>5 DEF ConnectionLost, Crash, Sigterm, Exit
<1>6. ASSUME NEW j \in Jobs, Expire(j) PROVE seen \subseteq seen'
  BY <1>6 DEF Expire
<1>7. CASE UNCHANGED vars
  BY <1>7 DEF vars
<1>8. QED
  BY <1>1, <1>2, <1>3, <1>4, <1>5, <1>6, <1>7 DEF Next, Handle, Drained

\* Without connection failures a worker keeps its channel, and a handler that
\* SIGTERM has cancelled stays so.
LEMMA ProcessStep ==
  ASSUME IInv, [Next]_vars, "connection" \notin seen', NEW v \in Workers, connected[v]
  PROVE  connected'[v] /\ (cancelled[v] /\ pc[v] # "idle" /\ Unmoved(v) => cancelled'[v])
<1> DEFINE Goal ==
      connected'[v] /\ (cancelled[v] /\ pc[v] # "idle" /\ Unmoved(v) => cancelled'[v])
<1>1. ASSUME NEW w \in Workers,
             \/ Deliver(w) \/ Take(w) \/ Check(w) \/ Mark(w) \/ Fetch(w) \/ Put(w)
             \/ Record(w) \/ Finalize(w) \/ Announce(w) \/ Fail(w) \/ Tell(w) \/ Park(w)
      PROVE  Goal
  <2>1. UNCHANGED processVars
    BY <1>1 DEF Deliver, Take, Check, Mark, Fetch, Put, Record, Finalize, Announce, Fail,
                Tell, Park
  <2>2. QED
    BY <2>1 DEF processVars
<1>2. ASSUME NEW w \in Workers, Ack(w) \/ Nack(w) PROVE Goal
  BY <1>2 DEF Ack, Nack, BackToLoop, IInv, TypeOK
<1>3. ASSUME NEW w \in Workers, Crash(w) PROVE Goal
  BY <1>3 DEF Crash, Goto, Unmoved, IInv, TypeOK
<1>4. ASSUME NEW w \in Workers, ConnectionLost(w) PROVE FALSE
  BY <1>4 DEF ConnectionLost, Disturb
<1>5. ASSUME NEW w \in Workers, Sigterm(w) \/ Exit(w) PROVE Goal
  BY <1>5 DEF Sigterm, Exit, IInv, TypeOK
<1>6. ASSUME NEW j \in Jobs, Expire(j) PROVE Goal
  BY <1>6 DEF Expire, processVars
<1>7. CASE UNCHANGED vars
  BY <1>7 DEF vars, processVars
<1>8. QED
  BY <1>1, <1>2, <1>3, <1>4, <1>5, <1>6, <1>7 DEF Next, Handle, Drained

\* Only the handler of a job sets its status.
LEMMA StatusByHandler ==
  ASSUME IInv, [Next]_vars, NEW j \in Jobs, status'[j] # status[j]
  PROVE  \E w \in Workers : (Mark(w) \/ Finalize(w) \/ Fail(w)) /\ job[w] = j
<1> DEFINE Goal == \E w \in Workers : (Mark(w) \/ Finalize(w) \/ Fail(w)) /\ job[w] = j
<1>1. ASSUME NEW w \in Workers, Mark(w) \/ Finalize(w) \/ Fail(w) PROVE job[w] = j
  <2>1. status' \in {status, [status EXCEPT ![job[w]] = "processing"],
                     [status EXCEPT ![job[w]] = "completed"],
                     [status EXCEPT ![job[w]] = "failed"]}
    BY <1>1 DEF Mark, Finalize, Fail, SetStatus
  <2>2. QED
    BY <2>1 DEF IInv, TypeOK
<1>2. ASSUME NEW w \in Workers,
             \/ Deliver(w) \/ Take(w) \/ Check(w) \/ Fetch(w) \/ Put(w) \/ Record(w)
             \/ Announce(w) \/ Tell(w) \/ Park(w) \/ Ack(w) \/ Nack(w)
      PROVE  FALSE
  BY <1>2 DEF Deliver, Take, Check, Fetch, Put, Record, Announce, Tell, Park, Ack, Nack, storeVars
<1>3. ASSUME NEW w \in Workers, ConnectionLost(w) \/ Crash(w) \/ Sigterm(w) \/ Exit(w)
      PROVE  FALSE
  BY <1>3 DEF ConnectionLost, Crash, Sigterm, Exit, storeVars
<1>4. ASSUME NEW i \in Jobs, Expire(i) PROVE FALSE
  BY <1>4 DEF Expire, storeVars
<1>5. CASE UNCHANGED vars
  BY <1>5 DEF vars, storeVars
<1>6. QED
  BY <1>1, <1>2, <1>3, <1>4, <1>5 DEF Next, Handle, Drained

\* A call of a live handler works as long as no call fails.
LEMMA NoCallFails ==
  ASSUME IInv, "call" \notin seen', NEW w \in Workers, CallFails(w)
  PROVE  cancelled[w]
  BY DEF CallFails, Disturb

\* A handler at work moves its job on in its life, or leaves its status alone.
LEMMA HandlerKeepsOrder ==
  ASSUME IInv, OnlyRestarts, [Next]_vars, seen' \subseteq {"crash", "sigterm"},
         NEW w \in Workers, Mark(w) \/ Finalize(w) \/ Fail(w),
         status'[job[w]] # status[job[w]]
  PROVE  <<status[job[w]], status'[job[w]]>> \in Lifecycle
<1>1. job[w] \in Jobs /\ status \in [Jobs -> Status] /\ seen \subseteq {"crash", "sigterm"}
  BY SeenGrows, BusyJob DEF Mark, Finalize, Fail, IInv, TypeOK
<1>2. CASE Mark(w)
  BY <1>1, <1>2 DEF Mark, OnlyRestarts, CallWorks, SetStatus, Lifecycle, Status
<1>3. CASE Finalize(w)
  BY <1>1, <1>3 DEF Finalize, OnlyRestarts, Past, SetStatus, Lifecycle
<1>4. CASE Fail(w)
  BY <1>1, <1>4 DEF Fail, OnlyRestarts, CallWorks, SetStatus, Lifecycle
<1>5. QED
  BY <1>2, <1>3, <1>4

\* Every step preserves it.
LEMMA OnlyRestartsStep == IInv /\ OnlyRestarts /\ [Next]_vars => OnlyRestarts'
<1> DEFINE Known(v) ==
      /\ pc[v] = "mark" /\ ~cancelled[v] => status[job[v]] # "completed"
      /\ pc[v] \in {"fetch", "fail"} /\ ~cancelled[v] => status[job[v]] = "processing"
      /\ pc[v] \in Past => status[job[v]] = "processing"
<1> SUFFICES ASSUME IInv, OnlyRestarts, [Next]_vars, seen' \subseteq {"crash", "sigterm"},
                    NEW v \in Workers
             PROVE  connected'[v] /\ Known(v)'
  BY DEF OnlyRestarts
<1>1. \A w \in Workers : connected[w] /\ Known(w)
  BY SeenGrows DEF OnlyRestarts
<1>2. connected'[v] /\ (cancelled[v] /\ pc[v] # "idle" /\ Unmoved(v) => cancelled'[v])
  BY <1>1, ProcessStep
<1>3. CASE Unmoved(v)
  <2> SUFFICES ASSUME pc[v] \in Past \cup {"mark", "fetch", "fail"}
               PROVE  Known(v)'
    BY <1>2, <1>3 DEF Unmoved
  <2>1. pc[v] # "idle" /\ job[v] \in Jobs
    BY BusyJob DEF Past
  <2>2. status'[job[v]] = status[job[v]]
    <3> SUFFICES ASSUME status'[job[v]] # status[job[v]] PROVE FALSE
      OBVIOUS
    <3>1. PICK w \in Workers : (Mark(w) \/ Finalize(w) \/ Fail(w)) /\ job[w] = job[v]
      BY <2>1, StatusByHandler
    <3>2. w = v
      BY <1>1, <2>1, <3>1, Exclusive DEF Mark, Finalize, Fail
    <3>3. QED
      BY <1>3, <3>1, <3>2 DEF Mark, Finalize, Fail, Goto, Raise, Unmoved, IInv, TypeOK
  <2>3. QED
    BY <1>1, <1>2, <1>3, <2>1, <2>2 DEF Unmoved
<1>4. CASE ~Unmoved(v)
  <2> SUFFICES Known(v)'
    BY <1>2
  <2>1. pc \in [Workers -> Step] /\ status \in [Jobs -> Status]
    BY DEF IInv, TypeOK
  <2> USE <2>1 DEF Goto
  <2>2. CASE Take(v) \/ Fail(v) \/ Announce(v) \/ Tell(v)
    <3>1. pc'[v] \in {"check", "tell", "settle"}
      BY <2>2 DEF Take, Fail, Announce, Tell
    <3>2. QED
      BY <3>1 DEF Past
  <2>3. CASE Park(v) \/ Ack(v) \/ Nack(v) \/ Crash(v)
    <3>1. pc'[v] \in {"idle", "ack"}
      BY <2>3 DEF Park, Ack, Nack, BackToLoop, Crash
    <3>2. QED
      BY <3>1 DEF Past
  <2>4. CASE Check(v)
    BY <1>1, <2>4, NoCallFails DEF Check, Past, storeVars, handlerVars, processVars
  <2>5. CASE Mark(v)
    <3>1. job[v] \in Jobs
      BY <2>5, BusyJob DEF Mark
    <3>2. QED
      BY <1>1, <2>5, <3>1, NoCallFails DEF Mark, Past, SetStatus, handlerVars, processVars
  <2>6. CASE Fetch(v)
    BY <1>1, <2>6, NoCallFails
    DEF Fetch, CallWorks, LoopStep, Raise, Past, storeVars, handlerVars, processVars
  <2>7. CASE Put(v)
    BY <1>1, <2>7, NoCallFails DEF Put, Raise, Past, handlerVars, processVars
  <2>8. CASE Record(v)
    BY <1>1, <2>8, NoCallFails DEF Record, LoopStep, Raise, Past, processVars
  <2>9. CASE Finalize(v)
    BY <1>1, <2>9, NoCallFails DEF Finalize, Raise, Past, processVars
  <2>10. QED
    BY <1>4, <2>2, <2>3, <2>4, <2>5, <2>6, <2>7, <2>8, <2>9, Moves
<1>5. QED
  BY <1>2, <1>3, <1>4

\* Restarts leave the lives of the jobs in order, wherever they fall.
THEOREM OrderSurvivesRestarts == Spec => RestartsKeepOrder
<1>1. Init => OnlyRestarts
  BY DEF Init, OnlyRestarts, Past
<1>2. IInv /\ OnlyRestarts /\ [Next]_vars =>
        [seen' \subseteq {"crash", "sigterm"} =>
           \A j \in Jobs :
             status'[j] # status[j] => <<status[j], status'[j]>> \in Lifecycle]_vars
  BY StatusByHandler, HandlerKeepsOrder
<1>3. QED
  BY <1>1, <1>2, Invariance, OnlyRestartsStep, PTL DEF Spec, RestartsKeepOrder

----
(***************************************************************************)
(* The workers implement the safety part of JobContract.                   *)
(***************************************************************************)

\* The jobs are open, only what needs no output is stored, and nothing has
\* been retried.
LEMMA ContractInit == Init => Contract!Init
<1> SUFFICES ASSUME Init PROVE Contract!Init
  OBVIOUS
<1>1. ASSUME NEW j \in Jobs PROVE Complete(j) <=> Len(Results[j]) = 0
  BY ResultsAreVariants DEF Init, Complete
<1>2. QED
  BY <1>1 DEF Init, QueueInit, Contract!Init

\* A row adds to its own job only: a Store of the contract when it is the
\* last one missing.  The job may be one that another worker has closed.
LEMMA RecordRefines ==
  ASSUME IInv, [Next]_vars, NEW w \in Workers, Record(w), NEW j \in Jobs, j = job[w]
  PROVE  Contract!Next \/ UNCHANGED Contract!contractVars
<1>1. ASSUME NEW i \in Jobs, i # j PROVE Complete(i)' <=> Complete(i)
  <2>1. rows'[i] = rows[i]
    BY <1>1 DEF Record, AddArtifact, IInv, TypeOK
  <2>2. QED
    BY <2>1 DEF Complete
<1>2. Complete(j) => Complete(j)'
  BY CompleteStays
<1>3. UNCHANGED queueVars
  BY DEF Record
<1>4. CASE Complete(j)' <=> Complete(j)
  BY <1>1, <1>3, <1>4 DEF queueVars, Contract!contractVars
<1>5. CASE ~(Complete(j)' <=> Complete(j))
  <2>1. Contract!Store(j)
    BY <1>1, <1>2, <1>3, <1>5 DEF queueVars, Contract!Store
  <2>2. QED
    BY <2>1 DEF Contract!Next
<1>6. QED
  BY <1>4, <1>5

\* On a channel that is there, parking is giving up, dead-lettering a retry
\* and acking a close; on one that is gone they are nothing.
LEMMA SettleRefines ==
  ASSUME IInv, [Next]_vars, NEW w \in Workers, Park(w) \/ Ack(w) \/ Nack(w),
         NEW j \in Jobs, j = job[w]
  PROVE  Contract!Next \/ UNCHANGED Contract!contractVars
<1>1. UNCHANGED rows
  BY DEF Park, Ack, Nack, storeVars
<1>2. {k \in Jobs : Complete(k)'} = {k \in Jobs : Complete(k)}
  BY <1>1 DEF Complete
<1>3. CASE ~connected[w]
  BY <1>1, <1>2, <1>3 DEF Park, Ack, Nack, OnChannel, queueVars, Contract!contractVars
<1>4. CASE connected[w]
  <2>1. /\ at[j] = "unacked" /\ attempt[w] = deaths[j] + 1 /\ TypeOK
        /\ Excused(w) /\ Progressed(w) /\ pc[w] # "idle"
    BY <1>4
    DEF Park, Ack, Nack, IInv, Ownership, HandlerHoldsMessage, AttemptIsCurrent,
        AttemptOf, Busy, Settlement, Progress
  <2>2. ASSUME Park(w) PROVE Contract!GiveUp(j)
    <3>1. j \in Undecodable \cup Unreadable \/ deaths[j] + 1 >= MaxRetries
      BY <2>1, <2>2 DEF Park, MustPark, GivesUp, Excused
    <3>2. {k \in Jobs : parked'[k] > 0} = {k \in Jobs : parked[k] > 0} \cup {j}
      BY <1>4, <2>1, <2>2 DEF Park, OnChannel, ParkMessage, TypeOK, QueueTypeOK
    <3>3. QED
      BY <1>2, <1>4, <2>1, <2>2, <3>1, <3>2 DEF Park, OnChannel, ParkMessage, Contract!GiveUp
  <2>3. ASSUME Ack(w) PROVE Contract!Close(j)
    <3>1. Complete(j) \/ parked[j] > 0
      BY <1>4, <2>1, <2>3 DEF Ack, Excused, Progressed
    <3>2. {k \in Jobs : at'[k] # "acked"} = {k \in Jobs : at[k] # "acked"} \ {j}
      BY <1>4, <2>1, <2>3 DEF Ack, OnChannel, AckMessage, TypeOK, QueueTypeOK
    <3>3. QED
      BY <1>2, <1>4, <2>1, <2>3, <3>1, <3>2 DEF Ack, OnChannel, AckMessage, Contract!Close
  <2>4. ASSUME Nack(w) PROVE Contract!Retry(j)
    <3>1. deaths[j] + 1 < MaxRetries
      BY <2>1, <2>4, QueueAssumption DEF Nack, MustRetry, MustPark, GivesUp, TypeOK, QueueTypeOK
    <3>2. {k \in Jobs : at'[k] # "acked"} = {k \in Jobs : at[k] # "acked"}
      BY <1>4, <2>1, <2>4 DEF Nack, OnChannel, NackMessage, TypeOK, QueueTypeOK
    <3>3. QED
      BY <1>2, <1>4, <2>1, <2>4, <3>1, <3>2 DEF Nack, OnChannel, NackMessage, Contract!Retry
  <2>5. QED
    BY <2>2, <2>3, <2>4 DEF Contract!Next
<1>5. QED
  BY <1>3, <1>4

\* The rest moves a message between the queue, a channel and the retry queue,
\* which the contract does not tell apart.
LEMMA ContractStep == IInv /\ [Next]_vars => [Contract!Next]_(Contract!contractVars)
<1> SUFFICES ASSUME IInv, [Next]_vars
             PROVE  Contract!Next \/ UNCHANGED Contract!contractVars
  OBVIOUS
<1> DEFINE Still ==
      /\ rows' = rows /\ deaths' = deaths /\ parked' = parked
      /\ \A j \in Jobs : at'[j] = "acked" <=> at[j] = "acked"
<1>1. Still => UNCHANGED Contract!contractVars
  BY DEF Contract!contractVars, Complete
<1> USE DEF storeVars, queueVars
<1>2. ASSUME NEW w \in Workers,
             \/ Take(w) \/ Check(w) \/ Mark(w) \/ Fetch(w) \/ Put(w) \/ Finalize(w)
             \/ Announce(w) \/ Fail(w) \/ Tell(w) \/ Sigterm(w)
      PROVE  Still
  BY <1>2 DEF Take, Check, Mark, Fetch, Put, Finalize, Announce, Fail, Tell, Sigterm
<1>3. ASSUME NEW w \in Workers, Deliver(w) PROVE Still
  BY <1>3 DEF Deliver, Push, IInv, TypeOK, QueueTypeOK
<1>4. ASSUME NEW w \in Workers, ConnectionLost(w) \/ Crash(w) \/ Exit(w) PROVE Still
  BY <1>4, QueueAssumption
  DEF ConnectionLost, Crash, Exit, Requeue, IInv, TypeOK, QueueTypeOK, Ownership, HeldIsUnacked
<1>5. ASSUME NEW j \in Jobs, Expire(j) PROVE Still
  BY <1>5 DEF Expire, ExpireRetry, IInv, TypeOK, QueueTypeOK
<1>6. CASE UNCHANGED vars
  BY <1>1, <1>6 DEF vars
<1>7. ASSUME NEW w \in Workers, Record(w) \/ Park(w) \/ Ack(w) \/ Nack(w)
      PROVE  Contract!Next \/ UNCHANGED Contract!contractVars
  <2>1. PICK j \in Jobs : j = job[w]
    BY <1>7, BusyJob DEF Record, Park, Ack, Nack
  <2>2. QED
    BY <1>7, <2>1, RecordRefines, SettleRefines
<1>8. QED
  <2> HIDE DEF Still
  <2> QED
    BY <1>1, <1>2, <1>3, <1>4, <1>5, <1>6, <1>7 DEF Next, Handle, Drained

\* The safety part of ImplementsContract: bounded, at-least-once processing.
THEOREM ImplementsContractSafely == Spec => Contract!Safety
  BY Invariance, ContractInit, ContractStep, PTL DEF Spec, Contract!Safety

====
