---- MODULE StatusViewProofs ----
(***************************************************************************)
(* Proofs about StatusView, for every value of its constants.  The reader  *)
(* changes nothing of the workers, so the invariant of ImageWorker carries *)
(* over; and between the two queries what is complete stays complete.      *)
(***************************************************************************)
EXTENDS StatusView, ImageWorkerProofs

\* What the reader has seen so far is still true of the stores: a job read
\* as completed has its artifacts, and so has the answer; the artifacts of
\* the answer are stored.
ViewSound ==
  view # NoView =>
    /\ view.job \in Jobs
    /\ view.status = "completed" => Complete(view.job)
    /\ view.artifacts # Unread =>
         /\ view.artifacts \subseteq objects[view.job]
         /\ view.status = "completed" =>
              \A k \in 1..Len(Results[view.job]) : Results[view.job][k] \in view.artifacts

\* The invariant of the composition.
ViewInv == IInv /\ ViewTypeOK /\ ViewSound

\* It holds before anything is read.
LEMMA ViewInvInit == ViewInit => ViewInv
  BY InvInit DEF ViewInit, ViewInv, ViewTypeOK, ViewSound

\* A step of the workers disturbs no answer.
LEMMA WorkersKeepView ==
  ASSUME ViewInv, [Next]_vars, UNCHANGED view
  PROVE  ViewInv'
<1>1. IInv'
  BY InvStep DEF ViewInv
<1>2. ViewTypeOK'
  BY DEF ViewInv, ViewTypeOK
<1>3. ViewSound'
  <2> SUFFICES ASSUME view # NoView PROVE ViewSound'
    BY DEF ViewSound
  <2>1. view.job \in Jobs
    BY DEF ViewInv, ViewSound
  <2>2. Complete(view.job) => Complete(view.job)'
    BY <2>1, CompleteStays DEF ViewInv
  <2>3. objects[view.job] \subseteq objects'[view.job]
    BY <2>1, StoresGrow DEF ViewInv
  <2>4. QED
    BY <2>1, <2>2, <2>3 DEF ViewInv, ViewSound, Complete
<1>4. QED
  BY <1>1, <1>2, <1>3 DEF ViewInv

\* So does a step of the reader.
LEMMA ReaderKeepsView ==
  ASSUME ViewInv, (\E j \in Jobs : GetJob(j)) \/ ReadFails \/ Respond, UNCHANGED vars
  PROVE  ViewInv'
<1>1. IInv'
  BY InvStep DEF ViewInv
<1>2. ASSUME NEW j \in Jobs, GetJob(j), view = NoView PROVE ViewTypeOK' /\ ViewSound'
  <2>1. view' = [job |-> j, status |-> status[j], artifacts |-> Unread]
    BY <1>2 DEF GetJob
  <2>2. status[j] \in Status
    BY DEF ViewInv, IInv, TypeOK
  <2>3. status[j] = "completed" => Complete(j)
    BY DEF ViewInv, IInv, Progress, CompletedHasArtifacts
  <2>4. Complete(j) => Complete(j)'
    BY DEF Complete, vars, storeVars
  <2>5. ViewTypeOK'
    BY <2>1, <2>2 DEF ViewTypeOK, View
  <2>6. QED
    BY <2>1, <2>3, <2>4, <2>5 DEF ViewSound
<1>3. ASSUME NEW j \in Jobs, GetJob(j), view # NoView PROVE ViewTypeOK' /\ ViewSound'
  <2>1. view \in View /\ view.job = j /\ view' = [view EXCEPT !.artifacts = rows[j]]
    BY <1>3 DEF GetJob, ViewInv, ViewTypeOK
  <2>2. rows[j] \in SUBSET Variants /\ rows[j] \subseteq objects[j]
    BY DEF ViewInv, IInv, TypeOK, Progress, NoDanglingArtifact
  <2>3. view' \in View
    BY <2>1, <2>2 DEF View
  <2>4. view'.job = j /\ view'.status = view.status /\ view'.artifacts = rows[j]
    BY <2>1 DEF View
  <2>5. view.status = "completed" => Complete(j)
    BY <1>3, <2>1 DEF ViewInv, ViewSound
  <2>6. UNCHANGED <<rows, objects>>
    BY DEF vars, storeVars
  <2>7. QED
    BY <2>2, <2>3, <2>4, <2>5, <2>6 DEF ViewTypeOK, ViewSound, Complete
<1>4. ASSUME ReadFails \/ Respond PROVE ViewTypeOK' /\ ViewSound'
  BY <1>4 DEF ReadFails, Respond, ViewTypeOK, ViewSound
<1>5. QED
  BY <1>1, <1>2, <1>3, <1>4 DEF ViewInv

\* Readers and workers keep it.
LEMMA ViewInvStep == ViewInv /\ [ViewNext]_viewVars => ViewInv'
  BY WorkersKeepView, ReaderKeepsView DEF ViewNext, viewVars

\* Every answer is whole and its links lead to stored objects, whatever the
\* workers do between the two queries, for any jobs, replicas and
\* disturbances.
THEOREM AnswersAreWhole == ViewSpec => [](CompletedViewIsWhole /\ LinksLead)
<1>1. ViewInv => CompletedViewIsWhole /\ LinksLead
  BY DEF ViewInv, ViewSound, CompletedViewIsWhole, LinksLead
<1>2. QED
  BY <1>1, ViewInvInit, ViewInvStep, PTL DEF ViewSpec

====
