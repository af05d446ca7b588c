---- MODULE StatusView ----
(***************************************************************************)
(* The gateway's GET /v1/media/{id} next to the workers of ImageWorker:    *)
(* handleStatus calls Store.GetJob, which reads the job row and then the   *)
(* artifact rows, in two queries without a common snapshot, while workers  *)
(* record artifacts, change the status and start over.                     *)
(***************************************************************************)
EXTENDS ImageWorker

CONSTANTS
  NoView, \* no request under way
  Unread  \* the artifacts before the second query

\* What has been read of a job.
View == [job : Jobs, status : Status, artifacts : (SUBSET Variants) \cup {Unread}]

ASSUME ViewAssumption == NoView \notin View

VARIABLE view \* what the request under way has read

viewVars == <<vars, view>>

ViewTypeOK == view \in View \cup {NoView}

\* Mutant of GetJob: the artifacts are read first, the status last.
GetJobSwapped(j) ==
  \/ /\ view = NoView
     /\ view' = [job |-> j, status |-> "pending", artifacts |-> rows[j]]
  \/ /\ view # NoView
     /\ view.job = j /\ view.status = "pending"
     /\ view' = [view EXCEPT !.status = status[j]]

\* The row, then the artifacts.
GetJob(j) ==
  \/ /\ view = NoView
     /\ view' = [job |-> j, status |-> status[j], artifacts |-> Unread]
  \/ /\ view # NoView
     /\ view.job = j /\ view.artifacts = Unread
     /\ view' = [view EXCEPT !.artifacts = rows[j]]

\* The second query fails: 500, whatever the row said.
ReadFails ==
  /\ view # NoView /\ view.artifacts = Unread
  /\ view' = NoView

\* The answer is written, and the next request may come.
Respond ==
  /\ view # NoView /\ view.artifacts # Unread
  /\ view' = NoView

ViewInit == Init /\ view = NoView

ViewNext ==
  \/ Next /\ UNCHANGED view
  \/ ((\E j \in Jobs : GetJob(j)) \/ ReadFails \/ Respond) /\ UNCHANGED vars

ViewSpec == ViewInit /\ [][ViewNext]_viewVars

\* A client that is told `completed` is given every artifact in the same
\* answer: the poll of the control room stops there and shows what it got.
\* The status is read first, the artifacts grow, and a worker writes the
\* status last.
CompletedViewIsWhole ==
  view # NoView /\ view.status = "completed" /\ view.artifacts # Unread =>
    \A k \in 1..Len(Results[view.job]) : Results[view.job][k] \in view.artifacts

\* Every link in an answer leads to a stored object.
LinksLead ==
  view # NoView /\ view.artifacts # Unread => view.artifacts \subseteq objects[view.job]

====
