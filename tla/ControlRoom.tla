---- MODULE ControlRoom ----
(***************************************************************************)
(* The control room (web/src/App.tsx): the queue of uploads with its       *)
(* runner, the panel of the job in focus, and what races for both: answers *)
(* to submissions, polls and loads, and the events of the WebSocket.       *)
(* JavaScript runs each handler to its next await without a break.         *)
(*                                                                         *)
(* The job of an item has the name of the item.  A worker's status change  *)
(* and the event that tells of it are one step here.                       *)
(***************************************************************************)
EXTENDS Naturals, Sequences, FiniteSetsExt, Filter, Lifecycle

CONSTANTS
  Items,     \* uploads
  Retried,   \* those whose job fails and is retried at will
  None,      \* no job, no item
  Unread,    \* status of a call that the gateway has not served yet
  MaxPolls,  \* polls after the first (90 in the code), for the queue and for the panel
  MaxEvents, \* bound on the events sent to the tab, further ones are lost
  MaxLoads   \* bound on the jobs a user loads

ASSUME ControlRoomAssumption ==
  /\ Retried \subseteq Items
  /\ None \notin Items
  /\ Unread \notin {"none", "pending", "processing", "completed", "failed", "error"}
  /\ MaxPolls \in [{"queue", "panel"} -> Nat]
  /\ {MaxEvents, MaxLoads} \subseteq Nat

VARIABLES
  queue,   \* queueRef: items with their status, in order, and whether their job is known
  running, \* the item the runner is at, None if it is not running
  focus,   \* currentJob
  panel,   \* status, jobs whose events are listed, job whose artifacts are shown
  calls,   \* calls of getJob under way: purpose, job, attempt and status read
  wanted,  \* jobs subscribed to
  wire,    \* events on their way to the tab
  job,     \* status of each job in the database
  used,    \* events sent and jobs loaded so far
  gaveUp   \* items whose polls ran out

tabVars == <<queue, running, focus, panel, calls, wanted>>
vars == <<tabVars, wire, job, used, gaveUp>>

Terminal == {"completed", "failed"}

Init ==
  /\ queue = <<>>
  /\ running = None
  /\ focus = None
  /\ panel = [status |-> "idle", events |-> {}, artifacts |-> None]
  /\ calls = {}
  /\ wanted = {}
  /\ wire = <<>>
  /\ job = [i \in Items |-> "none"]
  /\ used = [events |-> 0, loads |-> 0]
  /\ gaveUp = {}

----
(***************************************************************************)
(* The gateway, the workers and the wire                                   *)
(***************************************************************************)

\* The submission of the runner's item takes effect.
CreateJob ==
  /\ running # None /\ job[running] = "none"
  /\ job' = [job EXCEPT ![running] = "pending"]
  /\ UNCHANGED <<tabVars, wire, used, gaveUp>>

\* A worker sets the status and tells the subscribers; a failed attempt of a
\* job that is retried starts over.
Work(i) ==
  /\ \E status \in {"processing", "completed", "failed"} :
       /\ <<job[i], status>> \in Lifecycle
       /\ job[i] = "failed" => i \in Retried
       /\ job' = [job EXCEPT ![i] = status]
       /\ IF i \in wanted /\ used.events < MaxEvents
            THEN /\ wire' = Append(wire, [job |-> i, status |-> status])
                 /\ used' = [used EXCEPT !.events = @ + 1]
            ELSE UNCHANGED <<wire, used>>
  /\ UNCHANGED <<tabVars, gaveUp>>

\* The socket is lost and made again; the events in between are gone.
LoseEvents ==
  /\ wire # <<>>
  /\ wire' = <<>>
  /\ UNCHANGED <<tabVars, job, used, gaveUp>>

\* The gateway reads a job for a call, or fails to.
Read(c) ==
  /\ c.status = Unread
  /\ \E status \in {job[c.job], "error"} :
       calls' = (calls \ {c}) \cup {[c EXCEPT !.status = status]}
  /\ UNCHANGED <<queue, running, focus, panel, wanted, wire, job, used, gaveUp>>

----
(***************************************************************************)
(* The panel                                                               *)
(***************************************************************************)

Rank == [idle |-> 0, pending |-> 1, processing |-> 2, completed |-> 3, failed |-> 3]

Advance(from, to) == IF Rank[to] >= Rank[from] THEN to ELSE from

Cleared == [status |-> "pending", events |-> {}, artifacts |-> None]

\* onEvent: events of other jobs are dropped.
OnEvent ==
  /\ wire # <<>>
  /\ LET event == Head(wire) IN
       panel' = IF event.job # focus THEN panel
                ELSE [panel EXCEPT !.status = Advance(@, event.status),
                                   !.events = @ \cup {event.job}]
  /\ wire' = Tail(wire)
  /\ UNCHANGED <<queue, running, focus, calls, wanted, job, used, gaveUp>>

----
(***************************************************************************)
(* The queue                                                               *)
(***************************************************************************)

Having(q, status) == {k \in DOMAIN q : q[k].status = status}

Indices(status) == Having(queue, status)

Patch(q, i, status, known) ==
  [k \in DOMAIN q |-> IF q[k].item = i THEN [q[k] EXCEPT !.status = status, !.known = known]
                      ELSE q[k]]

\* Mutant of RunNext: the panel keeps what it shows.
RunNextUncleared(q, left) ==
  IF Having(q, "queued") = {} THEN queue' = q /\ running' = None /\ panel' \in left
  ELSE LET next == q[Min(Having(q, "queued"))].item IN
         /\ queue' = Patch(q, next, "active", FALSE)
         /\ running' = next
         /\ panel' = [panel EXCEPT !.status = "pending"]

\* runNext on the queue q, up to the first await of processItem: the first
\* queued item becomes active and the panel is cleared for it.  If there is
\* none, the panel is one of left.
RunNext(q, left) ==
  IF Having(q, "queued") = {} THEN queue' = q /\ running' = None /\ panel' \in left
  ELSE LET next == q[Min(Having(q, "queued"))].item IN
         /\ queue' = Patch(q, next, "active", FALSE)
         /\ running' = next
         /\ panel' = Cleared

\* enqueue: if the runner is at work, that is all.
Enqueue(i) ==
  /\ job[i] = "none" /\ \A k \in DOMAIN queue : queue[k].item # i
  /\ LET q == Append(queue, [item |-> i, status |-> "queued", known |-> FALSE]) IN
       IF running = None THEN RunNext(q, {panel}) ELSE queue' = q /\ UNCHANGED <<running, panel>>
  /\ UNCHANGED <<focus, calls, wanted, wire, job, used, gaveUp>>

\* clearFinished
ClearFinished ==
  /\ Indices("done") \cup Indices("error") # {}
  /\ queue' = Only(queue, Indices("queued") \cup Indices("active"))
  /\ UNCHANGED <<running, focus, panel, calls, wanted, wire, job, used, gaveUp>>

Ask(purpose, i, attempt) == [for |-> purpose, job |-> i, attempt |-> attempt, status |-> Unread]

Submitting == \E k \in Indices("active") : ~queue[k].known

\* submitMedia answers: only now the job has the focus.
Submitted ==
  /\ Submitting /\ job[running] # "none"
  /\ focus' = running
  /\ queue' = Patch(queue, running, "active", TRUE)
  /\ wanted' = wanted \cup {running}
  /\ calls' = calls \cup {Ask("queue", running, 0)}
  /\ UNCHANGED <<running, panel, wire, job, used, gaveUp>>

\* It fails, whether or not the job was created; on to the next item.
SubmitFailed ==
  /\ Submitting
  /\ RunNext(Patch(queue, running, "error", FALSE),
             {[panel EXCEPT !.status = IF @ = "pending" THEN "idle" ELSE @]})
  /\ UNCHANGED <<focus, calls, wanted, wire, job, used, gaveUp>>

\* The panel after a poll of job i has read status.
Polled(i, status) ==
  IF i # focus \/ status = "error" THEN {panel}
  ELSE {[panel EXCEPT !.status = Advance(@, status), !.artifacts = a] :
          a \in IF status \in Terminal THEN {i} ELSE {i, panel.artifacts}}

Answered(c) == c.for # "load" /\ c.status # Unread

\* Mutant of PollAgain: failed calls are not counted.
PollForever(c) ==
  /\ Answered(c) /\ c.status \notin Terminal /\ (c.status = "error" \/ c.attempt < MaxPolls[c.for])
  /\ calls' = (calls \ {c}) \cup
       {Ask(c.for, c.job, IF c.status = "error" THEN c.attempt ELSE c.attempt + 1)}
  /\ panel' \in Polled(c.job, c.status)
  /\ UNCHANGED <<queue, running, focus, wanted, wire, job, used, gaveUp>>

\* tick: not settled yet, or no answer, and polls are left.
PollAgain(c) ==
  /\ Answered(c) /\ c.status \notin Terminal /\ c.attempt < MaxPolls[c.for]
  /\ calls' = (calls \ {c}) \cup {Ask(c.for, c.job, c.attempt + 1)}
  /\ panel' \in Polled(c.job, c.status)
  /\ UNCHANGED <<queue, running, focus, wanted, wire, job, used, gaveUp>>

\* Mutants of Settle: whatever the poll resolves with is a success; the
\* runner stops after one item.
SettleAsDone(i, final, left) == RunNext(Patch(queue, i, "done", TRUE), left)

SettleAndStop(i, final, left) ==
  /\ queue' = Patch(queue, i, IF final = "completed" THEN "done" ELSE "error", TRUE)
  /\ running' = None
  /\ panel' \in left

\* processItem and runNext go on once pollUntilDone has resolved.
Settle(i, final, left) ==
  RunNext(Patch(queue, i, IF final = "completed" THEN "done" ELSE "error", TRUE), left)

\* tick: resolved, with `failed` when the polls are used up.  A poll that
\* belongs to a load resolves into nothing.
PollEnds(c) ==
  /\ Answered(c) /\ (c.status \in Terminal \/ c.attempt = MaxPolls[c.for])
  /\ calls' = calls \ {c}
  /\ \/ /\ c.for = "queue"
        /\ Settle(c.job, IF c.status \in Terminal THEN c.status ELSE "failed",
                  Polled(c.job, c.status))
        /\ gaveUp' = IF c.status \in Terminal THEN gaveUp ELSE gaveUp \cup {c.job}
     \/ /\ c.for = "panel"
        /\ panel' \in Polled(c.job, c.status)
        /\ UNCHANGED <<queue, running, gaveUp>>
  /\ UNCHANGED <<focus, wanted, wire, job, used>>

----
(***************************************************************************)
(* Loading a job into the panel                                            *)
(***************************************************************************)

\* Mutant of Load: whatever is under way is given up for it.
LoadInstead(i) ==
  /\ used.loads < MaxLoads /\ job[i] # "none"
  /\ used' = [used EXCEPT !.loads = @ + 1]
  /\ focus' = i
  /\ panel' = Cleared
  /\ calls' = {Ask("load", i, 0)}
  /\ UNCHANGED <<queue, running, wanted, wire, job, gaveUp>>

\* loadJob, from the history, a queue card or the gallery.
Load(i) ==
  /\ used.loads < MaxLoads /\ job[i] # "none"
  /\ used' = [used EXCEPT !.loads = @ + 1]
  /\ focus' = i
  /\ panel' = Cleared
  /\ calls' = calls \cup {Ask("load", i, 0)}
  /\ UNCHANGED <<queue, running, wanted, wire, job, gaveUp>>

\* Its answer goes to the panel whatever has the focus by then.
Loaded(c) ==
  /\ c.for = "load" /\ c.status # Unread
  /\ IF c.status = "error" THEN UNCHANGED panel
     ELSE panel' = [panel EXCEPT !.status = Advance(@, c.status), !.artifacts = c.job]
  /\ IF c.status \in Terminal \cup {"error"} THEN calls' = calls \ {c} /\ UNCHANGED wanted
     ELSE /\ wanted' = wanted \cup {c.job}
          /\ calls' = (calls \ {c}) \cup {Ask("panel", c.job, 0)}
  /\ UNCHANGED <<queue, running, focus, wire, job, used, gaveUp>>

Poll(c) == Read(c) \/ PollAgain(c) \/ PollEnds(c)

Next ==
  \/ CreateJob \/ Submitted \/ SubmitFailed
  \/ LoseEvents \/ OnEvent
  \/ ClearFinished
  \/ \E i \in Items : Enqueue(i) \/ Work(i) \/ Load(i)
  \/ \E c \in calls : Poll(c) \/ Loaded(c)

\* Submissions and polls are answered, one way or the other; workers and
\* users owe nothing.
Fairness ==
  /\ WF_vars(Submitted \/ SubmitFailed)
  /\ WF_vars(\E c \in calls : c.for = "queue" /\ Poll(c))

Spec == Init /\ [][Next]_vars /\ Fairness

----
(***************************************************************************)
(* Properties                                                              *)
(***************************************************************************)

Waiting(i) == \E k \in DOMAIN queue : queue[k].item = i /\ queue[k].status \in {"queued", "active"}

\* The runner is at one item at a time, in the order they were added, and
\* while anything is queued it runs: an upload added while it finishes the
\* last one is not forgotten.
OneAtATime ==
  /\ Cardinality(Indices("active")) <= 1
  /\ \A k \in DOMAIN queue : queue[k].status = "active" <=> queue[k].item = running
  /\ \A k \in Indices("queued") : running # None /\ \A l \in DOMAIN queue \ 1..k :
       queue[l].status = "queued"

\* A card that says done has its job completed, whoever had the focus while
\* it was polled, and one that says error has a job that failed, unless it
\* was never confirmed, its polls ran out, or the job is one that is retried
\* after the poll has seen it fail.
QueueTellsOutcome ==
  \A k \in DOMAIN queue :
    LET i == queue[k].item IN
      /\ queue[k].status = "done" => job[i] = "completed"
      /\ queue[k].status = "error" /\ queue[k].known /\ i \notin Retried \cup gaveUp =>
           job[i] = "failed"

\* While the runner is at an item, an answer is on its way that moves it on:
\* its submission is, or a poll for the queue is.  Loads, late polls and cards
\* that are cleared never leave it waiting for nothing.
RunnerIsAwaited ==
  running # None => Submitting \/ \E c \in calls : c.for = "queue"

\* As long as the user loads nothing, the artifacts in the panel are those of
\* the job in focus, through every hand-over from one item to the next, when
\* the panel is already the new item's and the focus still the old one's.
ArtifactsOfFocus == used.loads = 0 => panel.artifacts \in {None, focus}

\* Every upload in the queue is settled, also when the worker never gets to
\* it, every poll fails or the user looks at something else.
EveryItemSettles == \A i \in Items : Waiting(i) ~> ~Waiting(i)

\* App.tsx:119-120: the item in progress "becomes the focused job: the
\* pipeline, event log, artifacts and before/after slider all reflect it."
PanelIsOfCurrentJob ==
  running # None /\ focus = running =>
    panel.events \subseteq {running} /\ panel.artifacts \in {None, running}

====
