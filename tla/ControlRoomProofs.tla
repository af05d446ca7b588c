---- MODULE ControlRoomProofs ----
(***************************************************************************)
(* Proofs about the queue of ControlRoom, for every value of the constants *)
(* of the module: any number of uploads, polls, loads and events.          *)
(*                                                                         *)
(* OneAtATime rests on where the items are: those that are finished, then  *)
(* the one at work, then those that wait (LinedUp), and on a single call   *)
(* that may move the runner on, which is for the item at work (OnePoll):   *)
(* an answer that belongs to a load, or comes late, moves nothing.         *)
(* QueueTellsOutcome rests on the answers under way being true (TrueCalls) *)
(* although they are stale, for a job that is not retried never leaves a   *)
(* final status.  RunnerIsAwaited says that the call of OnePoll is there,  *)
(* and ArtifactsOfFocus that the focus follows the queue (FollowsQueue)    *)
(* while nothing is loaded.                                                *)
(***************************************************************************)
EXTENDS ControlRoom, SequenceTheorems, FiniteSetTheorems, TLAPS

(***************************************************************************)
(* The inductive invariant                                                 *)
(***************************************************************************)

ItemStatus == {"queued", "active", "done", "error"}

Item == [item : Items, status : ItemStatus, known : BOOLEAN]

JobStatus == {"none", "pending", "processing", "completed", "failed"}

Call == [for : {"queue", "panel", "load"}, job : Items, attempt : Nat,
         status : JobStatus \cup {"error", Unread}]

\* The types of what the queue and its polls depend on.
TypeOK ==
  /\ queue \in Seq(Item)
  /\ running \in Items \cup {None}
  /\ calls \subseteq Call
  /\ job \in [Items -> JobStatus]
  /\ gaveUp \subseteq Items

\* No upload is twice in the queue q.
Distinct(q) == \A k, l \in DOMAIN q : q[k].item = q[l].item => k = l

\* In the queue q, the first f items are finished, and then comes item r if
\* the runner is at one, with all others behind it.
Line(q, r, f) ==
  /\ \A k \in 1..f : q[k].status \in {"done", "error"}
  /\ r = None => f = Len(q)
  /\ r # None => /\ f < Len(q) /\ q[f + 1].item = r /\ q[f + 1].status = "active"
                 /\ \A k \in f + 2..Len(q) : q[k].status = "queued"

LinedUp == Distinct(queue) /\ \E f \in 0..Len(queue) : Line(queue, running, f)

\* There is one poll for the queue at most, for the item at work, once its
\* submission was confirmed.
OnePoll ==
  \A c \in calls : c.for = "queue" =>
    /\ c.job = running
    /\ \A k \in Indices("active") : queue[k].known
    /\ \A d \in calls : d.for = "queue" => d = c

\* An answer under way that says a job is settled is true still.
TrueCalls ==
  \A c \in calls :
    /\ c.status = "completed" => job[c.job] = "completed"
    /\ c.status = "failed" => job[c.job] = "failed" \/ c.job \in Retried

IInv == TypeOK /\ LinedUp /\ OnePoll /\ TrueCalls /\ QueueTellsOutcome

----
(***************************************************************************)
(* The queue                                                               *)
(***************************************************************************)

\* A function on 1..n is a sequence of length n.
LEMMA FunctionIsSeq ==
  ASSUME NEW S, NEW n \in Nat, NEW q \in [1..n -> S]
  PROVE  q \in Seq(S) /\ Len(q) = n /\ DOMAIN q = 1..n
<1>1. q \in Seq(S)
  BY SeqDef
<1>2. DOMAIN q = 1..Len(q) /\ Len(q) \in Nat /\ DOMAIN q = 1..n
  BY <1>1, LenProperties
<1>3. QED
  BY <1>1, <1>2

\* The queue p is q with another status for the item i, in the same order.
Patched(p, q, i, status, known) ==
  /\ p \in Seq(Item) /\ Len(p) = Len(q) /\ DOMAIN p = DOMAIN q
  /\ \A k \in DOMAIN q : /\ p[k].item = q[k].item
                         /\ q[k].item # i => p[k] = q[k]
                         /\ q[k].item = i => p[k].status = status /\ p[k].known = known

\* That is what a patch does.
LEMMA PatchFacts ==
  ASSUME NEW q \in Seq(Item), NEW i, NEW known \in BOOLEAN, NEW status \in ItemStatus
  PROVE  Patched(Patch(q, i, status, known), q, i, status, known)
<1> DEFINE p == Patch(q, i, status, known)
<1>1. DOMAIN q = 1..Len(q) /\ Len(q) \in Nat
  BY LenProperties
<1>2. ASSUME NEW k \in DOMAIN q
      PROVE  /\ p[k] = IF q[k].item = i THEN [q[k] EXCEPT !.status = status, !.known = known]
                       ELSE q[k]
             /\ q[k] \in Item
  BY <1>1, <1>2 DEF Patch
<1>3. ASSUME NEW k \in DOMAIN q
      PROVE  /\ p[k] \in Item
             /\ p[k].item = q[k].item
             /\ q[k].item # i => p[k] = q[k]
             /\ q[k].item = i => p[k].status = status /\ p[k].known = known
  <2>1. PICK e \in Item : e = q[k]
    BY <1>2, <1>3
  <2>2. CASE e.item = i
    <3> DEFINE d == [e EXCEPT !.status = status, !.known = known]
    <3>1. d \in Item /\ d.item = e.item /\ d.status = status /\ d.known = known
      BY DEF Item, ItemStatus
    <3>2. p[k] = d
      BY <1>2, <1>3, <2>1, <2>2
    <3> HIDE DEF p, d
    <3>3. QED
      BY <2>1, <2>2, <3>1, <3>2
  <2>3. CASE e.item # i
    BY <1>2, <1>3, <2>1, <2>3
  <2>4. QED
    BY <2>2, <2>3
<1>4. p \in [1..Len(q) -> Item]
  <2>1. p = [k \in DOMAIN q |-> p[k]]
    BY DEF Patch
  <2> HIDE DEF p
  <2>2. QED
    BY <1>1, <1>3, <2>1
<1> HIDE DEF p
<1>5. p \in Seq(Item) /\ Len(p) = Len(q) /\ DOMAIN p = DOMAIN q
  BY <1>1, <1>4, FunctionIsSeq
<1>6. Patched(p, q, i, status, known)
  BY <1>3, <1>5 DEF Patched
<1>7. QED
  BY <1>6 DEF p

\* The two kinds of patches there are: a job is known once its submission is.
LEMMA PatchUnknown ==
  ASSUME NEW q \in Seq(Item), NEW i, NEW status \in ItemStatus
  PROVE  Patched(Patch(q, i, status, FALSE), q, i, status, FALSE)
  BY PatchFacts, Zenon

\* The other one.
LEMMA PatchKnown ==
  ASSUME NEW q \in Seq(Item), NEW i, NEW status \in ItemStatus
  PROVE  Patched(Patch(q, i, status, TRUE), q, i, status, TRUE)
  BY PatchFacts, Zenon

\* The first of an interval of numbers.
LEMMA MinOfInterval ==
  ASSUME NEW a \in Nat, NEW b \in Nat, a <= b
  PROVE  Min(a..b) = a
<1>1. a \in a..b /\ \A y \in a..b : a =< y
  OBVIOUS
<1>2. \A x \in a..b : (\A y \in a..b : x =< y) => x = a
  BY <1>1
<1>3. QED
  BY <1>1, <1>2 DEF Min

\* The runner is between two items: the first f are finished, the others wait.
Between(q, f) ==
  /\ f \in 0..Len(q)
  /\ \A k \in 1..f : q[k].status \in {"done", "error"}
  /\ \A k \in f + 1..Len(q) : q[k].status = "queued"

\* If the runner is at an item now, it is submitting it.
Starts == running' # None => Submitting'

\* The runner stays where it is, and submits if it did before.
Continues == running' = running /\ (Submitting => Submitting')

\* The runner takes the first that waits, behind all that are finished.
LEMMA RunNextLine ==
  ASSUME NEW q \in Seq(Item), Distinct(q), NEW f \in Nat, Between(q, f), NEW left, RunNext(q, left)
  PROVE  /\ queue' \in Seq(Item) /\ running' \in Items \cup {None}
         /\ Distinct(queue') /\ f \in 0..Len(queue') /\ Line(queue', running', f)
         /\ \A k \in DOMAIN queue' :
              k \in DOMAIN q /\ (queue'[k] = q[k] \/ queue'[k].status = "active")
         /\ Starts
<1>1. DOMAIN q = 1..Len(q) /\ Len(q) \in Nat /\ f \in Nat /\ f <= Len(q)
  BY LenProperties DEF Between
<1>2. Having(q, "queued") = f + 1..Len(q)
  <2>1. ASSUME NEW k \in 1..Len(q) PROVE q[k].status = "queued" <=> k \in f + 1..Len(q)
    <3>1. k \in 1..f \/ k \in f + 1..Len(q)
      BY <1>1
    <3>2. k \in 1..f => k \notin f + 1..Len(q)
      BY <1>1
    <3>3. QED
      BY <3>1, <3>2 DEF Between
  <2>2. f + 1..Len(q) \subseteq 1..Len(q)
    BY <1>1
  <2>3. QED
    BY <1>1, <2>1, <2>2 DEF Having
<1>3. CASE f = Len(q)
  <2>1. Having(q, "queued") = {}
    BY <1>1, <1>2, <1>3
  <2>2. queue' = q /\ running' = None
    BY <2>1 DEF RunNext
  <2>3. QED
    BY <1>1, <1>3, <2>2 DEF Line, Between, Starts
<1>4. CASE f < Len(q)
  <2> DEFINE next == q[f + 1].item
  <2>1. f + 1 \in 1..Len(q) /\ f + 1 <= Len(q) /\ f + 1 \in Nat /\ f + 1 \in f + 1..Len(q)
    BY <1>1, <1>4
  <2>2. Having(q, "queued") # {} /\ Min(Having(q, "queued")) = f + 1
    <3>1. Having(q, "queued") # {}
      BY <1>2, <2>1
    <3>2. Min(f + 1..Len(q)) = f + 1
      BY <1>1, <2>1, MinOfInterval
    <3>3. QED
      BY <1>2, <3>1, <3>2
  <2>3. queue' = Patch(q, next, "active", FALSE) /\ running' = next
    BY <2>2 DEF RunNext
  <2>4. q[f + 1] \in Item
    BY <1>1, <2>1
  <2>5. next \in Items /\ next # None
    BY <2>4, ControlRoomAssumption DEF Item
  <2>6. \A k \in DOMAIN q : q[k].item = next <=> k = f + 1
    BY <1>1, <2>1 DEF Distinct
  <2> HIDE DEF next
  <2>7. /\ queue' \in Seq(Item) /\ Len(queue') = Len(q) /\ DOMAIN queue' = DOMAIN q
        /\ \A k \in DOMAIN q : /\ queue'[k].item = q[k].item
                               /\ k # f + 1 => queue'[k] = q[k]
                               /\ k = f + 1 => queue'[k].status = "active" /\ ~queue'[k].known
    <3>1. Patched(queue', q, next, "active", FALSE)
      <4>1. "active" \in ItemStatus
        BY DEF ItemStatus
      <4>2. QED
        BY <2>3, <4>1, PatchUnknown, Zenon
    <3>2. QED
      BY <2>6, <3>1 DEF Patched
  <2>8. Distinct(queue')
    BY <2>7 DEF Distinct
  <2>9. queue'[f + 1].item = next /\ queue'[f + 1].status = "active"
    BY <1>1, <2>1, <2>7 DEF next
  <2>10. ASSUME NEW k \in 1..f PROVE queue'[k].status \in {"done", "error"}
    BY <1>1, <2>7 DEF Between
  <2>11. ASSUME NEW k \in f + 2..Len(q) PROVE queue'[k].status = "queued"
    BY <1>1, <2>7 DEF Between
  <2>12. Line(queue', running', f)
    <3>1. Len(queue') = Len(q)
      BY <2>7
    <3>2. f < Len(queue')
      BY <1>1, <1>4, <3>1
    <3>3. running' # None /\ running' = queue'[f + 1].item
      BY <2>3, <2>5, <2>9
    <3>4. \A k \in f + 2..Len(queue') : queue'[k].status = "queued"
      BY <2>11, <3>1
    <3>5. QED
      BY <2>9, <2>10, <3>2, <3>3, <3>4 DEF Line
  <2>13. f \in 0..Len(queue') /\ running' \in Items \cup {None}
    <3>1. Len(queue') = Len(q)
      BY <2>7
    <3>2. f \in 0..Len(queue')
      BY <1>1, <3>1
    <3>3. QED
      BY <2>3, <2>5, <3>2
  <2>14. Starts
    <3>1. f + 1 \in DOMAIN queue' /\ queue'[f + 1].status = "active" /\ ~queue'[f + 1].known
      BY <1>1, <2>1, <2>7
    <3>2. QED
      BY <3>1 DEF Starts, Submitting, Indices, Having
  <2>15. QED
    BY <2>7, <2>8, <2>12, <2>13, <2>14
<1>5. f = Len(q) \/ f < Len(q)
  BY LenProperties DEF Between
<1>6. QED
  BY <1>3, <1>4, <1>5

----
(***************************************************************************)
(* Jobs and calls                                                          *)
(***************************************************************************)

\* What is settled stays settled, but for a failed job that is retried.
Lasting ==
  /\ job' \in [Items -> JobStatus]
  /\ \A i \in Items :
       /\ job[i] = "completed" => job'[i] = "completed"
       /\ job[i] = "failed" => job'[i] = "failed" \/ i \in Retried

\* No step takes a final status back.
LEMMA JobsLast ==
  ASSUME TypeOK, [Next]_vars
  PROVE  Lasting
<1>1. job \in [Items -> JobStatus] /\ running \in Items \cup {None}
  BY DEF TypeOK
<1>2. ASSUME job' = job PROVE Lasting
  BY <1>1, <1>2 DEF Lasting
<1>3. CASE CreateJob
  BY <1>1, <1>3, ControlRoomAssumption DEF CreateJob, Lasting, JobStatus
<1>4. ASSUME NEW i \in Items, Work(i) PROVE Lasting
  <2>1. PICK status \in {"processing", "completed", "failed"} :
          /\ \/ job[i] = "pending" /\ status = "processing"
             \/ job[i] = "processing" /\ status \in {"completed", "failed"}
             \/ job[i] = "failed" /\ status = "processing" /\ i \in Retried
          /\ job' = [job EXCEPT ![i] = status]
    BY <1>4 DEF Work, Lifecycle
  <2>2. QED
    BY <1>1, <2>1 DEF Lasting, JobStatus
<1>5. CASE CreateJob \/ \E i \in Items : Work(i)
  BY <1>3, <1>4, <1>5
<1>6. CASE ~(CreateJob \/ \E i \in Items : Work(i))
  <2>1. job' = job
    BY <1>6 DEF Next, vars, tabVars, Submitted, SubmitFailed, LoseEvents, OnEvent, ClearFinished,
                Enqueue, Load, Poll, Read, PollAgain, PollEnds, Loaded
  <2>2. QED
    BY <1>2, <2>1
<1>7. QED
  BY <1>5, <1>6

\* A call that was not under way before has no answer, or a true one.
Fresh(c) == c \in Call /\ (c.status \in {Unread, "error"} \/ c.status = job'[c.job])

\* A new question.
LEMMA AskFacts ==
  ASSUME NEW purpose \in {"queue", "panel", "load"}, NEW i \in Items, NEW n \in Nat
  PROVE  Fresh(Ask(purpose, i, n)) /\ Ask(purpose, i, n).for = purpose /\ Ask(purpose, i, n).job = i
  BY DEF Fresh, Ask, Call

\* The steps that leave the queue alone and put one call in the place of
\* another one, of the same purpose.
SwapsCalls ==
  /\ UNCHANGED <<queue, running, gaveUp>>
  /\ \E c \in calls, d \in Call :
       d.for = c.for /\ d.job = c.job /\ Fresh(d) /\ calls' = (calls \ {c}) \cup {d}

\* The steps that leave the queue alone and its polls, too.
LeavesPolls ==
  /\ UNCHANGED <<queue, running, gaveUp>>
  /\ \A c \in calls' : c \in calls \/ (Fresh(c) /\ c.for # "queue")

\* A read and one more poll put a call in the place of another.
LEMMA SwapCases ==
  ASSUME TypeOK, NEW e \in calls, Read(e) \/ PollAgain(e)
  PROVE  SwapsCalls
<1>1. calls \subseteq Call
  BY DEF TypeOK
<1>2. ASSUME NEW c \in calls, Read(c) PROVE SwapsCalls
  <2>1. PICK status \in {job[c.job], "error"} :
          calls' = (calls \ {c}) \cup {[c EXCEPT !.status = status]}
    BY <1>2 DEF Read
  <2> DEFINE d == [c EXCEPT !.status = status]
  <2>2. c \in Call /\ job' = job /\ UNCHANGED <<queue, running, gaveUp>>
    BY <1>1, <1>2 DEF Read
  <2>3. c.job \in Items /\ job \in [Items -> JobStatus]
    BY <2>2 DEF Call, TypeOK
  <2>4. status \in JobStatus \cup {"error", Unread}
    BY <2>3
  <2>5. d \in Call /\ d.for = c.for /\ d.job = c.job /\ d.status = status
    BY <2>2, <2>4 DEF Call
  <2>6. calls' = (calls \ {c}) \cup {d}
    BY <2>1
  <2> HIDE DEF d
  <2>7. Fresh(d)
    BY <2>1, <2>2, <2>5 DEF Fresh
  <2>8. QED
    BY <2>2, <2>5, <2>6, <2>7 DEF SwapsCalls
<1>3. ASSUME NEW c \in calls, PollAgain(c) PROVE SwapsCalls
  <2> DEFINE d == Ask(c.for, c.job, c.attempt + 1)
  <2>1. c.for \in {"queue", "panel", "load"} /\ c.job \in Items /\ c.attempt + 1 \in Nat
    BY <1>1 DEF Call
  <2>2. calls' = (calls \ {c}) \cup {d} /\ UNCHANGED <<queue, running, gaveUp>>
    BY <1>3 DEF PollAgain
  <2>3. Fresh(d) /\ d.for = c.for /\ d.job = c.job
    BY <2>1, AskFacts
  <2> HIDE DEF d
  <2>4. QED
    BY <2>2, <2>3 DEF SwapsCalls, Fresh
<1>4. QED
  BY <1>2, <1>3

\* The steps as the proofs need them.
LEMMA StepCases ==
  ASSUME TypeOK, [Next]_vars
  PROVE  \/ SwapsCalls \/ LeavesPolls
         \/ Submitted \/ SubmitFailed \/ ClearFinished
         \/ \E i \in Items : Enqueue(i)
         \/ \E c \in calls : PollEnds(c) /\ c.for = "queue"
<1>1. calls \subseteq Call
  BY DEF TypeOK
<1>2. ASSUME NEW c \in calls, Read(c) \/ PollAgain(c) PROVE SwapsCalls
  BY <1>2, SwapCases
<1>4. ASSUME NEW c \in calls, PollEnds(c), c.for # "queue" PROVE LeavesPolls
  BY <1>4 DEF PollEnds, LeavesPolls
<1>5. ASSUME NEW i \in Items, Load(i) PROVE LeavesPolls
  <2> DEFINE d == Ask("load", i, 0)
  <2>1. calls' = calls \cup {d} /\ UNCHANGED <<queue, running, gaveUp>>
    BY <1>5 DEF Load
  <2>2. Fresh(d) /\ d.for = "load"
    BY AskFacts
  <2> HIDE DEF d
  <2>3. QED
    BY <2>1, <2>2 DEF LeavesPolls
<1>6. ASSUME NEW c \in calls, Loaded(c) PROVE LeavesPolls
  <2> DEFINE d == Ask("panel", c.job, 0)
  <2>1. UNCHANGED <<queue, running, gaveUp>> /\ calls' \subseteq calls \cup {d}
    BY <1>6 DEF Loaded
  <2>2. c.job \in Items
    BY <1>1 DEF Call
  <2>3. Fresh(d) /\ d.for = "panel"
    BY <2>2, AskFacts
  <2> HIDE DEF d
  <2>4. QED
    BY <2>1, <2>3 DEF LeavesPolls
<1>7. ASSUME UNCHANGED <<queue, running, gaveUp, calls>> PROVE LeavesPolls
  BY <1>7 DEF LeavesPolls
<1>8. CASE CreateJob \/ LoseEvents \/ OnEvent \/ (\E i \in Items : Work(i)) \/ UNCHANGED vars
  <2>1. UNCHANGED <<queue, running, gaveUp, calls>>
    BY <1>8 DEF CreateJob, LoseEvents, OnEvent, Work, vars, tabVars
  <2>2. QED
    BY <1>7, <2>1
<1>9. QED
  BY <1>2, <1>4, <1>5, <1>6, <1>8 DEF Next, Poll

\* Calls that go on, and fresh ones, are calls that tell the truth.
LEMMA CallsTrue ==
  ASSUME TypeOK, TrueCalls, Lasting, \A c \in calls' : c \in calls \/ Fresh(c)
  PROVE  calls' \subseteq Call /\ TrueCalls'
<1>1. calls \subseteq Call
  BY DEF TypeOK
<1>2. ASSUME NEW c \in calls'
      PROVE  /\ c \in Call
             /\ c.status = "completed" => job'[c.job] = "completed"
             /\ c.status = "failed" => job'[c.job] = "failed" \/ c.job \in Retried
  <2>1. CASE c \in calls
    <3>1. c \in Call /\ c.job \in Items
      BY <1>1, <2>1 DEF Call
    <3>2. QED
      BY <2>1, <3>1 DEF TrueCalls, Lasting
  <2>2. CASE Fresh(c)
    BY <2>2, ControlRoomAssumption DEF Fresh
  <2>3. QED
    BY <1>2, <2>1, <2>2
<1>3. QED
  BY <1>2 DEF TrueCalls

----
(***************************************************************************)
(* The steps of the queue                                                  *)
(***************************************************************************)

\* The item at work is the one behind the finished ones.
LEMMA ActiveItem ==
  ASSUME NEW q \in Seq(Item), NEW r, NEW f \in 0..Len(q), Line(q, r, f)
  PROVE  /\ r = None => Having(q, "active") = {}
         /\ r # None => f + 1 \in DOMAIN q /\ Having(q, "active") = {f + 1}
<1>1. DOMAIN q = 1..Len(q) /\ Len(q) \in Nat
  BY LenProperties
<1>2. CASE r = None
  <2>1. \A k \in DOMAIN q : q[k].status # "active"
    BY <1>1, <1>2 DEF Line
  <2>2. QED
    BY <1>2, <2>1 DEF Having
<1>3. CASE r # None
  <2>1. f < Len(q)
    BY <1>3 DEF Line
  <2>2. f + 1 \in 1..Len(q)
    BY <2>1, LenProperties
  <2>3. ASSUME NEW k \in 1..Len(q), k # f + 1 PROVE q[k].status # "active"
    <3>1. k \in 1..f \/ k \in f + 2..Len(q)
      BY <2>1, <2>3, LenProperties
    <3>2. QED
      BY <1>3, <3>1 DEF Line
  <2>4. q[f + 1].status = "active"
    BY <1>3 DEF Line
  <2>5. QED
    BY <1>1, <1>3, <2>2, <2>3, <2>4 DEF Having
<1>4. QED
  BY <1>2, <1>3

\* Once the item at work is settled, the runner is between two items.
LEMMA SettledLine ==
  ASSUME NEW q \in Seq(Item), Distinct(q), NEW r, r # None, NEW f \in 0..Len(q), Line(q, r, f),
         NEW p, NEW status \in {"done", "error"}, NEW known, Patched(p, q, r, status, known)
  PROVE  p \in Seq(Item) /\ Distinct(p) /\ Between(p, f + 1)
<1>1. DOMAIN q = 1..Len(q)
  BY LenProperties
<1>2. Len(q) \in Nat /\ f < Len(q) /\ f \in Nat /\ f + 1 \in 1..Len(q)
  BY LenProperties DEF Line
<1>3. p \in Seq(Item) /\ Len(p) = Len(q) /\ DOMAIN p = DOMAIN q
  BY DEF Patched
<1>4. Distinct(p)
  BY DEF Distinct, Patched
<1>5. ASSUME NEW k \in 1..Len(q)
      PROVE  /\ k = f + 1 => p[k].status = status
             /\ k # f + 1 => p[k] = q[k]
  <2>1. k \in DOMAIN q /\ f + 1 \in DOMAIN q /\ q[f + 1].item = r
    BY <1>1, <1>2 DEF Line
  <2>2. q[k].item = r <=> k = f + 1
    BY <2>1 DEF Distinct
  <2>3. QED
    BY <2>1, <2>2 DEF Patched
<1>6. ASSUME NEW k \in 1..f + 1 PROVE p[k].status \in {"done", "error"}
  <2>1. k = f + 1 \/ (k \in 1..f /\ k # f + 1)
    BY <1>2
  <2>2. k \in 1..Len(q)
    BY <1>2
  <2>3. QED
    BY <1>5, <2>1, <2>2 DEF Line
<1>7. ASSUME NEW k \in (f + 1) + 1..Len(q) PROVE p[k].status = "queued"
  <2>1. k \in f + 2..Len(q) /\ k \in 1..Len(q) /\ k # f + 1
    BY <1>2
  <2>2. QED
    BY <1>5, <2>1 DEF Line
<1>8. f + 1 \in 0..Len(p)
  BY <1>2, <1>3
<1>9. QED
  BY <1>3, <1>4, <1>6, <1>7, <1>8 DEF Between

\* What happens to the cards: none is new unless it waits or is at work.
Descends(q) ==
  \A k \in DOMAIN queue' : queue'[k].status \in {"queued", "active"} \/ \E l \in DOMAIN q : queue'[k] = q[l]

\* An upload is added to the queue.
LEMMA AppendFacts ==
  ASSUME NEW q \in Seq(Item), Distinct(q), NEW e \in Item, e.status = "queued",
         \A k \in DOMAIN q : q[k].item # e.item
  PROVE  LET p == Append(q, e) IN
           /\ p \in Seq(Item) /\ Len(p) = Len(q) + 1 /\ DOMAIN p = 1..Len(q) + 1 /\ Distinct(p)
           /\ p[Len(q) + 1] = e
           /\ \A k \in 1..Len(q) : p[k] = q[k]
<1> DEFINE p == Append(q, e)
<1>1. DOMAIN q = 1..Len(q)
  BY LenProperties
<1>2. p \in Seq(Item) /\ Len(p) = Len(q) + 1 /\ p[Len(q) + 1] = e /\ \A k \in 1..Len(q) : p[k] = q[k]
  BY AppendProperties
<1> HIDE DEF p
<1>3. DOMAIN p = 1..Len(q) + 1
  BY <1>2, LenProperties
<1>4. ASSUME NEW k \in 1..Len(q) + 1, NEW l \in 1..Len(q) + 1, p[k].item = p[l].item PROVE k = l
  <2>1. /\ k \in 1..Len(q) \/ k = Len(q) + 1
        /\ l \in 1..Len(q) \/ l = Len(q) + 1
    BY <1>4, LenProperties
  <2>2. \A m \in 1..Len(q) : p[m] = q[m] /\ q[m].item # e.item
    BY <1>1, <1>2
  <2>3. \A m, n \in 1..Len(q) : q[m].item = q[n].item => m = n
    BY <1>1 DEF Distinct
  <2>4. QED
    BY <1>2, <1>4, <2>1, <2>2, <2>3
<1>5. Distinct(p)
  BY <1>3, <1>4 DEF Distinct
<1>6. QED
  BY <1>2, <1>3, <1>5 DEF p

\* The end of a sequence by its places.
LEMMA OnlySuffix ==
  ASSUME NEW S, NEW q \in Seq(S), NEW f \in 0..Len(q)
  PROVE  Only(q, f + 1..Len(q)) = [n \in 1..Len(q) - f |-> q[f + n]]
<1> DEFINE P == f + 1..Len(q)
<1>1. Len(q) \in Nat /\ f \in Nat /\ f <= Len(q)
  BY LenProperties
<1>2. ASSUME NEW k \in P PROVE Position(P, k) = k - f
  <2>1. k \in Nat /\ f + 1 <= k /\ k <= Len(q)
    BY <1>1
  <2>2. {l \in P : l <= k} = f + 1..k
    BY <1>1, <2>1
  <2>3. Cardinality(f + 1..k) = k - f
    <3>1. Cardinality(f + 1..k) = k - (f + 1) + 1
      BY <1>1, <2>1, FS_Interval
    <3>2. QED
      BY <1>1, <2>1, <3>1
  <2> HIDE DEF P
  <2>4. Position(P, k) = Cardinality({l \in P : l <= k})
    BY DEF Position
  <2>5. QED
    BY <2>2, <2>3, <2>4, Zenon
<1>3. Cardinality(P) = Len(q) - f
  <2>1. CASE f < Len(q)
    BY <1>1, <2>1, FS_Interval
  <2>2. CASE f = Len(q)
    BY <1>1, <2>2, FS_EmptySet
  <2>3. QED
    BY <1>1, <2>1, <2>2
<1>4. ASSUME NEW n \in 1..Len(q) - f PROVE Nth(P, n) = f + n
  <2>1. f + n \in P /\ n \in Nat
    BY <1>1
  <2>2. \A k \in P : Position(P, k) = n <=> k = f + n
    <3>1. \A k \in P : k \in Nat /\ Position(P, k) = k - f
      BY <1>1, <1>2
    <3> HIDE DEF P
    <3>2. QED
      BY <1>1, <2>1, <3>1
  <2> HIDE DEF P
  <2>3. QED
    BY <2>1, <2>2 DEF Nth
<1> HIDE DEF P
<1>5. Only(q, P) = [n \in 1..Len(q) - f |-> q[f + n]]
  BY <1>3, <1>4 DEF Only
<1>6. QED
  BY <1>5 DEF P

\* The polls go on as they were.
LEMMA PollsKept ==
  ASSUME OnePoll, UNCHANGED <<running, calls>>,
         \A k \in DOMAIN queue' : queue'[k].status = "queued" \/ \E l \in DOMAIN queue : queue'[k] = queue[l]
  PROVE  OnePoll'
<1>1. ASSUME NEW c \in calls, c.for = "queue", NEW k \in Indices("active")' PROVE queue'[k].known
  <2>1. k \in DOMAIN queue' /\ queue'[k].status = "active"
    BY <1>1 DEF Indices, Having
  <2>2. PICK l \in DOMAIN queue : queue'[k] = queue[l]
    BY <2>1
  <2>3. l \in Indices("active")
    BY <2>1, <2>2 DEF Indices, Having
  <2>4. QED
    BY <1>1, <2>2, <2>3 DEF OnePoll
<1>2. QED
  BY <1>1 DEF OnePoll

\* The steps beside the queue.
LEMMA BesideStep ==
  ASSUME TypeOK, LinedUp, OnePoll, SwapsCalls \/ LeavesPolls
  PROVE  LinedUp' /\ OnePoll' /\ (\A c \in calls' : c \in calls \/ Fresh(c))
<1>1. UNCHANGED <<queue, running, gaveUp>>
  BY DEF SwapsCalls, LeavesPolls
<1>2. LinedUp'
  BY <1>1 DEF LinedUp
<1>3. CASE SwapsCalls
  <2>1. PICK c \in calls, d \in Call :
          d.for = c.for /\ d.job = c.job /\ Fresh(d) /\ calls' = (calls \ {c}) \cup {d}
    BY <1>3 DEF SwapsCalls
  <2>2. Indices("active")' = Indices("active")
    BY <1>1 DEF Indices
  <2>3. OnePoll'
    BY <1>1, <2>1, <2>2 DEF OnePoll
  <2>4. QED
    BY <1>2, <2>1, <2>3
<1>4. CASE LeavesPolls
  <2>1. \A c \in calls' : c \in calls \/ (Fresh(c) /\ c.for # "queue")
    BY <1>4 DEF LeavesPolls
  <2>2. Indices("active")' = Indices("active")
    BY <1>1 DEF Indices
  <2>3. OnePoll'
    BY <1>1, <2>1, <2>2 DEF OnePoll
  <2>4. QED
    BY <1>2, <2>1, <2>3
<1>5. QED
  BY <1>3, <1>4

\* When a submission is under way, no poll for the queue is.
LEMMA NoPollYet ==
  ASSUME TypeOK, LinedUp, OnePoll, Submitting
  PROVE  running # None /\ \A c \in calls : c.for # "queue"
<1>1. PICK k \in Indices("active") : ~queue[k].known
  BY DEF Submitting
<1>2. PICK f \in 0..Len(queue) : Line(queue, running, f)
  BY DEF LinedUp
<1>3. queue \in Seq(Item)
  BY DEF TypeOK
<1>4. running # None
  BY <1>1, <1>2, <1>3, ActiveItem DEF Indices
<1>5. QED
  BY <1>1, <1>4 DEF OnePoll

\* The submission is confirmed: its item stays at work, and has a poll.
LEMMA SubmittedStep ==
  ASSUME TypeOK, LinedUp, OnePoll, Submitted
  PROVE  /\ queue' \in Seq(Item) /\ LinedUp' /\ OnePoll' /\ Descends(queue)
         /\ UNCHANGED <<running, gaveUp>> /\ (\A c \in calls' : c \in calls \/ Fresh(c))
<1>1. queue \in Seq(Item) /\ calls \subseteq Call /\ running \in Items \cup {None} /\ Submitting
  BY DEF TypeOK, Submitted
<1>2. running # None /\ \A c \in calls : c.for # "queue"
  BY <1>1, NoPollYet
<1>3. UNCHANGED <<running, gaveUp>> /\ calls' = calls \cup {Ask("queue", running, 0)}
  BY DEF Submitted
<1>4. Patched(queue', queue, running, "active", TRUE)
  <2>1. queue' = Patch(queue, running, "active", TRUE)
    BY DEF Submitted
  <2>2. "active" \in ItemStatus
    BY DEF ItemStatus
  <2>3. QED
    BY <1>1, <2>1, <2>2, PatchKnown, Zenon
<1>5. PICK f \in 0..Len(queue) : Line(queue, running, f)
  BY DEF LinedUp
<1>6. f + 1 \in DOMAIN queue /\ Indices("active") = {f + 1}
  BY <1>1, <1>2, <1>5, ActiveItem DEF Indices
<1>7. queue[f + 1].item = running
  BY <1>2, <1>5 DEF Line
<1>8. ASSUME NEW k \in DOMAIN queue
      PROVE  /\ k # f + 1 => queue'[k] = queue[k]
             /\ k = f + 1 => queue'[k].status = "active" /\ queue'[k].known /\ queue'[k].item = running
  <2>1. queue[k].item = running <=> k = f + 1
    BY <1>6, <1>7 DEF LinedUp, Distinct
  <2>2. QED
    BY <1>4, <2>1 DEF Patched
<1>9. queue' \in Seq(Item) /\ DOMAIN queue' = DOMAIN queue /\ Len(queue') = Len(queue)
  BY <1>4 DEF Patched
<1>10. LinedUp'
  <2>1. Distinct(queue')
    BY <1>4 DEF LinedUp, Distinct, Patched
  <2>2. DOMAIN queue = 1..Len(queue)
    BY <1>1, LenProperties
  <2>3. f \in Nat /\ f < Len(queue) /\ Len(queue) \in Nat
    BY <1>1, <1>2, <1>5, LenProperties DEF Line
  <2>4. ASSUME NEW k \in 1..f PROVE queue'[k].status \in {"done", "error"}
    <3>1. k \in 1..Len(queue) /\ k # f + 1
      BY <2>3
    <3>2. QED
      BY <1>5, <1>8, <2>2, <3>1 DEF Line
  <2>5. ASSUME NEW k \in f + 2..Len(queue) PROVE queue'[k].status = "queued"
    <3>1. k \in 1..Len(queue) /\ k # f + 1
      BY <2>3
    <3>2. QED
      BY <1>2, <1>5, <1>8, <2>2, <3>1 DEF Line
  <2>6. queue'[f + 1].item = running /\ queue'[f + 1].status = "active"
    BY <1>6, <1>8
  <2>7. Line(queue', running', f)
    BY <1>2, <1>3, <1>9, <2>3, <2>4, <2>5, <2>6 DEF Line
  <2>8. f \in 0..Len(queue')
    BY <1>9
  <2>9. QED
    BY <2>1, <2>7, <2>8 DEF LinedUp
<1>11. Descends(queue)
  BY <1>8, <1>9 DEF Descends
<1> DEFINE d == Ask("queue", running, 0)
<1>12. Fresh(d) /\ d.for = "queue" /\ d.job = running
  <2>1. running \in Items
    BY <1>1, <1>2
  <2>2. QED
    BY <2>1, AskFacts
<1>13. calls' = calls \cup {d}
  BY <1>3
<1> HIDE DEF d
<1>14. ASSUME NEW k \in Indices("active")' PROVE queue'[k].known
  <2>1. k \in DOMAIN queue /\ queue'[k].status = "active"
    BY <1>9, <1>14 DEF Indices, Having
  <2>2. k = f + 1
    <3>1. CASE k # f + 1
      BY <1>6, <1>8, <2>1, <3>1 DEF Indices, Having
    <3>2. QED
      BY <3>1
  <2>3. QED
    BY <1>8, <2>1, <2>2
<1>15. OnePoll'
  BY <1>2, <1>3, <1>12, <1>13, <1>14 DEF OnePoll
<1>16. QED
  BY <1>3, <1>9, <1>10, <1>11, <1>12, <1>13, <1>15

\* The runner goes on to the next item.
LEMMA RunnerMoves ==
  ASSUME NEW q \in Seq(Item), Distinct(q), NEW f \in Nat, Between(q, f), NEW left, RunNext(q, left)
  PROVE  queue' \in Seq(Item) /\ running' \in Items \cup {None} /\ LinedUp' /\ Descends(q) /\ Starts
<1>1. /\ queue' \in Seq(Item) /\ running' \in Items \cup {None}
      /\ Distinct(queue') /\ f \in 0..Len(queue') /\ Line(queue', running', f)
      /\ \A k \in DOMAIN queue' :
           k \in DOMAIN q /\ (queue'[k] = q[k] \/ queue'[k].status = "active")
      /\ Starts
  BY RunNextLine
<1>2. LinedUp'
  BY <1>1 DEF LinedUp
<1>3. Descends(q)
  BY <1>1 DEF Descends
<1>4. QED
  BY <1>1, <1>2, <1>3

\* The submission fails: the item is done with, and the runner goes on.
LEMMA SubmitFailedStep ==
  ASSUME TypeOK, LinedUp, OnePoll, SubmitFailed
  PROVE  /\ queue' \in Seq(Item) /\ running' \in Items \cup {None} /\ LinedUp' /\ OnePoll'
         /\ Descends(Patch(queue, running, "error", FALSE)) /\ Starts /\ UNCHANGED <<calls, gaveUp>>
<1> DEFINE p == Patch(queue, running, "error", FALSE)
<1>1. queue \in Seq(Item) /\ Submitting /\ UNCHANGED <<calls, gaveUp>>
  BY DEF TypeOK, SubmitFailed
<1>2. running # None /\ \A c \in calls : c.for # "queue"
  BY <1>1, NoPollYet
<1>3. PICK f \in 0..Len(queue) : Line(queue, running, f)
  BY DEF LinedUp
<1>4. Patched(p, queue, running, "error", FALSE)
  <2>1. "error" \in ItemStatus
    BY DEF ItemStatus
  <2>2. QED
    BY <1>1, <2>1, PatchUnknown, Zenon
<1>5. PICK left : RunNext(p, left)
  BY DEF SubmitFailed
<1> HIDE DEF p
<1>6. Distinct(queue)
  BY DEF LinedUp
<1>7. p \in Seq(Item) /\ Distinct(p) /\ Between(p, f + 1)
  <2>1. "error" \in {"done", "error"}
    OBVIOUS
  <2>2. QED
    BY <1>1, <1>2, <1>3, <1>4, <1>6, <2>1, SettledLine, Zenon
<1>8. f + 1 \in Nat
  BY <1>1, LenProperties
<1>9. queue' \in Seq(Item) /\ running' \in Items \cup {None} /\ LinedUp' /\ Descends(p) /\ Starts
  BY <1>5, <1>7, <1>8, RunnerMoves
<1>10. OnePoll'
  BY <1>1, <1>2 DEF OnePoll
<1>11. QED
  BY <1>1, <1>9, <1>10 DEF p

\* An upload is added at the end; a runner that rests takes it.
LEMMA EnqueueStep ==
  ASSUME TypeOK, LinedUp, OnePoll, NEW i \in Items, Enqueue(i)
  PROVE  /\ queue' \in Seq(Item) /\ running' \in Items \cup {None} /\ LinedUp' /\ OnePoll'
         /\ Descends(queue) /\ (Starts \/ Continues) /\ UNCHANGED <<calls, gaveUp>>
<1> DEFINE e == [item |-> i, status |-> "queued", known |-> FALSE]
<1> DEFINE p == Append(queue, e)
<1>1. queue \in Seq(Item) /\ calls \subseteq Call /\ UNCHANGED <<calls, gaveUp>> /\ Distinct(queue)
  BY DEF TypeOK, Enqueue, LinedUp
<1>2. PICK f \in 0..Len(queue) : Line(queue, running, f)
  BY DEF LinedUp
<1>3. /\ p \in Seq(Item) /\ Len(p) = Len(queue) + 1 /\ DOMAIN p = 1..Len(queue) + 1 /\ Distinct(p)
      /\ p[Len(queue) + 1] = e
      /\ \A k \in 1..Len(queue) : p[k] = queue[k]
  <2>1. e \in Item /\ e.status = "queued" /\ e.item = i
    BY DEF Item, ItemStatus
  <2>2. \A k \in DOMAIN queue : queue[k].item # i
    BY DEF Enqueue
  <2> HIDE DEF e
  <2>3. QED
    BY <1>1, <2>1, <2>2, AppendFacts
<1>4. e.status = "queued"
  OBVIOUS
<1>5. IF running = None THEN RunNext(p, {panel}) ELSE queue' = p /\ UNCHANGED running
  BY DEF Enqueue
<1> HIDE DEF e, p
<1>6. Len(queue) \in Nat /\ f \in Nat /\ f <= Len(queue)
  BY <1>1, LenProperties
<1>7. DOMAIN queue = 1..Len(queue)
  BY <1>1, LenProperties
<1>8. ASSUME NEW k \in 1..Len(queue) + 1
      PROVE  p[k].status = "queued" \/ \E l \in DOMAIN queue : p[k] = queue[l]
  <2>1. k \in 1..Len(queue) \/ k = Len(queue) + 1
    BY <1>6
  <2>2. CASE k \in 1..Len(queue)
    BY <1>3, <1>7, <2>2
  <2>3. CASE k = Len(queue) + 1
    BY <1>3, <1>4, <2>3
  <2>4. QED
    BY <2>1, <2>2, <2>3
<1>9. CASE running = None
  <2>1. f = Len(queue)
    BY <1>2, <1>9 DEF Line
  <2>2. ASSUME NEW k \in 1..f PROVE p[k].status \in {"done", "error"}
    BY <1>2, <1>3, <2>1 DEF Line
  <2>3. ASSUME NEW k \in f + 1..Len(p) PROVE p[k].status = "queued"
    <3>1. k = Len(queue) + 1
      BY <1>3, <1>6, <2>1
    <3>2. QED
      BY <1>3, <1>4, <3>1
  <2>4. f \in 0..Len(p)
    BY <1>3, <1>6
  <2>5. Between(p, f)
    BY <2>2, <2>3, <2>4 DEF Between
  <2>6. RunNext(p, {panel})
    BY <1>5, <1>9
  <2>7. queue' \in Seq(Item) /\ running' \in Items \cup {None} /\ LinedUp' /\ Descends(p) /\ Starts
    BY <1>3, <1>6, <2>5, <2>6, RunnerMoves
  <2>8. \A c \in calls : c.for # "queue"
    <3>1. \A c \in calls : c.job # running
      BY <1>1, <1>9, ControlRoomAssumption DEF Call
    <3>2. QED
      BY <3>1 DEF OnePoll
  <2>9. OnePoll'
    BY <1>1, <2>8 DEF OnePoll
  <2>10. ASSUME NEW k \in DOMAIN queue'
         PROVE  queue'[k].status \in {"queued", "active"} \/ \E l \in DOMAIN queue : queue'[k] = queue[l]
    <3>1. CASE \E l \in DOMAIN p : queue'[k] = p[l]
      <4>1. PICK l \in 1..Len(queue) + 1 : queue'[k] = p[l]
        BY <1>3, <3>1
      <4>2. QED
        BY <1>8, <4>1
    <3>2. QED
      BY <2>7, <3>1 DEF Descends
  <2>11. QED
    BY <1>1, <2>7, <2>9, <2>10 DEF Descends
<1>10. CASE running # None
  <2>1. queue' = p /\ running' = running
    BY <1>5, <1>10
  <2>2. f < Len(queue)
    BY <1>2, <1>10 DEF Line
  <2>3. ASSUME NEW k \in 1..f PROVE p[k].status \in {"done", "error"}
    <3>1. k \in 1..Len(queue)
      BY <1>6
    <3>2. QED
      BY <1>2, <1>3, <3>1 DEF Line
  <2>4. p[f + 1].item = running /\ p[f + 1].status = "active"
    <3>1. f + 1 \in 1..Len(queue)
      BY <1>6, <2>2
    <3>2. QED
      BY <1>2, <1>3, <1>10, <3>1 DEF Line
  <2>5. ASSUME NEW k \in f + 2..Len(p) PROVE p[k].status = "queued"
    <3>1. k = Len(queue) + 1 \/ (k \in f + 2..Len(queue) /\ k \in 1..Len(queue))
      BY <1>3, <1>6
    <3>2. QED
      BY <1>2, <1>3, <1>4, <1>10, <3>1 DEF Line
  <2>6. f < Len(p) /\ f \in 0..Len(p)
    BY <1>3, <1>6
  <2>7. Line(p, running, f)
    BY <1>10, <2>3, <2>4, <2>5, <2>6 DEF Line
  <2>8. LinedUp'
    BY <1>3, <2>1, <2>6, <2>7 DEF LinedUp
  <2>9. OnePoll'
    BY <1>1, <1>3, <1>8, <2>1, PollsKept
  <2>10. Descends(queue)
    BY <1>3, <1>8, <2>1 DEF Descends
  <2>11. Continues
    <3>1. ASSUME NEW k \in Indices("active"), ~queue[k].known
          PROVE  k \in Indices("active")' /\ ~queue'[k].known
      <4>1. k \in 1..Len(queue) /\ queue[k].status = "active" /\ k \in 1..Len(queue) + 1
        BY <1>6, <1>7, <3>1 DEF Indices, Having
      <4>2. p[k] = queue[k] /\ k \in DOMAIN p
        BY <1>3, <4>1
      <4>3. QED
        BY <2>1, <3>1, <4>1, <4>2 DEF Indices, Having
    <3>2. QED
      BY <2>1, <3>1 DEF Continues, Submitting
  <2>12. QED
    BY <1>1, <1>3, <2>1, <2>8, <2>9, <2>10, <2>11 DEF TypeOK
<1>11. QED
  BY <1>9, <1>10

\* The finished items are the first ones, so what stays is the end of the queue.
LEMMA ClearStep ==
  ASSUME TypeOK, LinedUp, OnePoll, ClearFinished
  PROVE  /\ queue' \in Seq(Item) /\ running' \in Items \cup {None} /\ LinedUp' /\ OnePoll'
         /\ Descends(queue) /\ Continues /\ UNCHANGED <<calls, gaveUp>>
         /\ \A n \in DOMAIN queue' : \E l \in DOMAIN queue : queue'[n] = queue[l]
<1>1. /\ queue \in Seq(Item) /\ running \in Items \cup {None} /\ Distinct(queue)
      /\ UNCHANGED <<running, calls, gaveUp>>
  BY DEF TypeOK, LinedUp, ClearFinished
<1>2. PICK f \in 0..Len(queue) : Line(queue, running, f)
  BY DEF LinedUp
<1>3. Len(queue) \in Nat /\ f \in Nat /\ f <= Len(queue)
  BY <1>1, LenProperties
<1>4. DOMAIN queue = 1..Len(queue)
  BY <1>1, LenProperties
<1>5. Indices("queued") \cup Indices("active") = f + 1..Len(queue)
  <2>1. ASSUME NEW k \in 1..Len(queue)
        PROVE  queue[k].status \in {"queued", "active"} <=> k \in f + 1..Len(queue)
    <3>1. k \in 1..f \/ (k \in f + 1..Len(queue) /\ k \notin 1..f)
      BY <1>3
    <3>2. k \in 1..f => k \notin f + 1..Len(queue)
      BY <1>3
    <3>3. CASE k \in 1..f
      BY <1>2, <3>2, <3>3 DEF Line
    <3>4. CASE k \in f + 1..Len(queue)
      <4>1. f # Len(queue)
        BY <1>3, <3>4
      <4>2. running # None
        BY <1>2, <4>1 DEF Line
      <4>3. k = f + 1 \/ k \in f + 2..Len(queue)
        BY <1>3, <3>4
      <4>4. QED
        BY <1>2, <3>4, <4>2, <4>3 DEF Line
    <3>5. QED
      BY <3>1, <3>3, <3>4
  <2>2. f + 1..Len(queue) \subseteq 1..Len(queue)
    BY <1>3
  <2>3. QED
    BY <1>4, <2>1, <2>2 DEF Indices, Having
<1>6. queue' = [n \in 1..Len(queue) - f |-> queue[f + n]]
  <2>1. queue' = Only(queue, f + 1..Len(queue))
    BY <1>5 DEF ClearFinished
  <2>2. Only(queue, f + 1..Len(queue)) = [n \in 1..Len(queue) - f |-> queue[f + n]]
    BY <1>1, OnlySuffix, Zenon
  <2>3. QED
    BY <2>1, <2>2, Zenon
<1> DEFINE rest == Len(queue) - f
<1>7. rest \in Nat /\ \A n \in 1..rest : f + n \in 1..Len(queue)
  BY <1>3
<1>8. \A n \in 1..rest : queue'[n] = queue[f + n]
  BY <1>6
<1>9. queue' \in Seq(Item) /\ Len(queue') = rest /\ DOMAIN queue' = 1..rest
  <2>1. \A k \in 1..Len(queue) : queue[k] \in Item
    BY <1>1, <1>4
  <2>2. queue' \in [1..rest -> Item]
    BY <1>6, <1>7, <2>1
  <2> HIDE DEF rest
  <2>3. QED
    BY <1>7, <2>2, FunctionIsSeq
<1>10. Distinct(queue')
  <2>1. ASSUME NEW k \in 1..rest, NEW l \in 1..rest, queue'[k].item = queue'[l].item PROVE k = l
    <3>1. f + k \in DOMAIN queue /\ f + l \in DOMAIN queue /\ queue[f + k].item = queue[f + l].item
      BY <1>4, <1>7, <1>8, <2>1
    <3>2. f + k = f + l
      BY <1>1, <3>1 DEF Distinct
    <3>3. QED
      BY <1>3, <3>2
  <2> HIDE DEF rest
  <2>2. QED
    BY <1>9, <2>1 DEF Distinct
<1>11. Line(queue', running, 0)
  <2>1. running = None => rest = 0
    BY <1>2, <1>3 DEF Line
  <2>2. running # None => 0 < rest /\ queue'[1].item = running /\ queue'[1].status = "active"
    <3>1. ASSUME running # None PROVE 0 < rest /\ queue'[1].item = running /\ queue'[1].status = "active"
      <4>1. f < Len(queue) /\ queue[f + 1].item = running /\ queue[f + 1].status = "active"
        BY <1>2, <3>1 DEF Line
      <4>2. 0 < rest /\ 1 \in 1..rest
        BY <1>3, <4>1
      <4>3. queue'[1] = queue[f + 1]
        BY <1>8, <4>2
      <4>4. QED
        BY <4>1, <4>2, <4>3
    <3>2. QED
      BY <3>1
  <2>3. ASSUME running # None, NEW k \in 2..rest PROVE queue'[k].status = "queued"
    <3>1. f + k \in f + 2..Len(queue) /\ k \in 1..rest
      BY <1>3
    <3>2. QED
      BY <1>2, <1>8, <2>3, <3>1 DEF Line
  <2>4. \A k \in 1..0 : FALSE
    OBVIOUS
  <2> HIDE DEF rest
  <2>5. 0 + 1 = 1 /\ 0 + 2 = 2
    OBVIOUS
  <2>6. QED
    BY <1>9, <2>1, <2>2, <2>3, <2>4, <2>5 DEF Line
<1>12. LinedUp'
  <2>1. 0 \in 0..Len(queue')
    BY <1>7, <1>9
  <2>2. QED
    BY <1>1, <1>10, <1>11, <2>1 DEF LinedUp
<1>13. \A n \in DOMAIN queue' : \E l \in DOMAIN queue : queue'[n] = queue[l]
  BY <1>4, <1>7, <1>8, <1>9
<1>14. OnePoll'
  BY <1>1, <1>13, PollsKept
<1>15. Continues
  <2>1. ASSUME NEW k \in Indices("active"), ~queue[k].known PROVE Submitting'
    <3>1. running # None /\ Indices("active") = {f + 1}
      BY <1>1, <1>2, <2>1, ActiveItem DEF Indices
    <3>2. 1 \in DOMAIN queue' /\ queue'[1].status = "active"
      <4>1. 0 < rest
        BY <1>9, <1>11, <3>1 DEF Line
      <4>2. queue'[0 + 1].status = "active" /\ 0 + 1 = 1
        BY <1>11, <3>1 DEF Line
      <4> HIDE DEF rest
      <4>3. QED
        BY <1>7, <1>9, <4>1, <4>2
    <3>3. queue'[1] = queue[f + 1]
      BY <1>8, <1>9, <3>2
    <3>4. ~queue[f + 1].known
      BY <2>1, <3>1
    <3>5. QED
      BY <3>2, <3>3, <3>4 DEF Submitting, Indices, Having
  <2>2. QED
    BY <1>1, <2>1 DEF Continues, Submitting
<1>16. QED
  BY <1>1, <1>9, <1>12, <1>13, <1>14, <1>15 DEF Descends

\* The poll for the queue resolves: its item is settled, and the runner goes on.
LEMMA PollEndsStep ==
  ASSUME TypeOK, LinedUp, OnePoll, NEW c \in calls, PollEnds(c), c.for = "queue"
  PROVE  /\ queue' \in Seq(Item) /\ running' \in Items \cup {None} /\ LinedUp' /\ OnePoll'
         /\ calls' = calls \ {c} /\ c.job \in Items /\ Starts
         /\ \E status \in {"done", "error"} :
              /\ Descends(Patch(queue, c.job, status, TRUE))
              /\ status = "done" => c.status = "completed"
              /\ status = "error" => c.status = "failed" \/ c.job \in gaveUp'
         /\ gaveUp' \in {gaveUp, gaveUp \cup {c.job}}
<1>1. queue \in Seq(Item) /\ c.job \in Items /\ Distinct(queue) /\ calls' = calls \ {c}
  BY DEF TypeOK, Call, LinedUp, PollEnds
<1>2. running = c.job /\ running # None
  BY <1>1, ControlRoomAssumption DEF OnePoll
<1>3. PICK f \in 0..Len(queue) : Line(queue, running, f)
  BY DEF LinedUp
<1>4. gaveUp' = IF c.status \in Terminal THEN gaveUp ELSE gaveUp \cup {c.job}
  BY DEF PollEnds
<1>5. PICK status \in {"done", "error"} :
        /\ \E left : RunNext(Patch(queue, c.job, status, TRUE), left)
        /\ status = "done" => c.status = "completed"
        /\ status = "error" => c.status = "failed" \/ c.status \notin Terminal
  <2>1. Settle(c.job, IF c.status \in Terminal THEN c.status ELSE "failed", Polled(c.job, c.status))
    BY DEF PollEnds
  <2>2. CASE c.status = "completed"
    <3>1. RunNext(Patch(queue, c.job, "done", TRUE), Polled(c.job, c.status))
      BY <2>1, <2>2 DEF Settle, Terminal
    <3>2. QED
      BY <2>2, <3>1
  <2>3. CASE c.status # "completed"
    <3>1. RunNext(Patch(queue, c.job, "error", TRUE), Polled(c.job, c.status))
      BY <2>1, <2>3 DEF Settle, Terminal
    <3>2. c.status = "failed" \/ c.status \notin Terminal
      BY <2>3 DEF Terminal
    <3>3. QED
      BY <3>1, <3>2
  <2>4. QED
    BY <2>2, <2>3
<1> DEFINE p == Patch(queue, c.job, status, TRUE)
<1>6. Patched(p, queue, running, status, TRUE)
  <2>1. status \in ItemStatus
    BY DEF ItemStatus
  <2>2. Patched(Patch(queue, running, status, TRUE), queue, running, status, TRUE)
    BY <1>1, <2>1, PatchKnown, Zenon
  <2>3. QED
    BY <1>2, <2>2, Zenon
<1>7. PICK left : RunNext(p, left)
  BY <1>5
<1>8. ASSUME Descends(p) PROVE Descends(Patch(queue, c.job, status, TRUE))
  BY <1>8
<1> HIDE DEF p
<1>9. p \in Seq(Item) /\ Distinct(p) /\ Between(p, f + 1)
  BY <1>1, <1>2, <1>3, <1>6, SettledLine, Zenon
<1>10. f + 1 \in Nat
  BY <1>1, LenProperties
<1>11. queue' \in Seq(Item) /\ running' \in Items \cup {None} /\ LinedUp' /\ Descends(p) /\ Starts
  BY <1>7, <1>9, <1>10, RunnerMoves
<1>12. OnePoll'
  <2>1. \A d \in calls' : d.for # "queue"
    BY <1>1 DEF OnePoll
  <2>2. QED
    BY <2>1 DEF OnePoll
<1>13. status = "error" => c.status = "failed" \/ c.job \in gaveUp'
  BY <1>4, <1>5
<1>14. gaveUp' \in {gaveUp, gaveUp \cup {c.job}}
  BY <1>4
<1>15. QED
  BY <1>1, <1>5, <1>8, <1>11, <1>12, <1>13, <1>14

----
(***************************************************************************)
(* What the cards say                                                      *)
(***************************************************************************)

\* The cards of the queue q tell the outcome of the jobs j, g given up.
Tells(q, j, g) ==
  \A k \in DOMAIN q :
    /\ q[k].status = "done" => j[q[k].item] = "completed"
    /\ q[k].status = "error" /\ q[k].known /\ q[k].item \notin Retried \cup g => j[q[k].item] = "failed"

\* What the cards say stays true while jobs go on.
LEMMA TellsStill ==
  ASSUME queue \in Seq(Item), QueueTellsOutcome, Lasting, gaveUp \subseteq gaveUp'
  PROVE  Tells(queue, job', gaveUp')
<1>1. ASSUME NEW k \in DOMAIN queue
      PROVE  /\ queue[k].status = "done" => job'[queue[k].item] = "completed"
             /\ queue[k].status = "error" /\ queue[k].known /\ queue[k].item \notin Retried \cup gaveUp'
                  => job'[queue[k].item] = "failed"
  <2>1. queue[k].item \in Items
    <3>1. queue[k] \in Item
      BY <1>1, LenProperties
    <3>2. QED
      BY <3>1 DEF Item
  <2>2. PICK i \in Items : i = queue[k].item
    BY <2>1
  <2>3. /\ queue[k].status = "done" => job[i] = "completed"
        /\ queue[k].status = "error" /\ queue[k].known /\ i \notin Retried \cup gaveUp => job[i] = "failed"
    BY <1>1, <2>2 DEF QueueTellsOutcome
  <2>4. /\ job[i] = "completed" => job'[i] = "completed"
        /\ job[i] = "failed" => job'[i] = "failed" \/ i \in Retried
    BY <2>2 DEF Lasting
  <2>5. QED
    BY <2>2, <2>3, <2>4
<1>2. QED
  BY <1>1 DEF Tells

\* Cards that were there before, that wait or that are at work say nothing new.
LEMMA TellsNext ==
  ASSUME NEW q, Tells(q, job', gaveUp'), Descends(q)
  PROVE  QueueTellsOutcome'
<1>1. ASSUME NEW k \in DOMAIN queue'
      PROVE  /\ queue'[k].status = "done" => job'[queue'[k].item] = "completed"
             /\ queue'[k].status = "error" /\ queue'[k].known /\ queue'[k].item \notin Retried \cup gaveUp'
                  => job'[queue'[k].item] = "failed"
  <2>1. queue'[k].status \in {"queued", "active"} \/ \E l \in DOMAIN q : queue'[k] = q[l]
    BY <1>1 DEF Descends
  <2>2. CASE queue'[k].status \in {"queued", "active"}
    BY <2>2
  <2>3. CASE \E l \in DOMAIN q : queue'[k] = q[l]
    BY <2>3 DEF Tells
  <2>4. QED
    BY <2>1, <2>2, <2>3
<1>2. QED
  BY <1>1 DEF QueueTellsOutcome

\* A card whose submission failed says nothing of its job.
LEMMA TellsFailed ==
  ASSUME NEW j, NEW g, Tells(queue, j, g), NEW p, NEW i, Patched(p, queue, i, "error", FALSE)
  PROVE  Tells(p, j, g)
<1>1. ASSUME NEW k \in DOMAIN queue
      PROVE  p[k].item = queue[k].item
             /\ (p[k] = queue[k] \/ (p[k].status = "error" /\ ~p[k].known))
  BY <1>1 DEF Patched
<1>2. DOMAIN p = DOMAIN queue
  BY DEF Patched
<1>3. QED
  BY <1>1, <1>2 DEF Tells

\* A card settled by a poll says what the poll has read.
LEMMA TellsSettled ==
  ASSUME NEW j, NEW g, Tells(queue, j, g), NEW p, NEW i, NEW status \in {"done", "error"},
         Patched(p, queue, i, status, TRUE),
         status = "done" => j[i] = "completed",
         status = "error" => j[i] = "failed" \/ i \in Retried \cup g
  PROVE  Tells(p, j, g)
<1>1. ASSUME NEW k \in DOMAIN queue
      PROVE  p[k].item = queue[k].item
             /\ (p[k] = queue[k] \/ (queue[k].item = i /\ p[k].status = status))
  BY <1>1 DEF Patched
<1>2. DOMAIN p = DOMAIN queue
  BY DEF Patched
<1>3. QED
  BY <1>1, <1>2 DEF Tells

----
(***************************************************************************)
(* The invariant and what follows from it                                  *)
(***************************************************************************)

\* Every step of the queue keeps what the cards say.
LEMMA TellsStep ==
  ASSUME IInv, [Next]_vars, Lasting
  PROVE  QueueTellsOutcome' /\ gaveUp' \subseteq Items
<1>1. /\ queue \in Seq(Item) /\ TypeOK /\ LinedUp /\ OnePoll /\ QueueTellsOutcome /\ TrueCalls
      /\ gaveUp \subseteq Items
  BY DEF IInv, TypeOK
<1>2. ASSUME gaveUp' = gaveUp, Descends(queue) PROVE QueueTellsOutcome' /\ gaveUp' \subseteq Items
  BY <1>1, <1>2, TellsStill, TellsNext
<1>3. CASE SwapsCalls \/ LeavesPolls
  <2>1. Descends(queue) /\ gaveUp' = gaveUp
    BY <1>3 DEF SwapsCalls, LeavesPolls, Descends
  <2>2. QED
    BY <1>2, <2>1
<1>4. CASE Submitted
  BY <1>1, <1>2, <1>4, SubmittedStep
<1>5. CASE ClearFinished
  BY <1>1, <1>2, <1>5, ClearStep
<1>6. ASSUME NEW i \in Items, Enqueue(i) PROVE QueueTellsOutcome' /\ gaveUp' \subseteq Items
  BY <1>1, <1>2, <1>6, EnqueueStep
<1>7. CASE SubmitFailed
  <2> DEFINE p == Patch(queue, running, "error", FALSE)
  <2>1. Descends(p) /\ gaveUp' = gaveUp
    BY <1>1, <1>7, SubmitFailedStep
  <2>2. Patched(p, queue, running, "error", FALSE)
    <3>1. "error" \in ItemStatus
      BY DEF ItemStatus
    <3>2. QED
      BY <1>1, <3>1, PatchUnknown, Zenon
  <2> HIDE DEF p
  <2>3. Tells(queue, job', gaveUp')
    BY <1>1, <2>1, TellsStill
  <2>4. Tells(p, job', gaveUp')
    BY <2>2, <2>3, TellsFailed, Zenon
  <2>5. QED
    BY <1>1, <2>1, <2>4, TellsNext
<1>8. ASSUME NEW c \in calls, PollEnds(c), c.for = "queue"
      PROVE  QueueTellsOutcome' /\ gaveUp' \subseteq Items
  <2>1. PICK status \in {"done", "error"} :
          /\ Descends(Patch(queue, c.job, status, TRUE))
          /\ status = "done" => c.status = "completed"
          /\ status = "error" => c.status = "failed" \/ c.job \in gaveUp'
    BY <1>1, <1>8, PollEndsStep
  <2>2. c.job \in Items /\ gaveUp' \in {gaveUp, gaveUp \cup {c.job}}
    BY <1>1, <1>8, PollEndsStep
  <2> DEFINE p == Patch(queue, c.job, status, TRUE)
  <2>3. Patched(p, queue, c.job, status, TRUE)
    <3>1. status \in ItemStatus
      BY DEF ItemStatus
    <3>2. QED
      BY <1>1, <3>1, PatchKnown, Zenon
  <2>4. Descends(p)
    BY <2>1
  <2> HIDE DEF p
  <2>5. Tells(queue, job', gaveUp')
    BY <1>1, <2>2, TellsStill
  <2>6. status = "done" => job'[c.job] = "completed"
    BY <1>1, <1>8, <2>1, <2>2 DEF TrueCalls, Lasting
  <2>7. status = "error" => job'[c.job] = "failed" \/ c.job \in Retried \cup gaveUp'
    BY <1>1, <1>8, <2>1, <2>2 DEF TrueCalls, Lasting
  <2>8. Tells(p, job', gaveUp')
    BY <2>3, <2>5, <2>6, <2>7, TellsSettled, Zenon
  <2>9. QED
    BY <1>1, <2>2, <2>4, <2>8, TellsNext
<1>9. QED
  BY <1>1, <1>3, <1>4, <1>5, <1>6, <1>7, <1>8, StepCases

\* Every step keeps the queue lined up behind its runner, with one poll at most.
LEMMA QueueStep ==
  ASSUME TypeOK, LinedUp, OnePoll, [Next]_vars
  PROVE  /\ queue' \in Seq(Item) /\ running' \in Items \cup {None} /\ LinedUp' /\ OnePoll'
         /\ \A c \in calls' : c \in calls \/ Fresh(c)
<1>1. queue \in Seq(Item) /\ running \in Items \cup {None}
  BY DEF TypeOK
<1>2. CASE SwapsCalls \/ LeavesPolls
  <2>1. queue' = queue /\ running' = running
    BY <1>2 DEF SwapsCalls, LeavesPolls
  <2>2. QED
    BY <1>1, <1>2, <2>1, BesideStep
<1>3. CASE Submitted
  BY <1>1, <1>3, SubmittedStep
<1>4. CASE SubmitFailed
  BY <1>4, SubmitFailedStep
<1>5. CASE ClearFinished
  BY <1>5, ClearStep
<1>6. ASSUME NEW i \in Items, Enqueue(i)
      PROVE  /\ queue' \in Seq(Item) /\ running' \in Items \cup {None} /\ LinedUp' /\ OnePoll'
             /\ calls' = calls
  BY <1>6, EnqueueStep
<1>7. ASSUME NEW c \in calls, PollEnds(c), c.for = "queue"
      PROVE  /\ queue' \in Seq(Item) /\ running' \in Items \cup {None} /\ LinedUp' /\ OnePoll'
             /\ calls' \subseteq calls
  BY <1>7, PollEndsStep
<1>8. QED
  BY <1>2, <1>3, <1>4, <1>5, <1>6, <1>7, StepCases

\* At first there is nothing in the queue.
LEMMA InvInit ==
  ASSUME Init
  PROVE  IInv
<1>1. queue = <<>> /\ running = None /\ calls = {} /\ gaveUp = {} /\ job = [i \in Items |-> "none"]
  BY DEF Init
<1>2. TypeOK
  BY <1>1 DEF TypeOK, JobStatus
<1>3. Len(queue) = 0 /\ DOMAIN queue = {}
  BY <1>1
<1>4. Distinct(queue)
  BY <1>3 DEF Distinct
<1>5. Line(queue, running, 0)
  BY <1>1, <1>3 DEF Line
<1>6. LinedUp
  <2>1. 0 \in 0..Len(queue)
    BY <1>3
  <2>2. QED
    BY <1>4, <1>5, <2>1 DEF LinedUp
<1>7. OnePoll /\ TrueCalls
  BY <1>1 DEF OnePoll, TrueCalls
<1>8. QueueTellsOutcome
  BY <1>3 DEF QueueTellsOutcome
<1>9. QED
  BY <1>2, <1>6, <1>7, <1>8 DEF IInv

\* The invariant holds at first and is kept by every step: types, the queue
\* lined up behind its runner, one poll for it, answers that are true and
\* cards that tell the outcome.
THEOREM Invariance == Spec => []IInv
<1>1. Init => IInv
  BY InvInit
<1>2. IInv /\ [Next]_vars => IInv'
  <2> SUFFICES ASSUME IInv, [Next]_vars PROVE IInv'
    OBVIOUS
  <2>1. TypeOK /\ LinedUp /\ OnePoll /\ TrueCalls
    BY DEF IInv
  <2>2. Lasting
    BY <2>1, JobsLast
  <2>3. QueueTellsOutcome' /\ gaveUp' \subseteq Items
    BY <2>2, TellsStep
  <2>4. /\ queue' \in Seq(Item) /\ running' \in Items \cup {None} /\ LinedUp' /\ OnePoll'
        /\ \A c \in calls' : c \in calls \/ Fresh(c)
    BY <2>1, QueueStep
  <2>5. calls' \subseteq Call /\ TrueCalls'
    BY <2>1, <2>2, <2>4, CallsTrue
  <2>6. TypeOK'
    BY <2>2, <2>3, <2>4, <2>5 DEF TypeOK, Lasting
  <2>7. QED
    BY <2>3, <2>4, <2>5, <2>6 DEF IInv
<1>3. QED
  BY <1>1, <1>2, PTL DEF Spec

\* The runner is at one item at a time, in the order they were added, and
\* nothing waits while it rests: an upload added while it finishes the last
\* one is not forgotten.
THEOREM RunnerKeepsOrder == Spec => []OneAtATime
<1>1. IInv => OneAtATime
  <2> SUFFICES ASSUME IInv PROVE OneAtATime
    OBVIOUS
  <2>1. queue \in Seq(Item) /\ Distinct(queue)
    BY DEF IInv, TypeOK, LinedUp
  <2>2. PICK f \in 0..Len(queue) : Line(queue, running, f)
    BY DEF IInv, LinedUp
  <2>3. /\ running = None => Indices("active") = {}
        /\ running # None => f + 1 \in DOMAIN queue /\ Indices("active") = {f + 1}
    BY <2>1, <2>2, ActiveItem DEF Indices
  <2>4. Cardinality(Indices("active")) <= 1
    <3>1. Cardinality({}) = 0 /\ Cardinality({f + 1}) = 1
      BY FS_EmptySet, FS_Singleton
    <3>2. Indices("active") = {} \/ Indices("active") = {f + 1}
      BY <2>3
    <3>3. Cardinality(Indices("active")) \in {0, 1}
      BY <3>1, <3>2
    <3>4. QED
      BY <3>3
  <2>5. ASSUME NEW k \in DOMAIN queue PROVE queue[k].status = "active" <=> queue[k].item = running
    <3>1. queue[k].status = "active" <=> k \in Indices("active")
      BY <2>5 DEF Indices, Having
    <3>2. CASE running = None
      <4>1. queue[k] \in Item
        BY <2>1, <2>5, LenProperties
      <4>2. queue[k].item # None
        BY <4>1, ControlRoomAssumption DEF Item
      <4>3. QED
        BY <2>3, <3>1, <3>2, <4>2
    <3>3. CASE running # None
      <4>1. queue[f + 1].item = running
        BY <2>2, <3>3 DEF Line
      <4>2. queue[k].item = running <=> k = f + 1
        BY <2>1, <2>3, <2>5, <3>3, <4>1 DEF Distinct
      <4>3. QED
        BY <2>3, <3>1, <3>3, <4>2
    <3>4. QED
      BY <3>2, <3>3
  <2>6. ASSUME NEW k \in Indices("queued")
        PROVE  running # None /\ \A l \in DOMAIN queue \ 1..k : queue[l].status = "queued"
    <3>1. k \in DOMAIN queue /\ queue[k].status = "queued"
      BY <2>6 DEF Indices, Having
    <3>2. DOMAIN queue = 1..Len(queue)
      BY <2>1, LenProperties
    <3>3. Len(queue) \in Nat /\ f \in Nat /\ f <= Len(queue)
      BY <2>1, LenProperties
    <3>4. k \notin 1..f
      BY <2>2, <3>1 DEF Line
    <3>5. k \in 1..Len(queue)
      BY <3>1, <3>2
    <3>6. f # Len(queue)
      BY <3>4, <3>5
    <3>7. running # None
      BY <2>2, <3>6 DEF Line
    <3>8. ASSUME NEW l \in DOMAIN queue \ 1..k PROVE queue[l].status = "queued"
      <4>1. l \in 1..Len(queue) /\ l \notin 1..k
        BY <3>2, <3>8
      <4>2. l \in f + 2..Len(queue)
        BY <3>3, <3>4, <3>5, <4>1
      <4>3. QED
        BY <2>2, <3>7, <4>2 DEF Line
    <3>9. QED
      BY <3>7, <3>8
  <2>7. QED
    BY <2>4, <2>5, <2>6 DEF OneAtATime
<1>2. QED
  BY <1>1, Invariance, PTL

\* A card that says done has its job completed, and one that says error a job
\* that failed, unless it was never confirmed, was given up or is retried.
THEOREM CardsTellOutcome == Spec => []QueueTellsOutcome
<1>1. IInv => QueueTellsOutcome
  BY DEF IInv
<1>2. QED
  BY <1>1, Invariance, PTL

----
(***************************************************************************)
(* The runner waits for something                                          *)
(***************************************************************************)

\* Every step leaves the runner at rest, with a submission under way or with
\* a poll for the queue.
LEMMA AwaitedStep ==
  ASSUME TypeOK, LinedUp, OnePoll, RunnerIsAwaited, [Next]_vars
  PROVE  RunnerIsAwaited'
<1>1. ASSUME Starts PROVE RunnerIsAwaited'
  BY <1>1 DEF Starts, RunnerIsAwaited
<1>2. ASSUME Continues, calls' = calls PROVE RunnerIsAwaited'
  BY <1>2 DEF Continues, RunnerIsAwaited
<1>3. CASE SwapsCalls
  <2>1. PICK c \in calls, d \in Call : d.for = c.for /\ calls' = (calls \ {c}) \cup {d}
    BY <1>3 DEF SwapsCalls
  <2>2. UNCHANGED <<queue, running>>
    BY <1>3 DEF SwapsCalls
  <2>3. Submitting' = Submitting
    BY <2>2 DEF Submitting, Indices
  <2>4. QED
    BY <2>1, <2>2, <2>3 DEF RunnerIsAwaited
<1>4. CASE Submitted
  <2>1. calls' = calls \cup {Ask("queue", running, 0)}
    BY <1>4 DEF Submitted
  <2>2. Ask("queue", running, 0).for = "queue"
    BY DEF Ask
  <2>3. QED
    BY <2>1, <2>2 DEF RunnerIsAwaited
<1>5. CASE SubmitFailed
  BY <1>1, <1>5, SubmitFailedStep
<1>6. CASE ClearFinished
  BY <1>2, <1>6, ClearStep
<1>7. ASSUME NEW i \in Items, Enqueue(i) PROVE RunnerIsAwaited'
  BY <1>1, <1>2, <1>7, EnqueueStep
<1>8. ASSUME NEW c \in calls, PollEnds(c), c.for = "queue" PROVE RunnerIsAwaited'
  BY <1>1, <1>8, PollEndsStep
<1>9. ASSUME UNCHANGED <<queue, running>>, \A c \in calls : c.for = "queue" => c \in calls'
      PROVE  RunnerIsAwaited'
  <2>1. Submitting' = Submitting
    BY <1>9 DEF Submitting, Indices
  <2>2. QED
    BY <1>9, <2>1 DEF RunnerIsAwaited
<1>10. ASSUME NEW c \in calls, PollEnds(c), c.for # "queue" PROVE RunnerIsAwaited'
  BY <1>9, <1>10 DEF PollEnds
<1>11. ASSUME NEW c \in calls, Loaded(c) PROVE RunnerIsAwaited'
  BY <1>9, <1>11 DEF Loaded
<1>12. ASSUME NEW i \in Items, Load(i) PROVE RunnerIsAwaited'
  BY <1>9, <1>12 DEF Load
<1>13. CASE CreateJob \/ LoseEvents \/ OnEvent \/ (\E i \in Items : Work(i)) \/ UNCHANGED vars
  <2>1. UNCHANGED <<queue, running, calls>>
    BY <1>13 DEF CreateJob, LoseEvents, OnEvent, Work, vars, tabVars
  <2>2. QED
    BY <1>9, <2>1
<1>14. ASSUME NEW c \in calls, Read(c) \/ PollAgain(c) PROVE SwapsCalls
  BY <1>14, SwapCases
<1>15. QED
  BY <1>3, <1>4, <1>5, <1>6, <1>7, <1>8, <1>10, <1>11, <1>12, <1>13, <1>14 DEF Next, Poll

\* While the runner is at an item, its submission is under way or a poll for
\* it is: it never waits for an answer that nobody will give.
THEOREM RunnerNeverAbandoned == Spec => []RunnerIsAwaited
<1>1. Init => RunnerIsAwaited
  BY DEF Init, RunnerIsAwaited
<1>2. IInv /\ RunnerIsAwaited /\ [Next]_vars => RunnerIsAwaited'
  BY AwaitedStep DEF IInv
<1>3. QED
  BY <1>1, <1>2, Invariance, PTL DEF Spec

----
(***************************************************************************)
(* What the panel shows                                                    *)
(***************************************************************************)

\* Without loads all calls are polls of the queue, nothing is shown while a
\* submission is under way, and otherwise what belongs to the focus.
FollowsQueue ==
  /\ used \in [events : Nat, loads : Nat]
  /\ "artifacts" \in DOMAIN panel
  /\ used.loads = 0 =>
       /\ \A c \in calls : c.for = "queue"
       /\ Submitting => panel.artifacts = None
       /\ panel.artifacts \in {None, focus}

\* What the panel p may show instead of what it shows now: nothing, or the
\* artifacts of job i if that has the focus.
Shows(p, i) ==
  /\ "artifacts" \in DOMAIN p
  /\ p.artifacts = panel.artifacts \/ p.artifacts = None \/ (p.artifacts = i /\ i = focus)

\* A poll shows the artifacts of its job in focus only.
LEMMA PolledShows ==
  ASSUME "artifacts" \in DOMAIN panel, NEW i, NEW status, NEW p \in Polled(i, status)
  PROVE  Shows(p, i)
<1>1. CASE i # focus \/ status = "error"
  BY <1>1 DEF Polled, Shows
<1>2. CASE ~(i # focus \/ status = "error")
  <2>1. PICK a \in {i, panel.artifacts} :
          p = [panel EXCEPT !.status = Advance(@, status), !.artifacts = a]
    BY <1>2 DEF Polled
  <2>2. "artifacts" \in DOMAIN p /\ p.artifacts = a
    BY <2>1
  <2>3. QED
    BY <1>2, <2>1, <2>2 DEF Shows
<1>3. QED
  BY <1>1, <1>2

\* The runner clears the panel for the next item, or rests.
LEMMA RunNextShows ==
  ASSUME NEW q, NEW left, RunNext(q, left)
  PROVE  panel' = Cleared \/ (running' = None /\ panel' \in left)
  BY DEF RunNext

\* The panel cleared.
LEMMA ClearedShows == "artifacts" \in DOMAIN Cleared /\ Cleared.artifacts = None
  BY DEF Cleared

\* A runner that comes to rest submits nothing.
LEMMA NothingSubmitted ==
  ASSUME TypeOK', LinedUp', running' = None
  PROVE  ~Submitting'
<1>1. PICK f \in 0..Len(queue') : Line(queue', running', f)
  BY DEF LinedUp
<1>2. Indices("active")' = {}
  BY <1>1, ActiveItem DEF Indices, TypeOK
<1>3. QED
  BY <1>2 DEF Submitting

\* The steps after which no load has been made had none before; the panel
\* keeps its shape in all of them.
LEMMA FollowsStep ==
  ASSUME TypeOK, LinedUp, OnePoll, TypeOK', LinedUp', FollowsQueue, [Next]_vars
  PROVE  FollowsQueue'
<1> DEFINE Quiet == /\ \A c \in calls' : c.for = "queue"
                    /\ Submitting' => panel'.artifacts = None
                    /\ panel'.artifacts \in {None, focus'}
<1>1. calls \subseteq Call /\ "artifacts" \in DOMAIN panel /\ used \in [events : Nat, loads : Nat]
  BY DEF TypeOK, FollowsQueue
<1>2. ASSUME used.loads = 0
      PROVE  /\ \A c \in calls : c.for = "queue"
             /\ Submitting => panel.artifacts = None
             /\ panel.artifacts \in {None, focus}
  BY <1>2 DEF FollowsQueue
<1>3. ASSUME "artifacts" \in DOMAIN panel', used' = used, used.loads = 0 => Quiet PROVE FollowsQueue'
  BY <1>1, <1>3 DEF FollowsQueue
<1>4. ASSUME UNCHANGED <<queue, focus, calls>>, "artifacts" \in DOMAIN panel',
             panel'.artifacts = panel.artifacts, used' \in [events : Nat, loads : Nat],
             used'.loads = used.loads
      PROVE  FollowsQueue'
  <2>1. Submitting' = Submitting
    BY <1>4 DEF Submitting, Indices
  <2> HIDE DEF Quiet
  <2>2. QED
    BY <1>2, <1>4, <2>1 DEF FollowsQueue
<1>5. CASE CreateJob \/ LoseEvents \/ UNCHANGED vars
  <2>1. UNCHANGED <<queue, focus, calls, panel, used>>
    BY <1>5 DEF CreateJob, LoseEvents, vars, tabVars
  <2>2. QED
    BY <1>1, <1>4, <2>1
<1>6. ASSUME NEW i \in Items, Work(i) PROVE FollowsQueue'
  <2>1. UNCHANGED <<queue, focus, calls, panel>> /\ used' \in {used, [used EXCEPT !.events = @ + 1]}
    BY <1>6 DEF Work, tabVars
  <2>2. used' \in [events : Nat, loads : Nat] /\ used'.loads = used.loads
    BY <1>1, <2>1
  <2>3. QED
    BY <1>1, <1>4, <2>1, <2>2
<1>7. CASE OnEvent
  <2>1. UNCHANGED <<queue, focus, calls, used>>
    BY <1>7 DEF OnEvent
  <2>2. "artifacts" \in DOMAIN panel' /\ panel'.artifacts = panel.artifacts
    <3>1. CASE Head(wire).job # focus
      BY <1>1, <1>7, <3>1 DEF OnEvent
    <3>2. CASE Head(wire).job = focus
      <4>1. panel' = [panel EXCEPT !.status = Advance(@, Head(wire).status),
                                   !.events = @ \cup {Head(wire).job}]
        BY <1>7, <3>2 DEF OnEvent
      <4>2. QED
        BY <1>1, <4>1
    <3>3. QED
      BY <3>1, <3>2
  <2>3. QED
    BY <1>1, <1>4, <2>1, <2>2
<1>8. ASSUME NEW c \in calls, Read(c) PROVE FollowsQueue'
  <2>1. PICK status : calls' = (calls \ {c}) \cup {[c EXCEPT !.status = status]}
    BY <1>8 DEF Read
  <2>2. UNCHANGED <<queue, focus, panel, used>>
    BY <1>8 DEF Read
  <2>3. [c EXCEPT !.status = status].for = c.for
    BY <1>1 DEF Call
  <2>4. Submitting' = Submitting
    BY <2>2 DEF Submitting, Indices
  <2>5. used.loads = 0 => Quiet
    BY <1>2, <2>1, <2>2, <2>3, <2>4
  <2> HIDE DEF Quiet
  <2>6. QED
    BY <1>1, <1>3, <2>2, <2>5
<1>9. CASE Submitted
  <2>1. /\ Submitting /\ UNCHANGED <<panel, used>>
        /\ calls' = calls \cup {Ask("queue", running, 0)}
    BY <1>9 DEF Submitted
  <2>2. Ask("queue", running, 0).for = "queue"
    BY DEF Ask
  <2>3. used.loads = 0 => Quiet
    BY <1>2, <2>1, <2>2
  <2> HIDE DEF Quiet
  <2>4. QED
    BY <1>1, <1>3, <2>1, <2>3
<1>10. CASE SubmitFailed
  <2> DEFINE left == {[panel EXCEPT !.status = IF @ = "pending" THEN "idle" ELSE @]}
  <2>1. Submitting /\ UNCHANGED <<focus, calls, used>>
    BY <1>10 DEF SubmitFailed
  <2>2. panel' = Cleared \/ (running' = None /\ panel' \in left)
    BY <1>10, RunNextShows DEF SubmitFailed
  <2>3. "artifacts" \in DOMAIN panel' /\ panel'.artifacts \in {None, panel.artifacts}
    <3>1. \A p \in left : "artifacts" \in DOMAIN p /\ p.artifacts = panel.artifacts
      BY <1>1
    <3> HIDE DEF left
    <3>2. QED
      BY <2>2, <3>1, ClearedShows
  <2>4. used.loads = 0 => Quiet
    BY <1>2, <2>1, <2>3
  <2> HIDE DEF Quiet
  <2>5. QED
    BY <1>3, <2>1, <2>3, <2>4
<1>11. ASSUME NEW i \in Items, Enqueue(i) PROVE FollowsQueue'
  <2>1. UNCHANGED <<focus, calls, used>>
    BY <1>11 DEF Enqueue
  <2>2. CASE running = None
    <3>1. panel' = Cleared \/ (running' = None /\ panel' = panel)
      BY <1>11, <2>2, RunNextShows DEF Enqueue
    <3>2. running' = None => ~Submitting'
      BY NothingSubmitted
    <3>3. "artifacts" \in DOMAIN panel' /\ (used.loads = 0 => Quiet)
      BY <1>1, <1>2, <2>1, <3>1, <3>2, ClearedShows
    <3> HIDE DEF Quiet
    <3>4. QED
      BY <1>3, <2>1, <3>3
  <2>3. CASE running # None
    <3>1. panel' = panel /\ running' = running
      BY <1>11, <2>3 DEF Enqueue
    <3>2. queue' = Append(queue, [item |-> i, status |-> "queued", known |-> FALSE])
      BY <1>11, <2>3 DEF Enqueue
    <3>3. ASSUME Submitting' PROVE Submitting
      <4> DEFINE e == [item |-> i, status |-> "queued", known |-> FALSE]
      <4>1. PICK k \in DOMAIN queue' : queue'[k].status = "active" /\ ~queue'[k].known
        BY <3>3 DEF Submitting, Indices, Having
      <4>2. e.status = "queued" /\ e \in Item
        BY DEF Item, ItemStatus
      <4>3. queue' = Append(queue, e)
        BY <3>2
      <4> HIDE DEF e
      <4>4. queue \in Seq(Item) /\ DOMAIN queue = 1..Len(queue) /\ Len(queue) \in Nat
        BY LenProperties DEF TypeOK
      <4>5. /\ DOMAIN queue' = 1..Len(queue) + 1 /\ queue'[Len(queue) + 1] = e
            /\ \A l \in 1..Len(queue) : queue'[l] = queue[l]
        BY <4>2, <4>3, <4>4, AppendProperties, LenProperties
      <4>6. k # Len(queue) + 1
        BY <4>1, <4>2, <4>5
      <4>7. k \in 1..Len(queue)
        BY <4>4, <4>5, <4>6
      <4>8. QED
        BY <4>1, <4>4, <4>5, <4>7 DEF Submitting, Indices, Having
    <3>4. used.loads = 0 => Quiet
      BY <1>2, <2>1, <3>1, <3>3
    <3> HIDE DEF Quiet
    <3>5. QED
      BY <1>1, <1>3, <2>1, <3>1, <3>4
  <2>4. QED
    BY <2>2, <2>3
<1>12. CASE ClearFinished
  <2>1. UNCHANGED <<panel, focus, calls, used>>
    BY <1>12 DEF ClearFinished
  <2>2. ASSUME Submitting' PROVE Submitting
    <3>1. PICK k \in DOMAIN queue' : queue'[k].status = "active" /\ ~queue'[k].known
      BY <2>2 DEF Submitting, Indices, Having
    <3>2. PICK l \in DOMAIN queue : queue'[k] = queue[l]
      BY <1>12, ClearStep
    <3>3. QED
      BY <3>1, <3>2 DEF Submitting, Indices, Having
  <2>3. used.loads = 0 => Quiet
    BY <1>2, <2>1, <2>2
  <2> HIDE DEF Quiet
  <2>4. QED
    BY <1>1, <1>3, <2>1, <2>3
<1>13. ASSUME NEW c \in calls, PollAgain(c) PROVE FollowsQueue'
  <2>1. /\ calls' = (calls \ {c}) \cup {Ask(c.for, c.job, c.attempt + 1)}
        /\ UNCHANGED <<queue, focus, used>> /\ panel' \in Polled(c.job, c.status)
    BY <1>13 DEF PollAgain
  <2>2. Shows(panel', c.job)
    BY <1>1, <2>1, PolledShows
  <2>3. Ask(c.for, c.job, c.attempt + 1).for = c.for
    BY DEF Ask
  <2>4. Submitting' = Submitting
    BY <2>1 DEF Submitting, Indices
  <2>5. ASSUME used.loads = 0 PROVE ~Submitting
    BY <1>2, <2>5, <1>13, NoPollYet
  <2>6. "artifacts" \in DOMAIN panel' /\ (used.loads = 0 => Quiet)
    BY <1>2, <2>1, <2>2, <2>3, <2>4, <2>5 DEF Shows
  <2> HIDE DEF Quiet
  <2>7. QED
    BY <1>3, <2>1, <2>6
<1>14. ASSUME NEW c \in calls, PollEnds(c) PROVE FollowsQueue'
  <2>1. calls' = calls \ {c} /\ UNCHANGED <<focus, used>>
    BY <1>14 DEF PollEnds
  <2>2. CASE c.for = "queue"
    <3>1. PICK q : RunNext(q, Polled(c.job, c.status))
      BY <1>14, <2>2 DEF PollEnds, Settle
    <3>2. panel' = Cleared \/ (running' = None /\ panel' \in Polled(c.job, c.status))
      BY <3>1, RunNextShows
    <3>3. panel' = Cleared \/ (~Submitting' /\ Shows(panel', c.job))
      BY <1>1, <3>2, PolledShows, NothingSubmitted
    <3>4. "artifacts" \in DOMAIN panel' /\ (used.loads = 0 => Quiet)
      BY <1>2, <2>1, <3>3, ClearedShows DEF Shows
    <3> HIDE DEF Quiet
    <3>5. QED
      BY <1>3, <2>1, <3>4
  <2>3. CASE c.for # "queue"
    <3>1. panel' \in Polled(c.job, c.status)
      BY <1>14, <2>3 DEF PollEnds
    <3>2. "artifacts" \in DOMAIN panel'
      BY <1>1, <3>1, PolledShows DEF Shows
    <3>3. used.loads # 0
      BY <1>2, <2>3
    <3> HIDE DEF Quiet
    <3>4. QED
      BY <1>3, <2>1, <3>2, <3>3
  <2>4. QED
    BY <2>2, <2>3
<1>15. ASSUME NEW i \in Items, Load(i) PROVE FollowsQueue'
  <2>1. used' = [used EXCEPT !.loads = @ + 1] /\ panel' = Cleared
    BY <1>15 DEF Load
  <2>2. used' \in [events : Nat, loads : Nat] /\ used'.loads # 0
    BY <1>1, <2>1
  <2>3. QED
    BY <2>1, <2>2, ClearedShows DEF FollowsQueue
<1>16. ASSUME NEW c \in calls, Loaded(c) PROVE FollowsQueue'
  <2>1. c.for # "queue" /\ used' = used
    BY <1>16 DEF Loaded
  <2>2. "artifacts" \in DOMAIN panel'
    BY <1>1, <1>16 DEF Loaded
  <2>3. used.loads # 0
    BY <1>2, <2>1
  <2> HIDE DEF Quiet
  <2>4. QED
    BY <1>3, <2>1, <2>2, <2>3
<1>17. QED
  BY <1>5, <1>6, <1>7, <1>8, <1>9, <1>10, <1>11, <1>12, <1>13, <1>14, <1>15, <1>16 DEF Next, Poll

\* As long as the user loads nothing, the artifacts in the panel are those of
\* the job in focus.
THEOREM PanelShowsFocus == Spec => []ArtifactsOfFocus
<1>1. Init => FollowsQueue
  <2> SUFFICES ASSUME Init PROVE FollowsQueue
    OBVIOUS
  <2>1. /\ used = [events |-> 0, loads |-> 0] /\ calls = {} /\ queue = <<>>
        /\ panel = [status |-> "idle", events |-> {}, artifacts |-> None]
    BY DEF Init
  <2>2. "artifacts" \in DOMAIN panel /\ panel.artifacts = None
    BY <2>1
  <2>3. used \in [events : Nat, loads : Nat]
    BY <2>1
  <2>4. QED
    BY <2>1, <2>2, <2>3 DEF FollowsQueue
<1>2. IInv /\ IInv' /\ FollowsQueue /\ [Next]_vars => FollowsQueue'
  BY FollowsStep DEF IInv
<1>3. FollowsQueue => ArtifactsOfFocus
  BY DEF FollowsQueue, ArtifactsOfFocus
<1>4. QED
  BY <1>1, <1>2, <1>3, Invariance, PTL DEF Spec

====
