---- MODULE GatewayProofs ----
(***************************************************************************)
(* Every safety property of Gateway, for any clients, requests, limit,     *)
(* window, bounds and disturbances: IInv holds initially and every step    *)
(* keeps it.                                                               *)
(***************************************************************************)
EXTENDS Gateway, FiniteSetTheorems, TLAPS

(***************************************************************************)
(* Numbers of windows                                                      *)
(***************************************************************************)

\* Division by the length of a window gives a window number that never falls.
LEMMA DivMonotone ==
  ASSUME NEW w \in Nat \ {0}, NEW a \in Nat, NEW b \in Nat, a <= b
  PROVE  a \div w \in Nat /\ a \div w <= b \div w
  BY SMT

\* A time lies in the window its division by the length names.
LEMMA DivFloor ==
  ASSUME NEW w \in Nat \ {0}, NEW a \in Nat
  PROVE  w * (a \div w) <= a /\ a < w * (a \div w + 1)
  BY SMT

\* The clock is in a window that has a key.
LEMMA WindowInRange ==
  ASSUME now \in 0..MaxTime
  PROVE  CurrentWindow \in Windows
<1>1. now \div Window \in Nat /\ now \div Window <= MaxTime \div Window
  BY LimiterAssumption, DivMonotone
<1>2. MaxTime \div Window \in Nat
  BY LimiterAssumption, DivMonotone
<1>3. QED
  BY <1>1, <1>2 DEF CurrentWindow, Windows

(***************************************************************************)
(* Types                                                                   *)
(***************************************************************************)

\* A disturbance keeps its bookkeeping typed.
LEMMA DisturbType ==
  ASSUME TypeOK, NEW kind, Disturb(kind)
  PROVE  faults' \in Nat /\ seen' \subseteq DisturbanceKind
  BY GatewayAssumption DEF Disturb, TypeOK

\* INCR keeps the counters typed.
LEMMA IncrType ==
  ASSUME LimiterTypeOK, NEW c \in Clients, NEW b \in Windows, Incr(c, b)
  PROVE  LimiterTypeOK'
  BY DEF LimiterTypeOK, Incr

\* EXPIRE keeps the times to live within range.
LEMMA ExpireType ==
  ASSUME LimiterTypeOK, NEW c \in Clients, NEW b \in Windows, Expire(c, b)
  PROVE  LimiterTypeOK'
<1>1. now + Window \in 0..Forever
  BY LimiterAssumption DEF LimiterTypeOK, Forever
<1>2. QED
  BY <1>1 DEF LimiterTypeOK, Expire

\* A second that passes, with the keys it drops, keeps the limiter typed.
LEMMA TickType ==
  ASSUME LimiterTypeOK, Tick
  PROVE  LimiterTypeOK'
<1>1. Forever \in 0..Forever
  BY LimiterAssumption DEF Forever
<1>2. now' \in 0..MaxTime
  BY LimiterAssumption DEF LimiterTypeOK, Tick
<1>3. count' \in [Clients -> [Windows -> Nat]]
  BY DEF LimiterTypeOK, Tick
<1>4. ttl' \in [Clients -> [Windows -> 0..Forever]]
  BY <1>1 DEF LimiterTypeOK, Tick
<1>5. QED
  BY <1>2, <1>3, <1>4 DEF LimiterTypeOK

\* An answer is one of the codes and ends its request.
LEMMA AnswerType ==
  ASSUME TypeOK, NEW r \in Requests, NEW code \in Code, Answer(r, code)
  PROVE  pc' \in [Requests -> Step] /\ reply' \in [Requests -> Code \cup {Unanswered}]
  BY DEF TypeOK, Answer, Goto, Step

\* A request moves between steps.
LEMMA GotoType ==
  ASSUME TypeOK, NEW r \in Requests, NEW step \in Step, Goto(r, step)
  PROVE  pc' \in [Requests -> Step]
  BY DEF TypeOK, Goto

\* A restart keeps every variable typed.
LEMMA RestartType ==
  ASSUME TypeOK, Restart, faults' \in Nat, seen' \subseteq DisturbanceKind
  PROVE  TypeOK'
<1>1. pc' \in [Requests -> Step] /\ reply' \in [Requests -> Code \cup {Unanswered}]
  BY DEF TypeOK, Restart, Active, Step, Code
<1>2. queue' \subseteq Requests /\ sent' \subseteq Requests /\ confirms' \subseteq Requests
  BY DEF TypeOK, Restart, LoseConnection
<1>3. busUp' \in BOOLEAN /\ stopping' \in BOOLEAN
  BY DEF Restart
<1>4. QED
  BY <1>1, <1>2, <1>3 DEF TypeOK, LimiterTypeOK, Restart, limiterVars, limitVars, storeVars

\* Every step keeps every variable in its type.
LEMMA TypeStep == IInv /\ [Next]_vars => TypeOK'
<1> SUFFICES ASSUME TypeOK, [Next]_vars PROVE TypeOK'
  BY DEF IInv
<1>1. ASSUME NEW r \in Requests, Accept(r) PROVE TypeOK'
  <2>1. CurrentWindow \in Windows
    BY WindowInRange DEF TypeOK, LimiterTypeOK
  <2>2. pc' \in [Requests -> Step]
    BY <1>1, GotoType DEF Accept, Step
  <2>3. QED
    BY <1>1, <2>1, <2>2 DEF Accept, TypeOK, LimiterTypeOK, limiterVars, storeVars, busVars, faultVars
<1>2. ASSUME NEW r \in Requests, Count(r) PROVE TypeOK'
  <2>1. ClientOf[r] \in Clients /\ window[r] \in Windows
    BY GatewayAssumption DEF TypeOK
  <2>2. LimiterTypeOK'
    BY <1>2, <2>1, IncrType DEF Count, TypeOK, LimiterTypeOK, limiterVars
  <2>3. pc' \in [Requests -> Step]
    BY <1>2, GotoType DEF Count, Step
  <2>4. n' \in [Requests -> Nat] /\ inWindow' \subseteq Requests
    BY <1>2, <2>1 DEF Count, TypeOK, LimiterTypeOK
  <2>5. faults' \in Nat /\ seen' \subseteq DisturbanceKind
    BY <1>2, DisturbType DEF Count, TypeOK, faultVars
  <2>6. QED
    BY <1>2, <2>2, <2>3, <2>4, <2>5 DEF Count, TypeOK, storeVars, busVars
<1>3. ASSUME NEW r \in Requests, SetExpiry(r) PROVE TypeOK'
  <2>1. ClientOf[r] \in Clients /\ window[r] \in Windows
    BY GatewayAssumption DEF TypeOK
  <2>2. LimiterTypeOK'
    BY <1>3, <2>1, ExpireType DEF SetExpiry, TypeOK, LimiterTypeOK, limiterVars
  <2>3. pc' \in [Requests -> Step]
    BY <1>3, GotoType DEF SetExpiry, Step
  <2>4. faults' \in Nat /\ seen' \subseteq DisturbanceKind
    BY <1>3, DisturbType DEF SetExpiry, TypeOK, faultVars
  <2>5. QED
    BY <1>3, <2>2, <2>3, <2>4 DEF SetExpiry, TypeOK, limitVars, storeVars, busVars
<1>4. ASSUME NEW r \in Requests, CheckForm(r) PROVE TypeOK'
  BY <1>4, AnswerType, GotoType
     DEF CheckForm, TypeOK, LimiterTypeOK, Step, Code, limiterVars, limitVars, storeVars, busVars, faultVars
<1>5. ASSUME NEW r \in Requests, PutUpload(r) PROVE TypeOK'
  <2>1. pc' \in [Requests -> Step] /\ reply' \in [Requests -> Code \cup {Unanswered}]
    BY <1>5, AnswerType, GotoType DEF PutUpload, TypeOK, Step, Code
  <2>2. faults' \in Nat /\ seen' \subseteq DisturbanceKind
    BY <1>5, DisturbType DEF PutUpload, TypeOK, faultVars
  <2>3. objects' \subseteq Requests
    BY <1>5 DEF PutUpload, StoreUpload, TypeOK
  <2>4. QED
    BY <1>5, <2>1, <2>2, <2>3 DEF PutUpload, TypeOK, LimiterTypeOK, limiterVars, limitVars, busVars
<1>6. ASSUME NEW r \in Requests, Insert(r) PROVE TypeOK'
  <2>1. pc' \in [Requests -> Step] /\ reply' \in [Requests -> Code \cup {Unanswered}]
    BY <1>6, AnswerType, GotoType DEF Insert, TypeOK, Step, Code
  <2>2. faults' \in Nat /\ seen' \subseteq DisturbanceKind
    BY <1>6, DisturbType DEF Insert, TypeOK, faultVars
  <2>3. jobs' \subseteq Requests
    BY <1>6 DEF Insert, CreateJob, TypeOK
  <2>4. QED
    BY <1>6, <2>1, <2>2, <2>3 DEF Insert, TypeOK, LimiterTypeOK, limiterVars, limitVars, busVars
<1>7. ASSUME NEW r \in Requests, Publish(r) PROVE TypeOK'
  <2>1. pc' \in [Requests -> Step] /\ reply' \in [Requests -> Code \cup {Unanswered}]
    BY <1>7, AnswerType, GotoType DEF Publish, TypeOK, Step, Code
  <2>2. QED
    BY <1>7, <2>1 DEF Publish, TypeOK, LimiterTypeOK, limiterVars, limitVars, storeVars, faultVars
<1>8. ASSUME NEW r \in Requests, AwaitConfirm(r) PROVE TypeOK'
  <2>1. pc' \in [Requests -> Step] /\ reply' \in [Requests -> Code \cup {Unanswered}]
    BY <1>8, AnswerType DEF AwaitConfirm, Code
  <2>2. QED
    BY <1>8, <2>1 DEF AwaitConfirm, TypeOK, LimiterTypeOK, limiterVars, limitVars, storeVars, faultVars
<1>9. ASSUME NEW r \in Requests, TakeOver(r) PROVE TypeOK'
  <2>1. faults' \in Nat /\ seen' \subseteq DisturbanceKind
    BY <1>9, DisturbType DEF TakeOver, TypeOK, faultVars
  <2>2. sent' \subseteq Requests /\ queue' \subseteq Requests /\ confirms' \subseteq Requests
    BY <1>9 DEF TakeOver, TypeOK
  <2>3. QED
    BY <1>9, <2>1, <2>2 DEF TakeOver, TypeOK, LimiterTypeOK, limiterVars, limitVars, storeVars
<1>10. ASSUME ConnectionLost PROVE TypeOK'
  <2>1. faults' \in Nat /\ seen' \subseteq DisturbanceKind
    BY <1>10, DisturbType DEF ConnectionLost
  <2>2. sent' \subseteq Requests /\ queue' \subseteq Requests /\ confirms' \subseteq Requests
    BY <1>10 DEF ConnectionLost, LoseConnection, TypeOK
  <2>3. QED
    BY <1>10, <2>1, <2>2 DEF ConnectionLost, TypeOK, LimiterTypeOK, limiterVars, limitVars, storeVars
<1>11. ASSUME Crash PROVE TypeOK'
  BY <1>11, RestartType, DisturbType DEF Crash
<1>12. ASSUME Sigterm PROVE TypeOK'
  <2>1. faults' \in Nat /\ seen' \subseteq DisturbanceKind
    BY <1>12, DisturbType DEF Sigterm
  <2>2. QED
    BY <1>12, <2>1 DEF Sigterm, TypeOK, LimiterTypeOK, limiterVars, limitVars, storeVars, busVars
<1>13. ASSUME Stop PROVE TypeOK'
  BY <1>13, RestartType DEF Stop, TypeOK, faultVars
<1>14. ASSUME Second PROVE TypeOK'
  BY <1>14, TickType DEF Second, TypeOK, limitVars, storeVars, busVars, faultVars
<1>15. ASSUME Served \/ UNCHANGED vars PROVE TypeOK'
  BY <1>15 DEF Served, TypeOK, LimiterTypeOK, vars, limiterVars, limitVars, storeVars, busVars, faultVars
<1>16. QED
  BY <1>1, <1>2, <1>3, <1>4, <1>5, <1>6, <1>7, <1>8, <1>9, <1>10, <1>11, <1>12,
     <1>13, <1>14, <1>15 DEF Next, Handle

(***************************************************************************)
(* Submission                                                              *)
(***************************************************************************)

Submission ==
  /\ Written
  /\ Awaited
  /\ AcceptedIsQueued
  /\ QueuedIsRunnable
  /\ OrphanWasReported
  /\ ShutdownDrains

\* A process that ends loses its channel and resets its connections, nothing else.
LEMMA RestartKeepsSubmission ==
  ASSUME TypeOK, Submission, Restart, "crash" \in seen' \/ \A r \in Requests : ~Active(r),
         seen \subseteq seen'
  PROVE  Submission'
<1>1. \A r \in Requests : pc'[r] \in {"new", "done"} /\ (pc'[r] = "new" => pc[r] = "new")
  BY DEF Restart, TypeOK, Active
<1>2. queue \subseteq queue' /\ queue' \subseteq queue \cup sent /\ sent' = {} /\ confirms' = {}
  BY DEF Restart, LoseConnection
<1>3. \A r \in Requests : Active(r) => reply'[r] = "reset"
  BY DEF Restart, TypeOK
<1>4. \A r \in Requests : ~Active(r) => reply'[r] = reply[r]
  BY DEF Restart, TypeOK
<1>5. objects' = objects /\ jobs' = jobs
  BY DEF Restart, storeVars
<1>6. Written' /\ Awaited'
  BY <1>1, <1>2, <1>5 DEF Submission, Written, Awaited
<1>7. AcceptedIsQueued' /\ QueuedIsRunnable'
  BY <1>2, <1>3, <1>4, <1>5 DEF Submission, AcceptedIsQueued, QueuedIsRunnable
<1>8. ASSUME NEW r \in jobs' \ (queue' \cup sent')
      PROVE  Active(r)' \/ reply'[r] \in {"500", "502", "reset"}
  <2>1. r \in Requests
    BY <1>5 DEF TypeOK
  <2>2. CASE Active(r)
    BY <2>1, <2>2, <1>3
  <2>3. CASE ~Active(r)
    <3>1. r \notin sent
      BY <2>1, <2>3 DEF Submission, Awaited, Active
    <3>2. r \in jobs \ (queue \cup sent)
      BY <3>1, <1>2, <1>5, <1>8
    <3>3. QED
      BY <3>2, <2>1, <2>3, <1>4 DEF Submission, OrphanWasReported
  <2>4. QED
    BY <2>2, <2>3
<1>9. ShutdownDrains'
  BY <1>3, <1>4 DEF Submission, ShutdownDrains
<1>10. QED
  BY <1>6, <1>7, <1>8, <1>9 DEF Submission, OrphanWasReported

\* Every step keeps the order of row, source, message and answer.
LEMMA SubmissionStep == IInv /\ [Next]_vars => Submission'
<1> SUFFICES ASSUME TypeOK, Submission, [Next]_vars PROVE Submission'
  BY DEF IInv, Submission
<1>1. ASSUME NEW r \in Requests, Accept(r) PROVE Submission'
  BY <1>1 DEF Accept, Goto, storeVars, busVars, faultVars, limitVars,
     Submission, Written, Awaited, AcceptedIsQueued, QueuedIsRunnable, OrphanWasReported, ShutdownDrains, Active, TypeOK
<1>2. ASSUME NEW r \in Requests, Count(r) PROVE Submission'
  BY <1>2 DEF Count, Goto, Disturb, storeVars, busVars, faultVars, limitVars,
     Submission, Written, Awaited, AcceptedIsQueued, QueuedIsRunnable, OrphanWasReported, ShutdownDrains, Active, TypeOK
<1>3. ASSUME NEW r \in Requests, SetExpiry(r) PROVE Submission'
  BY <1>3 DEF SetExpiry, Goto, Disturb, storeVars, busVars, faultVars, limitVars,
     Submission, Written, Awaited, AcceptedIsQueued, QueuedIsRunnable, OrphanWasReported, ShutdownDrains, Active, TypeOK
<1>4. ASSUME NEW r \in Requests, CheckForm(r) PROVE Submission'
  BY <1>4 DEF CheckForm, Answer, Goto, storeVars, busVars, faultVars, limitVars,
     Submission, Written, Awaited, AcceptedIsQueued, QueuedIsRunnable, OrphanWasReported, ShutdownDrains, Active, TypeOK
<1>5. ASSUME NEW r \in Requests, PutUpload(r) PROVE Submission'
  BY <1>5 DEF PutUpload, StoreUpload, Answer, Goto, Disturb, storeVars, busVars, faultVars, limitVars,
     Submission, Written, Awaited, AcceptedIsQueued, QueuedIsRunnable, OrphanWasReported, ShutdownDrains, Active, TypeOK
<1>6. ASSUME NEW r \in Requests, Insert(r) PROVE Submission'
  BY <1>6 DEF Insert, CreateJob, Answer, Goto, Disturb, storeVars, busVars, faultVars, limitVars,
     Submission, Written, Awaited, AcceptedIsQueued, QueuedIsRunnable, OrphanWasReported, ShutdownDrains, Active, TypeOK
<1>7. ASSUME NEW r \in Requests, Publish(r) PROVE Submission'
  BY <1>7 DEF Publish, Answer, Goto, storeVars, busVars, faultVars, limitVars,
     Submission, Written, Awaited, AcceptedIsQueued, QueuedIsRunnable, OrphanWasReported, ShutdownDrains, Active, TypeOK
<1>8. ASSUME NEW r \in Requests, AwaitConfirm(r) PROVE Submission'
  <2>1. /\ pc[r] = "confirm" /\ pc' = [pc EXCEPT ![r] = "done"]
        /\ confirms' = confirms \ {r}
        /\ UNCHANGED <<objects, jobs, sent, queue, busUp, seen>>
    BY <1>8 DEF AwaitConfirm, Answer, Goto, storeVars, faultVars
  <2>2. \/ r \in confirms /\ reply' = [reply EXCEPT ![r] = "202"]
        \/ r \notin confirms \cup sent /\ reply' = [reply EXCEPT ![r] = "502"]
    BY <1>8 DEF AwaitConfirm, Answer
  <2>3. r \notin sent
    BY <1>8, <2>2 DEF Submission, Awaited, TypeOK
  <2>4. Written' /\ Awaited'
    BY <2>1, <2>3 DEF Submission, Written, Awaited, TypeOK
  <2>5. AcceptedIsQueued' /\ QueuedIsRunnable' /\ ShutdownDrains'
    BY <2>1, <2>2 DEF Submission, Awaited, AcceptedIsQueued, QueuedIsRunnable, ShutdownDrains, TypeOK
  <2>6. OrphanWasReported'
    BY <2>1, <2>2 DEF Submission, Awaited, OrphanWasReported, Active, TypeOK
  <2>7. QED
    BY <2>4, <2>5, <2>6 DEF Submission
<1>9. ASSUME NEW r \in Requests, TakeOver(r) PROVE Submission'
  BY <1>9 DEF TakeOver, Disturb, storeVars, busVars, faultVars, limitVars,
     Submission, Written, Awaited, AcceptedIsQueued, QueuedIsRunnable, OrphanWasReported, ShutdownDrains, Active, TypeOK
<1>10. ASSUME ConnectionLost PROVE Submission'
  BY <1>10 DEF ConnectionLost, LoseConnection, Disturb, storeVars, busVars, faultVars, limitVars,
     Submission, Written, Awaited, AcceptedIsQueued, QueuedIsRunnable, OrphanWasReported, ShutdownDrains, Active, TypeOK
<1>11. ASSUME Sigterm PROVE Submission'
  BY <1>11 DEF Sigterm, Disturb, storeVars, busVars, faultVars, limitVars,
     Submission, Written, Awaited, AcceptedIsQueued, QueuedIsRunnable, OrphanWasReported, ShutdownDrains, Active, TypeOK
<1>12. ASSUME Second PROVE Submission'
  BY <1>12 DEF Second, storeVars, busVars, faultVars, limitVars,
     Submission, Written, Awaited, AcceptedIsQueued, QueuedIsRunnable, OrphanWasReported, ShutdownDrains, Active, TypeOK
<1>13. ASSUME Crash PROVE Submission'
  <2>1. "crash" \in seen' /\ seen \subseteq seen'
    BY <1>13 DEF Crash, Disturb
  <2>2. QED
    BY <1>13, <2>1, RestartKeepsSubmission DEF Crash
<1>14. ASSUME Stop PROVE Submission'
  BY <1>14, RestartKeepsSubmission DEF Stop, faultVars
<1>15. ASSUME Served \/ UNCHANGED vars PROVE Submission'
  BY <1>15 DEF Served, vars, storeVars, busVars, faultVars, limitVars,
     Submission, Written, Awaited, AcceptedIsQueued, QueuedIsRunnable, OrphanWasReported, ShutdownDrains, Active, TypeOK
<1>16. QED
  BY <1>1, <1>2, <1>3, <1>4, <1>5, <1>6, <1>7, <1>8, <1>9, <1>10, <1>11, <1>12,
     <1>13, <1>14, <1>15 DEF Next, Handle

(***************************************************************************)
(* The limiter                                                             *)
(***************************************************************************)

\* A step that leaves the limiter alone and moves no request back to it.
LEMMA CountedStays ==
  ASSUME Counted, UNCHANGED limiterVars, UNCHANGED limitVars,
         \A r \in inWindow : pc'[r] = pc[r] \/ pc'[r] \notin {"new", "incr"}
  PROVE  Counted'
  BY DEF Counted, CurrentWindow, limiterVars, limitVars

\* INCR gives each request of a window a number no other has.
LEMMA CountKeepsCounted ==
  ASSUME TypeOK, Counted, NEW r \in Requests, Count(r)
  PROVE  Counted'
<1> DEFINE c == ClientOf[r]
           b == window[r]
<1>1. c \in Clients /\ b \in Windows
  BY GatewayAssumption DEF TypeOK
<1>2. r \notin inWindow
  BY DEF Counted, Count
<1>3. UNCHANGED <<now, ttl, window>>
  BY DEF Count, Incr, limiterVars
<1>4. \A x \in inWindow : pc'[x] = pc[x]
  BY <1>2 DEF Count, Goto, TypeOK
<1>5. \A d \in Clients, e \in Windows : count'[d][e] >= count[d][e]
  <2>1. count' = count \/ count' = [count EXCEPT ![c][b] = @ + 1]
    BY DEF Count, Incr, limiterVars
  <2>2. count \in [Clients -> [Windows -> Nat]]
    BY DEF TypeOK, LimiterTypeOK
  <2>3. \A d \in Clients, e \in Windows :
          count'[d][e] = count[d][e] \/ count'[d][e] = count[d][e] + 1
    BY <2>1, <2>2, <1>1
  <2>4. QED
    BY <2>2, <2>3
<1>6. count \in [Clients -> [Windows -> Nat]] /\ count' \in [Clients -> [Windows -> Nat]]
  BY <1>1, IncrType DEF Count, TypeOK, LimiterTypeOK, limiterVars
<1>7. \A x \in inWindow : ClientOf[x] \in Clients /\ window[x] \in Windows /\ n[x] \in Nat
  BY GatewayAssumption DEF TypeOK
<1>8. CASE n' = n /\ inWindow' = inWindow
  <2>1. \A x \in inWindow : CurrentWindow = window[x] => n[x] <= count'[ClientOf[x]][window[x]]
    BY <1>5, <1>6, <1>7 DEF Counted
  <2>2. QED
    BY <1>3, <1>4, <1>8, <2>1 DEF Counted, CurrentWindow
<1>9. CASE /\ Incr(c, b)
           /\ n' = [n EXCEPT ![r] = count[c][b] + 1]
           /\ inWindow' = IF CurrentWindow = b THEN inWindow \cup {r} ELSE inWindow
           /\ Goto(r, IF count[c][b] = 0 THEN "expire" ELSE "form")
  <2>1. n'[r] = count[c][b] + 1 /\ count'[c][b] = count[c][b] + 1
    BY <1>1, <1>9 DEF Incr, TypeOK, LimiterTypeOK
  <2>2. \A x \in inWindow : n'[x] = n[x]
    BY <1>2, <1>9 DEF TypeOK
  <2>3. pc'[r] \in {"expire", "form"}
    BY <1>9 DEF Goto, TypeOK
  <2>4. \A x \in inWindow :
          CurrentWindow = window[x] => n'[x] <= count'[ClientOf[x]][window[x]]
    BY <2>2, <1>5, <1>6, <1>7 DEF Counted
  <2>5. ASSUME CurrentWindow = b, NEW x \in inWindow, ClientOf[x] = c, window[x] = b
        PROVE  n'[x] # n'[r]
    BY <2>1, <2>2, <2>5, <1>1, <1>6, <1>7 DEF Counted
  <2>6. CASE CurrentWindow = b
    <3>1. inWindow' = inWindow \cup {r}
      BY <1>9, <2>6
    <3>2. ASSUME NEW x \in inWindow'
          PROVE  /\ pc'[x] \notin {"new", "incr"} /\ n'[x] > 0
                 /\ CurrentWindow' = window'[x] => n'[x] <= count'[ClientOf[x]][window'[x]]
      <4>1. CASE x = r
        <5>1. count[c][b] \in Nat
          BY <1>1, <1>6
        <5>2. window'[r] = b
          BY <1>3
        <5>3. QED
          BY <4>1, <5>1, <5>2, <2>1, <2>3
      <4>2. CASE x \in inWindow
        <5>1. pc'[x] \notin {"new", "incr"} /\ n'[x] > 0
          BY <4>2, <1>4, <2>2 DEF Counted
        <5>2. CurrentWindow' = CurrentWindow /\ window'[x] = window[x]
          BY <1>3 DEF CurrentWindow
        <5>3. QED
          BY <4>2, <5>1, <5>2, <2>4
      <4>3. QED
        BY <3>1, <3>2, <4>1, <4>2
    <3>3. ASSUME NEW x \in inWindow', NEW y \in inWindow' \ {x},
                 ClientOf[y] = ClientOf[x], window'[y] = window'[x]
          PROVE  n'[y] # n'[x]
      <4>1. CASE x = r
        BY <4>1, <3>1, <3>3, <2>5, <2>6, <1>3
      <4>2. CASE y = r
        BY <4>2, <3>1, <3>3, <2>5, <2>6, <1>3
      <4>3. CASE x # r /\ y # r
        BY <4>3, <3>1, <3>3, <2>2, <1>3 DEF Counted
      <4>4. QED
        BY <4>1, <4>2, <4>3
    <3>4. QED
      BY <3>2, <3>3, <1>3 DEF Counted, CurrentWindow
  <2>7. CASE CurrentWindow # b
    <3>1. inWindow' = inWindow
      BY <1>9, <2>7
    <3>2. QED
      BY <3>1, <2>2, <2>4, <1>3, <1>4 DEF Counted, CurrentWindow
  <2>8. QED
    BY <2>6, <2>7
<1>10. QED
  BY <1>8, <1>9 DEF Count

\* EXPIRE comes after INCR, so the time to live reaches past the window.
LEMMA SetExpiryKeepsCounted ==
  ASSUME TypeOK, Counted, NEW r \in Requests, SetExpiry(r)
  PROVE  Counted'
<1>1. ClientOf[r] \in Clients /\ window[r] \in Windows
  BY GatewayAssumption DEF TypeOK
<1>2. Window * window[r] <= now
  <2>1. window[r] <= now \div Window /\ window[r] \in Nat
    BY <1>1 DEF Counted, CurrentWindow, Windows
  <2>2. now \in Nat /\ Window * (now \div Window) <= now /\ now \div Window \in Nat
    <3>1. now \in Nat
      BY LimiterAssumption DEF TypeOK, LimiterTypeOK
    <3>2. now \div Window \in Nat
      BY <3>1, DivMonotone, LimiterAssumption
    <3>3. QED
      BY <3>1, <3>2, DivFloor, LimiterAssumption
  <2>3. Window * window[r] <= Window * (now \div Window)
    BY <2>1, <2>2, LimiterAssumption
  <2>4. QED
    BY <2>1, <2>2, <2>3, LimiterAssumption
<1>3. now + Window >= Window * (window[r] + 1)
  BY <1>1, <1>2, LimiterAssumption DEF TypeOK, LimiterTypeOK, Windows
<1>4. \A c \in Clients, b \in Windows : ttl'[c][b] >= Window * (b + 1)
  BY <1>1, <1>3 DEF SetExpiry, Expire, Counted, TypeOK, LimiterTypeOK, limiterVars
<1>5. UNCHANGED <<now, count, limitVars>>
  BY DEF SetExpiry, Expire, limiterVars
<1>6. \A x \in inWindow : pc'[x] \notin {"new", "incr"}
  BY DEF SetExpiry, Goto, Counted, TypeOK
<1>7. QED
  BY <1>4, <1>5, <1>6 DEF Counted, CurrentWindow, limitVars

\* A key is dropped only once its window is over.
LEMMA TickKeepsCounted ==
  ASSUME TypeOK, Counted, Tick, UNCHANGED <<pc, limitVars>>
  PROVE  Counted'
<1>1. now \in Nat /\ now' = now + 1 /\ now' <= MaxTime
  BY LimiterAssumption DEF Tick, TypeOK, LimiterTypeOK
<1>2. CurrentWindow \in Nat /\ CurrentWindow' \in Nat /\ CurrentWindow <= CurrentWindow'
  BY <1>1, DivMonotone, LimiterAssumption DEF CurrentWindow
<1>3. \A b \in Windows : b \in Nat /\ Forever >= Window * (b + 1)
  <2> SUFFICES ASSUME NEW b \in Windows PROVE b \in Nat /\ Forever >= Window * (b + 1)
    OBVIOUS
  <2>1. MaxTime \div Window \in Nat /\ Window * (MaxTime \div Window) <= MaxTime
    BY DivMonotone, DivFloor, LimiterAssumption
  <2>2. b \in Nat /\ b <= MaxTime \div Window
    BY <2>1 DEF Windows
  <2>3. Window * b <= Window * (MaxTime \div Window)
    BY <2>1, <2>2, LimiterAssumption
  <2>4. QED
    BY <2>1, <2>2, <2>3, LimiterAssumption DEF Forever
<1>4. \A c \in Clients, b \in Windows : ttl'[c][b] >= Window * (b + 1)
  BY <1>3 DEF Tick, Counted, TypeOK, LimiterTypeOK
<1>5. ASSUME NEW c \in Clients, NEW b \in Windows, CurrentWindow' = b
      PROVE  count'[c][b] = count[c][b]
  <2>1. now' < Window * (b + 1)
    BY <1>1, <1>5, DivFloor, LimiterAssumption DEF CurrentWindow
  <2>2. ttl[c][b] >= Window * (b + 1) /\ Window * (b + 1) \in Nat /\ ttl[c][b] \in Int
    BY <1>3, LimiterAssumption DEF Counted, TypeOK, LimiterTypeOK
  <2>3. ~(ttl[c][b] <= now')
    BY <1>1, <2>1, <2>2
  <2>4. QED
    BY <2>3 DEF Tick
<1>6. \A r \in Requests : window'[r] <= CurrentWindow'
  BY <1>2 DEF Counted, limitVars, TypeOK, Windows
<1>7. ASSUME NEW r \in inWindow, CurrentWindow' = window[r]
      PROVE  n[r] <= count'[ClientOf[r]][window[r]]
  <2>1. ClientOf[r] \in Clients /\ window[r] \in Windows /\ window[r] <= CurrentWindow
    BY GatewayAssumption DEF Counted, TypeOK
  <2>2. CurrentWindow = window[r]
    BY <2>1, <1>2, <1>3, <1>7
  <2>3. QED
    BY <2>1, <2>2, <1>5, <1>7 DEF Counted
<1>8. QED
  BY <1>4, <1>6, <1>7 DEF Counted, limitVars

\* Every step keeps the numbers of a window apart and its key alive.
LEMMA CountedStep == IInv /\ [Next]_vars => Counted'
<1> SUFFICES ASSUME TypeOK, Counted, [Next]_vars PROVE Counted'
  BY DEF IInv
<1>1. ASSUME NEW r \in Requests, Accept(r) PROVE Counted'
  <2>1. r \notin inWindow
    BY <1>1 DEF Accept, Counted
  <2>2. \A x \in inWindow : window'[x] = window[x] /\ pc'[x] = pc[x]
    BY <1>1, <2>1 DEF Accept, Goto, TypeOK
  <2>3. \A x \in Requests : window'[x] = window[x] \/ window'[x] = CurrentWindow
    BY <1>1 DEF Accept, TypeOK
  <2>4. CurrentWindow \in Nat /\ UNCHANGED <<limiterVars, n, inWindow>>
    <3>1. CurrentWindow \in Windows
      BY WindowInRange DEF TypeOK, LimiterTypeOK
    <3>2. QED
      BY <1>1, <3>1 DEF Accept, Windows
  <2>5. QED
    BY <2>2, <2>3, <2>4 DEF Counted, CurrentWindow, limiterVars
<1>2. ASSUME NEW r \in Requests, Count(r) PROVE Counted'
  BY <1>2, CountKeepsCounted
<1>3. ASSUME NEW r \in Requests, SetExpiry(r) PROVE Counted'
  BY <1>3, SetExpiryKeepsCounted
<1>4. ASSUME NEW r \in Requests, CheckForm(r) \/ PutUpload(r) \/ Insert(r) PROVE Counted'
  BY <1>4, CountedStays DEF CheckForm, PutUpload, Insert, Answer, Goto, TypeOK
<1>5. ASSUME NEW r \in Requests, Publish(r) \/ AwaitConfirm(r) \/ TakeOver(r) PROVE Counted'
  BY <1>5, CountedStays DEF Publish, AwaitConfirm, TakeOver, Answer, Goto, TypeOK
<1>6. ASSUME ConnectionLost \/ Sigterm PROVE Counted'
  BY <1>6, CountedStays DEF ConnectionLost, Sigterm
<1>7. ASSUME Crash \/ Stop PROVE Counted'
  BY <1>7, CountedStays DEF Crash, Stop, Restart, TypeOK
<1>8. ASSUME Second PROVE Counted'
  BY <1>8, TickKeepsCounted DEF Second
<1>9. ASSUME Served \/ UNCHANGED vars PROVE Counted'
  BY <1>9, CountedStays DEF Served, vars
<1>10. QED
  BY <1>1, <1>2, <1>3, <1>4, <1>5, <1>6, <1>7, <1>8, <1>9 DEF Next, Handle

\* Requests that were let through have different numbers up to Limit.
LEMMA CountedHolds == TypeOK /\ Counted => WindowHolds
<1> SUFFICES ASSUME TypeOK, Counted, NEW c \in Clients, NEW b \in Windows
             PROVE  Cardinality({r \in inWindow : ClientOf[r] = c /\ window[r] = b /\ Allows(n[r])})
                      <= Limit
  BY DEF WindowHolds
<1> DEFINE S == {r \in inWindow : ClientOf[r] = c /\ window[r] = b /\ Allows(n[r])}
           f == [r \in S |-> n[r]]
<1>1. \A r \in S : n[r] \in 1..Limit
  BY LimiterAssumption DEF Counted, TypeOK, Allows
<1>2. f \in Injection(S, 1..Limit)
  BY <1>1 DEF Injection, IsInjective, Counted
<1>3. IsFiniteSet(1..Limit) /\ Cardinality(1..Limit) = Limit
  BY FS_Interval, LimiterAssumption
<1>4. QED
  <2> HIDE DEF S, f
  <2>1. Cardinality(S) <= Cardinality(1..Limit)
    BY <1>2, <1>3, FS_Injection
  <2>2. QED
    BY <2>1, <1>3 DEF S

(***************************************************************************)
(* The theorems                                                            *)
(***************************************************************************)

\* A fresh process satisfies the invariant.
LEMMA InvInit == Init => IInv
<1> SUFFICES ASSUME Init PROVE IInv
  OBVIOUS
<1>1. MaxTime \div Window \in Nat /\ 0 \in Windows
  BY DivMonotone, LimiterAssumption DEF Windows
<1>2. Forever \in 0..Forever /\ 0 \in 0..MaxTime
  BY LimiterAssumption DEF Forever
<1>3. TypeOK
  BY <1>1, <1>2 DEF Init, LimiterInit, TypeOK, LimiterTypeOK, Step
<1>4. CurrentWindow = 0
  BY LimiterAssumption DEF Init, LimiterInit, CurrentWindow
<1>5. \A b \in Windows : Forever >= Window * (b + 1)
  <2> SUFFICES ASSUME NEW b \in Windows PROVE Forever >= Window * (b + 1)
    OBVIOUS
  <2>1. Window * (MaxTime \div Window) <= MaxTime
    BY DivFloor, LimiterAssumption
  <2>2. b \in Nat /\ b <= MaxTime \div Window
    BY <1>1 DEF Windows
  <2>3. Window * b <= Window * (MaxTime \div Window)
    BY <1>1, <2>2, LimiterAssumption
  <2>4. QED
    BY <1>1, <2>1, <2>2, <2>3, LimiterAssumption DEF Forever
<1>6. Counted
  BY <1>4, <1>5 DEF Init, LimiterInit, Counted
<1>7. Submission
  BY GatewayAssumption DEF Init, Submission, Written, Awaited, AcceptedIsQueued,
     QueuedIsRunnable, OrphanWasReported, ShutdownDrains, Code
<1>8. QED
  BY <1>3, <1>6, <1>7 DEF IInv, Submission

\* The inductive invariant holds in every state of every instance.
THEOREM Invariance == Spec => []IInv
<1>1. IInv /\ [Next]_vars => IInv'
  BY TypeStep, CountedStep, SubmissionStep DEF IInv, Submission
<1>2. QED
  BY <1>1, InvInit, PTL DEF Spec

\* A client told 202 has its job on the queue, with its row and its source.
THEOREM AcceptedStaysQueued == Spec => []AcceptedIsQueued
<1>1. IInv => AcceptedIsQueued
  BY DEF IInv
<1>2. QED
  BY <1>1, Invariance, PTL

\* No worker sees a message before its row and its source, and no job is
\* left without a message unless its client was told.
THEOREM NoOrphanUntold == Spec => [](QueuedIsRunnable /\ OrphanWasReported)
<1>1. IInv => QueuedIsRunnable /\ OrphanWasReported
  BY DEF IInv
<1>2. QED
  BY <1>1, Invariance, PTL

\* At most Limit requests of a client are let through per window.
THEOREM LimitHolds == Spec => []WindowHolds
<1>1. IInv => WindowHolds
  BY CountedHolds DEF IInv
<1>2. QED
  BY <1>1, Invariance, PTL

\* A SIGTERM cuts no request off.
THEOREM ShutdownIsGraceful == Spec => []ShutdownDrains
<1>1. IInv => ShutdownDrains
  BY DEF IInv
<1>2. QED
  BY <1>1, Invariance, PTL

====
