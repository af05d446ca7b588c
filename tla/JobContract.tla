---- MODULE JobContract ----
(***************************************************************************)
(* What the workers promise of every job on their queue, whatever they do  *)
(* in between: bounded, at-least-once processing (docs/architecture.md,    *)
(* section 4).  A job is open until its message has left the work queue;   *)
(* it may be retried fewer than MaxRetries times, is given up only when no *)
(* attempt is left or none can succeed, and is closed only once its output *)
(* is stored or it has been given up.                                      *)
(***************************************************************************)
EXTENDS Naturals

CONSTANTS
  Jobs,
  MaxRetries,
  Hopeless,   \* jobs that may fail in a way no retry is made for
  Effortless  \* jobs without output: nothing has to be stored for them

VARIABLES open, stored, givenUp, retries

contractVars == <<open, stored, givenUp, retries>>

Init ==
  /\ open = Jobs
  /\ stored = Effortless
  /\ givenUp = {}
  /\ retries = [j \in Jobs |-> 0]

\* The last piece of the output is stored; a stale handler may do it for a
\* job that is closed.
Store(j) ==
  /\ j \notin stored
  /\ stored' = stored \cup {j}
  /\ UNCHANGED <<open, givenUp, retries>>

Retry(j) ==
  /\ j \in open
  /\ retries[j] + 1 < MaxRetries
  /\ retries' = [retries EXCEPT ![j] = @ + 1]
  /\ UNCHANGED <<open, stored, givenUp>>

GiveUp(j) ==
  /\ j \in open
  /\ j \in Hopeless \/ retries[j] + 1 >= MaxRetries
  /\ givenUp' = givenUp \cup {j}
  /\ UNCHANGED <<open, stored, retries>>

Close(j) ==
  /\ j \in open
  /\ j \in stored \cup givenUp
  /\ open' = open \ {j}
  /\ UNCHANGED <<stored, givenUp, retries>>

Next == \E j \in Jobs : Store(j) \/ Retry(j) \/ GiveUp(j) \/ Close(j)

Safety == Init /\ [][Next]_contractVars

Spec == Safety /\ <>(open = {})

====
