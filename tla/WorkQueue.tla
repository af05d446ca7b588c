---- MODULE WorkQueue ----
(***************************************************************************)
(* One work queue of the RabbitMQ topology (q.image or q.ocr) with the     *)
(* retry loop and the parking lot around it, as both workers declare it:   *)
(*                                                                         *)
(*    media.jobs --> q.<kind> --nack--> media.jobs.dlx --> q.retry         *)
(*        ^                                                   |            *)
(*        +------------------ TTL expired --------------------+            *)
(*    a worker that gives up: publish to media.jobs.parking, then ack      *)
(*                                                                         *)
(* The module holds the broker's state and one action operator for each    *)
(* thing the broker or a worker's channel can do to it.  The worker        *)
(* modules EXTEND it and conjoin these operators with their own steps.     *)
(***************************************************************************)
EXTENDS Naturals, FiniteSets

CONSTANTS
  Jobs,       \* the jobs published on this queue: one message each
  Workers,    \* the worker processes consuming the queue
  Nobody,     \* holder of a message that no channel holds
  MaxRetries, \* RABBITMQ_MAX_RETRIES
  Prefetch    \* RABBITMQ_PREFETCH: unacked deliveries per channel

ASSUME QueueAssumption ==
  /\ Nobody \notin Workers
  /\ MaxRetries \in Nat
  /\ Prefetch \in Nat \ {0}

VARIABLES
  at,      \* where the job's message is: a place of Place
  holder,  \* the worker on whose channel it is unacked, or Nobody
  deaths,  \* count of its first x-death entry: times dead-lettered so far
  parked   \* copies of it in q.parking

queueVars == <<at, holder, deaths, parked>>

Place == {"ready", "unacked", "retry", "acked"}

QueueTypeOK ==
  /\ at \in [Jobs -> Place]
  /\ holder \in [Jobs -> Workers \cup {Nobody}]
  /\ deaths \in [Jobs -> Nat]
  /\ parked \in [Jobs -> Nat]

\* The gateway has published every job and the broker has confirmed it.
QueueInit ==
  /\ at = [j \in Jobs |-> "ready"]
  /\ holder = [j \in Jobs |-> Nobody]
  /\ deaths = [j \in Jobs |-> 0]
  /\ parked = [j \in Jobs |-> 0]

Held(w) == {j \in Jobs : holder[j] = w}

\* The attempt number a worker computes from the x-death header.
AttemptOf(j) == deaths[j] + 1

\* Mutants of GivesUp: one attempt too many, one too few.
GivesUpLate(permanent, attempt) == permanent \/ attempt > MaxRetries
GivesUpEarly(permanent, attempt) == permanent \/ attempt + 1 >= MaxRetries

\* The terminal decision of the retry policy for a failed delivery.
GivesUp(permanent, attempt) == permanent \/ attempt >= MaxRetries

\* Mutant of Push: consuming with autoAck.
PushAutoAck(w, j) ==
  /\ at[j] = "ready"
  /\ Cardinality(Held(w)) < Prefetch
  /\ at' = [at EXCEPT ![j] = "acked"]
  /\ holder' = [holder EXCEPT ![j] = w]
  /\ UNCHANGED <<deaths, parked>>

(***************************************************************************)
(* The broker pushes a ready message to a consumer, up to its prefetch.    *)
(***************************************************************************)
Push(w, j) ==
  /\ at[j] = "ready"
  /\ Cardinality(Held(w)) < Prefetch
  /\ at' = [at EXCEPT ![j] = "unacked"]
  /\ holder' = [holder EXCEPT ![j] = w]
  /\ UNCHANGED <<deaths, parked>>

(***************************************************************************)
(* d.Ack(false): the message leaves the queue.                             *)
(***************************************************************************)
AckMessage(j) ==
  /\ at' = [at EXCEPT ![j] = "acked"]
  /\ holder' = [holder EXCEPT ![j] = Nobody]
  /\ UNCHANGED <<deaths, parked>>

(***************************************************************************)
(* d.Nack(false, false): not requeued, dead-lettered to q.retry, which     *)
(* raises the count of the x-death header.                                 *)
(***************************************************************************)
NackMessage(j) ==
  /\ at' = [at EXCEPT ![j] = "retry"]
  /\ holder' = [holder EXCEPT ![j] = Nobody]
  /\ deaths' = [deaths EXCEPT ![j] = @ + 1]
  /\ UNCHANGED parked

(***************************************************************************)
(* A copy of the body is published to the parking exchange; the original   *)
(* stays unacked until the worker acks it.                                 *)
(***************************************************************************)
ParkMessage(j) ==
  /\ parked' = [parked EXCEPT ![j] = @ + 1]
  /\ UNCHANGED <<at, holder, deaths>>

(***************************************************************************)
(* The channel of w is gone: the broker requeues all it held, prefetched   *)
(* or in hand.  A requeue is no dead-lettering, so the count stays.        *)
(***************************************************************************)
Requeue(w) ==
  /\ at' = [j \in Jobs |-> IF holder[j] = w THEN "ready" ELSE at[j]]
  /\ holder' = [j \in Jobs |-> IF holder[j] = w THEN Nobody ELSE holder[j]]
  /\ UNCHANGED <<deaths, parked>>

(***************************************************************************)
(* The x-message-ttl of q.retry runs out: back onto media.jobs.            *)
(***************************************************************************)
ExpireRetry(j) ==
  /\ at[j] = "retry"
  /\ at' = [at EXCEPT ![j] = "ready"]
  /\ UNCHANGED <<holder, deaths, parked>>

====
