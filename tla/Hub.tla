---- MODULE Hub ----
(***************************************************************************)
(* The hub of a realtime gateway (realtime-gateway/src/ws/hub.ts): one     *)
(* relation between jobs and clients, kept as two indexes by three         *)
(* methods.  A client of the hub is a socket.                              *)
(***************************************************************************)
EXTENDS Naturals, Sequences

CONSTANTS
  Jobs,   \* jobs that anybody asks about
  Sockets \* every connection there will ever be

VARIABLES
  byJob,   \* the clients subscribed to a job; its domain has the jobs with an entry
  byClient \* the jobs of a client; its domain has the clients with an entry

hubVars == <<byJob, byClient>>

\* index is a function from some of the keys to sets of values.
IsIndex(index, Keys, Values) ==
  /\ DOMAIN index \subseteq Keys
  /\ index \in [DOMAIN index -> SUBSET Values]

HubTypeOK == IsIndex(byJob, Jobs, Sockets) /\ IsIndex(byClient, Sockets, Jobs)

HubInit == byJob = <<>> /\ byClient = <<>>

Entry(index, key) == IF key \in DOMAIN index THEN index[key] ELSE {}

Put(index, key, value) ==
  [k \in DOMAIN index \cup {key} |-> IF k = key THEN Entry(index, key) \cup {value} ELSE index[k]]

\* The clients of the jobs in J less s; an entry that becomes empty goes.
Without(s, J) ==
  LET emptied == {j \in J \cap DOMAIN byJob : byJob[j] \subseteq {s}}
  IN  [j \in DOMAIN byJob \ emptied |-> IF j \in J THEN byJob[j] \ {s} ELSE byJob[j]]

Subscribe(s, j) ==
  /\ byJob' = Put(byJob, j, s)
  /\ byClient' = Put(byClient, s, j)

\* Mutant of Unsubscribe: the second index is left alone.
UnsubscribeHalf(s, j) ==
  /\ byJob' = Without(s, {j})
  /\ UNCHANGED byClient

\* The client keeps its entry, even an empty one.
Unsubscribe(s, j) ==
  /\ byJob' = Without(s, {j})
  /\ byClient' = [k \in DOMAIN byClient |->
                    IF k = s THEN byClient[k] \ {j} ELSE byClient[k]]

\* The client disconnects.
Remove(s) ==
  /\ byJob' = Without(s, Entry(byClient, s))
  /\ byClient' = [k \in DOMAIN byClient \ {s} |-> byClient[k]]

Subscribers(j) == Entry(byJob, j)

====
