---- MODULE Listing ----
(***************************************************************************)
(* The gateway's GET /v1/media (services/api-gateway): handleList reads    *)
(* the paging of the query string and Store.ListJobs one page of the jobs, *)
(* newest first, with their number, for several calls at once, while jobs  *)
(* are submitted.  Rows are never deleted.                                 *)
(***************************************************************************)
EXTENDS Integers, Sequences, SequencesExt, FiniteSetsExt

CONSTANTS
  Absent,       \* a query parameter that is missing or does not parse
  DefaultLimit, \* listDefaultLimit
  MaxLimit,     \* listMaxLimit
  MaxJobs,      \* bound on the number of jobs
  MaxCalls      \* bound on the number of calls

ASSUME ListingAssumption ==
  /\ {DefaultLimit, MaxLimit} \subseteq Nat \ {0}
  /\ DefaultLimit <= MaxLimit
  /\ {MaxJobs, MaxCalls} \subseteq Nat
  /\ Absent \notin Int

VARIABLES
  jobs, \* the jobs table in the order of the listing
  calls \* the calls so far: limit, offset and echoed limit, the query ahead
        \* ("page" or "count") or how it ended, and its answer

listVars == <<jobs, calls>>

ListInit == jobs = <<>> /\ calls = <<>>

\* CreateJob commits.  created_at is the start of its transaction: two
\* submissions may commit in the other order.
Insert ==
  /\ Len(jobs) < MaxJobs
  /\ \E position \in {1, 2} :
       /\ position <= Len(jobs) + 1
       /\ jobs' = InsertAt(jobs, position, Len(jobs) + 1)
  /\ UNCHANGED calls

LimitOf(n) == IF n # Absent /\ n >= 1 THEN Min({n, MaxLimit}) ELSE DefaultLimit

OffsetOf(n) == IF n # Absent /\ n >= 0 THEN n ELSE 0

\* Mutant of Echo: the limit as it was asked for.
EchoAsked(n) == IF n = Absent THEN DefaultLimit ELSE n

\* The limit that the answer names.
Echo(n) == LimitOf(n)

\* handleList is called.
NewCall(limit, offset) ==
  [limit |-> LimitOf(limit), offset |-> OffsetOf(offset), echo |-> Echo(limit),
   stage |-> "page", page |-> <<>>, total |-> 0]

\* The page and the number of jobs, from one snapshot; without a row there
\* is no number either.
QueryPage(i) ==
  /\ calls[i].stage = "page"
  /\ LET offset == calls[i].offset
         page == SubSeq(jobs, offset + 1, Min({offset + calls[i].limit, Len(jobs)}))
     IN  calls' = [calls EXCEPT
           ![i].page = page,
           ![i].total = IF page = <<>> THEN 0 ELSE Len(jobs),
           ![i].stage = IF page = <<>> /\ offset > 0 THEN "count" ELSE "answered"]
  /\ UNCHANGED jobs

\* SELECT count(*), on a snapshot of its own.
QueryCount(i) ==
  /\ calls[i].stage = "count"
  /\ calls' = [calls EXCEPT ![i].total = Len(jobs), ![i].stage = "answered"]
  /\ UNCHANGED jobs

\* Either query fails: 500.
QueryFails(i) ==
  /\ calls[i].stage \in {"page", "count"}
  /\ calls' = [calls EXCEPT ![i].stage = "failed"]
  /\ UNCHANGED jobs

Gone == [limit |-> 0, offset |-> 0, echo |-> 0, stage |-> "gone", page |-> <<>>, total |-> 0]

\* The answer of call i reaches its caller.
Arrives(i) ==
  /\ calls[i].stage \in {"answered", "failed"}
  /\ calls' = [calls EXCEPT ![i] = Gone]

====
