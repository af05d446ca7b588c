---- MODULE MCImageWorker ----
(***************************************************************************)
(* Small instances of ImageWorker: one job with two variants next to a     *)
(* job whose source is broken or whose operations name no variant.         *)
(***************************************************************************)
EXTENDS ImageWorker, TLC

CONSTANTS j1, j2, v1, v2

\* The good job makes two variants; the other one would make one.
TwoResults == [j \in Jobs |-> IF j = j1 THEN <<v1, v2>> ELSE <<v1>>]

\* The good job names a variant twice, the other no known variant: Process
\* neither removes duplicates nor rejects unknown names.
OddResults == [j \in Jobs |-> IF j = j1 THEN <<v1, v1>> ELSE <<>>]

OneResult == [j \in Jobs |-> <<v1>>]

Interchangeable == Permutations(Workers)

====
