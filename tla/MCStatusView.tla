---- MODULE MCStatusView ----
(***************************************************************************)
(* A small instance of StatusView: one reader, two workers, a job with two *)
(* artifacts.                                                              *)
(***************************************************************************)
EXTENDS StatusView, TLC

CONSTANTS v1, v2

TwoResults == [j \in Jobs |-> <<v1, v2>>]

Interchangeable == Permutations(Workers)

====
