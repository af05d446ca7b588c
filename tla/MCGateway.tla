---- MODULE MCGateway ----
(***************************************************************************)
(* A small instance of Gateway: two uploads of one client.                 *)
(***************************************************************************)
EXTENDS Gateway

CONSTANTS c1

OneClient == [r \in Requests |-> c1]

====
