---- MODULE MCControlRoom ----
(***************************************************************************)
(* Small instances of ControlRoom: two uploads.                            *)
(***************************************************************************)
EXTENDS ControlRoom

CONSTANTS a, b

Polls == [queue |-> 1, panel |-> 0]

====
