---- MODULE MCOcrWorker ----
(***************************************************************************)
(* Small instances of OcrWorker: two replicas and a good job next to one   *)
(* whose extraction may raise, or whose message does not parse.            *)
(***************************************************************************)
EXTENDS OcrWorker

CONSTANTS j1, j2

====
