---- MODULE MCRealtime ----
(***************************************************************************)
(* A small instance of Realtime: a tab next to another program's socket.   *)
(***************************************************************************)
EXTENDS Realtime

CONSTANTS t1, o1

AllSockets == {o1} \cup {SocketOf(t1, n) : n \in 1..MaxSockets}

====
