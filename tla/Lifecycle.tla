---- MODULE Lifecycle ----
(***************************************************************************)
(* How the status of a job changes, as both workers mean it to: what the   *)
(* control room relies on (ControlRoom extends this module) and what the   *)
(* workers keep to as long as no channel outlives its handler (properties  *)
(* of ImageWorker and OcrWorker).                                          *)
(***************************************************************************)

\* The changes of status that `handle` and `fail` make: a failed job starts
\* over with its next attempt (worker.py:46: "a retry flips it back to
\* processing"), and a completed one stays, since the check skips it.
Lifecycle ==
  {<<"pending", "processing">>, <<"processing", "completed">>,
   <<"processing", "failed">>, <<"failed", "processing">>}

====
