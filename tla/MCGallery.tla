---- MODULE MCGallery ----
(***************************************************************************)
(* A small instance of Gallery: pages of one or two jobs.                  *)
(***************************************************************************)
EXTENDS Gallery

SomeLimits == {Absent, 0, 1, 5}

====
