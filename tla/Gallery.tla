---- MODULE Gallery ----
(***************************************************************************)
(* Two clients of the listing: the gallery of the control room             *)
(* (web/src/components/Gallery.tsx), whose effect fetches a page again     *)
(* whenever the offset, the refresh key or the retry counter changes and   *)
(* lets the answers of earlier calls fall; and a program that walks        *)
(* through all pages by the limit each answer echoes.                      *)
(***************************************************************************)
EXTENDS Listing

CONSTANTS
  Page,      \* PAGE: jobs on a page of the gallery
  WalkLimits \* limits the walker may ask for

ASSUME GalleryAssumption ==
  /\ Page \in 1..MaxLimit
  /\ WalkLimits \subseteq Int \cup {Absent}

VARIABLES
  offset, \* where the page the user wants starts
  live,   \* the call whose answer counts
  shown,  \* the page on the screen, the call it answers (0 before the first)
          \* and where it starts
  total,  \* the number of jobs the gallery knows of
  error,  \* it shows "offline - retry"
  walk    \* the walker: its call (0 before it starts), limit, what it has seen,
          \* the jobs there were when it started, and whether it is done

galleryVars == <<offset, live, shown, total, error>>
vars == <<listVars, galleryVars, walk>>

Init ==
  /\ jobs = <<>>
  /\ calls = <<NewCall(Page, 0)>>
  /\ offset = 0 /\ live = 1
  /\ shown = [call |-> 0, offset |-> 0, page |-> <<>>] /\ total = 0 /\ error = FALSE
  /\ walk = [call |-> 0, limit |-> Absent, seen |-> {}, start |-> {}, done |-> FALSE]

----
(***************************************************************************)
(* The gallery                                                             *)
(***************************************************************************)

\* The effect runs: the call under way is no longer alive, a new one is made.
Load(newOffset) ==
  /\ offset' = newOffset
  /\ Len(calls) < MaxCalls
  /\ calls' = Append(calls, NewCall(Page, newOffset))
  /\ live' = Len(calls) + 1
  /\ UNCHANGED <<jobs, shown, total, error, walk>>

\* The gallery is on the screen; its pager gives way to the retry button.
Visible == error \/ total > 0

Previous ==
  /\ Visible /\ ~error /\ offset # 0
  /\ Load(Max({0, offset - Page}))

\* Mutant of NextPage: one page too many.
NextPageLate ==
  /\ Visible /\ ~error /\ offset + Page <= total
  /\ Load(offset + Page)

NextPage ==
  /\ Visible /\ ~error /\ offset + Page < total
  /\ Load(offset + Page)

Retry == Visible /\ error /\ Load(offset)

\* refreshKey: a queued upload has finished.
Refresh == Load(offset)

Display(i) ==
  /\ shown' = [call |-> i, offset |-> calls[i].offset, page |-> calls[i].page]
  /\ total' = calls[i].total
  /\ error' = FALSE

\* Mutant of Show: every answer counts.
ShowAny(i) ==
  /\ i # walk.call
  /\ Arrives(i)
  /\ IF calls[i].stage = "failed" THEN error' = TRUE /\ UNCHANGED <<shown, total>>
     ELSE Display(i)
  /\ UNCHANGED <<jobs, offset, live, walk>>

\* An answer arrives; it counts if the effect that asked for it is alive.
Show(i) ==
  /\ i # walk.call
  /\ Arrives(i)
  /\ IF i # live THEN UNCHANGED <<shown, total, error>>
     ELSE IF calls[i].stage = "failed" THEN error' = TRUE /\ UNCHANGED <<shown, total>>
     ELSE Display(i)
  /\ UNCHANGED <<jobs, offset, live, walk>>

----
(***************************************************************************)
(* The walker                                                              *)
(***************************************************************************)

StartWalk ==
  /\ walk.call = 0 /\ Len(calls) < MaxCalls
  /\ \E limit \in WalkLimits :
       /\ calls' = Append(calls, NewCall(limit, 0))
       /\ walk' = [walk EXCEPT !.call = Len(calls) + 1, !.limit = limit, !.start = ToSet(jobs)]
  /\ UNCHANGED <<jobs, galleryVars>>

\* A page with jobs: on to the next, by the echoed limit.  An empty page is
\* the end; a failure ends the walk, unfinished.
Step ==
  LET i == walk.call IN
    /\ i # 0
    /\ \/ /\ calls[i].stage = "answered" /\ calls[i].page # <<>> /\ Len(calls) < MaxCalls
          /\ calls' = Append([calls EXCEPT ![i] = Gone],
                             NewCall(walk.limit, calls[i].offset + calls[i].echo))
          /\ walk' = [walk EXCEPT !.call = Len(calls) + 1, !.seen = @ \cup ToSet(calls[i].page)]
       \/ /\ calls[i].stage = "answered" /\ calls[i].page = <<>>
          /\ Arrives(i)
          /\ walk' = [walk EXCEPT !.done = TRUE]
       \/ /\ calls[i].stage = "failed"
          /\ Arrives(i)
          /\ UNCHANGED walk
    /\ UNCHANGED <<jobs, galleryVars>>

Serve(i) == QueryPage(i) \/ QueryCount(i) \/ QueryFails(i)

Next ==
  \/ Insert /\ UNCHANGED <<galleryVars, walk>>
  \/ \E i \in DOMAIN calls : Serve(i) /\ UNCHANGED <<galleryVars, walk>>
  \/ \E i \in DOMAIN calls : Show(i)
  \/ Previous \/ NextPage \/ Retry \/ Refresh
  \/ StartWalk \/ Step

Spec == Init /\ [][Next]_vars

----
(***************************************************************************)
(* Properties                                                              *)
(***************************************************************************)

\* Once the gallery waits for no answer and shows no error, what it shows is
\* the answer to its last call, made for the page the user is on and after
\* the last refresh, whatever order the answers of earlier calls came in.
SettledPageIsAsked ==
  calls[live].stage = "gone" /\ ~error =>
    shown.call = live /\ shown.offset = offset

\* The pager, which goes by the number of jobs of an earlier answer, never
\* leads to a page with nothing on it, and the number shown is never more
\* than there are.
NeverPastTheEnd == (offset = 0 \/ offset < Len(jobs)) /\ total <= Len(jobs)

\* A client that pages to the end by the echoed limit has seen every job
\* there was when it started (handlers.go:225-227: a polite client paging by
\* an oversized limit must not silently skip rows), although jobs keep
\* coming in at the front while it pages.
PagingNeverSkips == walk.done => walk.start \subseteq walk.seen

====
