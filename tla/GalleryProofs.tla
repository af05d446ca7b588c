---- MODULE GalleryProofs ----
(***************************************************************************)
(* Proofs about Gallery and the Listing it pages through, for every value  *)
(* of their constants: any limits, any number of jobs and calls.           *)
(*                                                                         *)
(* The parts of IInv, each with the lemma that every step preserves it:    *)
(*   TypeStep      the variables keep their types;                         *)
(*   CurrentStep   the call that counts is never the walker's, and until   *)
(*                 it is answered it is for the page the user is on;       *)
(*   CountedStep   no answer counts more jobs than there are, for jobs are *)
(*                 only added;                                             *)
(*   PagesStep     what the walker has not seen yet is in the page it was  *)
(*                 sent or ahead of it, for an insertion moves jobs away   *)
(*                 from the front only (InsertedAhead).                    *)
(***************************************************************************)
EXTENDS Gallery, SequenceTheorems, TLAPS

(***************************************************************************)
(* The inductive invariant                                                 *)
(***************************************************************************)

Stages == {"page", "count", "answered", "failed", "gone"}

Call == [limit : Nat, offset : Nat, echo : Nat, stage : Stages, page : Seq(Nat), total : Nat]

TypeOK ==
  /\ jobs \in Seq(Nat)
  /\ calls \in Seq(Call)
  /\ offset \in Nat /\ live \in DOMAIN calls
  /\ shown \in [call : Nat, offset : Nat, page : Seq(Nat)]
  /\ total \in Nat /\ error \in BOOLEAN
  /\ walk \in [call : {0} \cup DOMAIN calls, limit : WalkLimits \cup {Absent},
               seen : SUBSET Nat, start : SUBSET Nat, done : BOOLEAN]

\* The call whose answer counts is for the page the user is on.
Current ==
  /\ live # walk.call
  /\ calls[live].stage # "gone" => calls[live].offset = offset
  /\ SettledPageIsAsked

\* Nobody knows of more jobs than there are.
Counted == NeverPastTheEnd /\ \A i \in DOMAIN calls : calls[i].total <= Len(jobs)

\* The jobs behind the first n.
Behind(s, n) == {s[k] : k \in n + 1..Len(s)}

Ahead(n) == Behind(jobs, n)

\* A walk has seen what there was when it started, but for what its call
\* brings or has still ahead of it; an empty page has nothing behind it.
OnTheWay(c) ==
  /\ c.stage # "gone" => c.limit > 0 /\ c.echo = c.limit
  /\ c.stage = "page" => walk.start \subseteq walk.seen \cup Ahead(c.offset)
  /\ c.stage \in {"count", "answered"} =>
       walk.start \subseteq walk.seen \cup ToSet(c.page) \cup Ahead(c.offset + c.echo)
  /\ c.stage \in {"count", "answered"} /\ c.page = <<>> => walk.start \subseteq walk.seen

Pages ==
  /\ walk.call # 0 => OnTheWay(calls[walk.call])
  /\ walk.done => walk.call # 0

IInv == TypeOK /\ Current /\ Counted /\ Pages /\ PagingNeverSkips

----
(***************************************************************************)
(* The listing                                                             *)
(***************************************************************************)

\* The smaller and the larger of two numbers.
LEMMA MinOfTwo ==
  ASSUME NEW a \in Int, NEW b \in Int
  PROVE  Min({a, b}) = IF a <= b THEN a ELSE b
<1>1. \E x \in {a, b} : \A y \in {a, b} : x =< y
  OBVIOUS
<1>2. QED
  BY <1>1 DEF Min

\* The larger of two numbers.
LEMMA MaxOfTwo ==
  ASSUME NEW a \in Int, NEW b \in Int
  PROVE  Max({a, b}) = IF a <= b THEN b ELSE a
<1>1. \E x \in {a, b} : \A y \in {a, b} : x >= y
  OBVIOUS
<1>2. QED
  BY <1>1 DEF Max

\* Whatever is asked for, a call has a limit of at least one and echoes it.
LEMMA NewCallFacts ==
  ASSUME NEW n \in Int \cup {Absent}, NEW o \in Nat
  PROVE  /\ NewCall(n, o) \in Call
         /\ NewCall(n, o).offset = o /\ NewCall(n, o).stage = "page"
         /\ NewCall(n, o).total = 0
         /\ NewCall(n, o).limit > 0 /\ NewCall(n, o).echo = NewCall(n, o).limit
<1>1. LimitOf(n) \in Nat /\ LimitOf(n) > 0
  BY MinOfTwo, ListingAssumption DEF LimitOf
<1>2. OffsetOf(o) = o
  BY ListingAssumption DEF OffsetOf
<1>3. <<>> \in Seq(Nat)
  OBVIOUS
<1>4. QED
  BY <1>1, <1>2, <1>3 DEF NewCall, Call, Stages, Echo

\* An insertion adds one job and keeps the others in their order.
LEMMA InsertFacts ==
  ASSUME NEW s \in Seq(Nat), NEW p \in 1..Len(s) + 1, NEW e \in Nat
  PROVE  /\ InsertAt(s, p, e) \in Seq(Nat)
         /\ Len(InsertAt(s, p, e)) = Len(s) + 1
         /\ \A k \in 1..Len(s) : /\ k < p => InsertAt(s, p, e)[k] = s[k]
                                 /\ k >= p => InsertAt(s, p, e)[k + 1] = s[k]
<1> DEFINE front == SubSeq(s, 1, p - 1)
           back == SubSeq(s, p, Len(s))
<1>1. /\ front \in Seq(Nat) /\ Len(front) = p - 1
      /\ \A k \in 1..p - 1 : front[k] = s[k]
  BY SubSeqProperties
<1>2. /\ back \in Seq(Nat) /\ Len(back) = Len(s) + 1 - p
      /\ \A k \in 1..Len(s) + 1 - p : back[k] = s[p + k - 1]
  BY SubSeqProperties
<1>3. <<e>> \in Seq(Nat) /\ Len(<<e>>) = 1 /\ <<e>>[1] = e
  OBVIOUS
<1> DEFINE one == <<e>>
           upTo == front \o one
<1>5. InsertAt(s, p, e) = upTo \o back
  BY DEF InsertAt
<1> HIDE DEF front, back, one
<1>4. /\ upTo \in Seq(Nat) /\ Len(upTo) = p
      /\ \A k \in 1..p : upTo[k] = IF k < p THEN s[k] ELSE e
  <2>1. one \in Seq(Nat) /\ Len(one) = 1 /\ one[1] = e
    BY <1>3 DEF one
  <2>2. p \in Nat /\ p >= 1 /\ Len(front) + 1 = p /\ Len(front) \in Nat
    BY <1>1, LenProperties
  <2>3. /\ upTo \in Seq(Nat) /\ Len(upTo) = Len(front) + Len(one)
        /\ \A k \in 1..Len(front) + Len(one) :
             upTo[k] = IF k <= Len(front) THEN front[k] ELSE one[k - Len(front)]
    BY <1>1, <2>1, ConcatProperties
  <2> HIDE DEF upTo
  <2>4. ASSUME NEW k \in 1..p PROVE upTo[k] = IF k < p THEN s[k] ELSE e
    <3>1. CASE k < p
      <4>1. k <= Len(front) /\ k \in 1..p - 1 /\ k \in 1..Len(front) + Len(one)
        BY <2>1, <2>2, <3>1
      <4>2. QED
        BY <1>1, <2>3, <3>1, <4>1
    <3>2. CASE k = p
      <4>1. ~(k <= Len(front)) /\ k - Len(front) = 1 /\ k \in 1..Len(front) + Len(one) /\ ~(k < p)
        BY <2>1, <2>2, <3>2
      <4>2. QED
        BY <2>1, <2>3, <4>1
    <3>3. QED
      BY <2>2, <3>1, <3>2
  <2>5. QED
    BY <2>1, <2>2, <2>3, <2>4
<1> HIDE DEF upTo
<1>6. p \in Nat /\ Len(s) \in Nat /\ p + (Len(s) + 1 - p) = Len(s) + 1
  BY LenProperties
<1>7. /\ upTo \o back \in Seq(Nat) /\ Len(upTo \o back) = Len(upTo) + Len(back)
      /\ \A k \in 1..Len(upTo) + Len(back) :
           (upTo \o back)[k] = IF k <= Len(upTo) THEN upTo[k] ELSE back[k - Len(upTo)]
  BY <1>2, <1>4, ConcatProperties
<1>8. ASSUME NEW k \in 1..Len(s)
      PROVE  /\ k < p => (upTo \o back)[k] = s[k]
             /\ k >= p => (upTo \o back)[k + 1] = s[k]
  <2>1. CASE k < p
    BY <1>4, <1>6, <1>7, <1>2, <2>1
  <2>2. CASE k >= p
    <3>1. k + 1 - p \in 1..Len(s) + 1 - p /\ p + (k + 1 - p) - 1 = k /\ ~(k + 1 <= p)
      BY <1>6, <2>2
    <3>2. (upTo \o back)[k + 1] = back[k + 1 - p]
      <4>1. Len(upTo) = p /\ Len(back) = Len(s) + 1 - p /\ k + 1 \in 1..Len(s) + 1
        BY <1>2, <1>4, <1>6, <2>2
      <4>2. k + 1 \in 1..Len(upTo) + Len(back) /\ ~(k + 1 <= Len(upTo))
        BY <1>6, <3>1, <4>1
      <4> HIDE DEF back
      <4>3. (upTo \o back)[k + 1] = back[k + 1 - Len(upTo)]
        BY <1>7, <4>2
      <4>4. QED
        BY <4>1, <4>3
    <3>3. QED
      BY <1>2, <1>6, <2>2, <3>1, <3>2
  <2>3. QED
    BY <1>6, <2>1, <2>2
<1>9. QED
  BY <1>2, <1>4, <1>5, <1>6, <1>7, <1>8

\* A page holds the jobs it covers, and is empty at the end of the listing only.
LEMMA PageFacts ==
  ASSUME NEW s \in Seq(Nat), NEW o \in Nat, NEW n \in Nat, n > 0,
         NEW m \in Nat, m = IF o + n <= Len(s) THEN o + n ELSE Len(s)
  PROVE  /\ SubSeq(s, o + 1, m) \in Seq(Nat)
         /\ \A k \in o + 1..Len(s) : k <= o + n => s[k] \in ToSet(SubSeq(s, o + 1, m))
         /\ SubSeq(s, o + 1, m) = <<>> => Len(s) <= o
<1>1. m <= Len(s) /\ m <= o + n /\ (m = o + n \/ m = Len(s)) /\ Len(s) \in Nat
  BY LenProperties
<1>2. CASE o + 1 <= m
  <2> DEFINE page == SubSeq(s, o + 1, m)
  <2>1. \A i \in o + 1..m : s[i] \in Nat
    BY <1>1
  <2>2. /\ page \in Seq(Nat) /\ Len(page) = m - (o + 1) + 1
        /\ \A k \in 1..m - (o + 1) + 1 : page[k] = s[o + 1 + k - 1]
    BY <1>1, <1>2, <2>1, SubSeqProperties
  <2> HIDE DEF page
  <2>3. ASSUME NEW k \in o + 1..Len(s), k <= o + n PROVE s[k] \in ToSet(page)
    <3>1. k - o \in 1..m - (o + 1) + 1 /\ o + 1 + (k - o) - 1 = k
      BY <1>1, <2>3
    <3>2. page[k - o] = s[o + 1 + (k - o) - 1]
      BY <2>2, <3>1
    <3>3. k - o \in DOMAIN page
      BY <2>2, <3>1
    <3>4. QED
      BY <3>1, <3>2, <3>3 DEF ToSet
  <2>4. Len(page) > 0
    BY <1>1, <1>2, <2>2
  <2>5. page # <<>>
    BY <2>4
  <2>6. QED
    BY <2>2, <2>3, <2>5 DEF page
<1>3. CASE m < o + 1
  <2>1. Len(s) <= o
    BY <1>1, <1>3
  <2>2. SubSeq(s, o + 1, m) = <<>>
    BY <1>3, SubSeqEmpty
  <2>3. QED
    BY <1>1, <2>1, <2>2
<1>4. QED
  BY <1>1, <1>2, <1>3

----
(***************************************************************************)
(* The steps                                                               *)
(***************************************************************************)

\* The gallery asks for the page it is on or for one that its number of jobs
\* says is there.
LEMMA LoadOffset ==
  ASSUME TypeOK, Previous \/ NextPage \/ Retry \/ Refresh
  PROVE  \E o \in Nat : Load(o) /\ (o <= offset \/ o < total)
<1>1. Page \in Nat /\ Page > 0 /\ offset \in Nat
  BY GalleryAssumption, ListingAssumption DEF TypeOK
<1>2. CASE Previous
  <2>1. Max({0, offset - Page}) \in Nat /\ Max({0, offset - Page}) <= offset
    BY <1>1, MaxOfTwo
  <2>2. QED
    BY <1>2, <2>1 DEF Previous
<1>3. CASE NextPage
  BY <1>1, <1>3 DEF NextPage
<1>4. CASE Retry \/ Refresh
  BY <1>1, <1>4 DEF Retry, Refresh
<1>5. QED
  BY <1>2, <1>3, <1>4

\* The kinds of steps.
LEMMA Steps ==
  ASSUME TypeOK, [Next]_vars
  PROVE  \/ Insert /\ UNCHANGED <<galleryVars, walk>>
         \/ \E i \in DOMAIN calls : Serve(i) /\ UNCHANGED <<galleryVars, walk>>
         \/ \E i \in DOMAIN calls : Show(i)
         \/ \E o \in Nat : Load(o) /\ (o <= offset \/ o < total)
         \/ StartWalk
         \/ Step
         \/ UNCHANGED vars
  BY LoadOffset DEF Next

\* What a new call at the end of the list of calls changes.
LEMMA CallAdded ==
  ASSUME NEW s \in Seq(Call), NEW c \in Call
  PROVE  /\ Append(s, c) \in Seq(Call)
         /\ DOMAIN s = 1..Len(s) /\ Len(s) \in Nat
         /\ DOMAIN Append(s, c) = 1..Len(s) + 1
         /\ Append(s, c)[Len(s) + 1] = c
         /\ \A i \in DOMAIN s : Append(s, c)[i] = s[i]
  BY LenProperties, AppendProperties

\* What an update of one call changes.
LEMMA CallUpdated ==
  ASSUME NEW s \in Seq(Call), NEW i \in DOMAIN s, NEW c \in Call
  PROVE  /\ [s EXCEPT ![i] = c] \in Seq(Call)
         /\ DOMAIN [s EXCEPT ![i] = c] = DOMAIN s
         /\ [s EXCEPT ![i] = c][i] = c
         /\ \A k \in DOMAIN s : k # i => [s EXCEPT ![i] = c][k] = s[k]
  BY LenProperties, ExceptSeq

\* A call that is forgotten is still a call.
LEMMA GoneFacts == Gone \in Call /\ Gone.stage = "gone" /\ Gone.total = 0
<1>1. <<>> \in Seq(Nat)
  OBVIOUS
<1>2. QED
  BY <1>1 DEF Gone, Call, Stages

Answer(c, page, n, stage) == [c EXCEPT !.page = page, !.total = n, !.stage = stage]

\* What an answer changes of a call.
LEMMA AnswerFacts ==
  ASSUME NEW c \in Call, NEW page \in Seq(Nat), NEW n \in Nat, NEW stage \in Stages
  PROVE  \E d \in Call :
           /\ d = Answer(c, page, n, stage)
           /\ d.page = page /\ d.total = n /\ d.stage = stage
           /\ d.limit = c.limit /\ d.offset = c.offset /\ d.echo = c.echo
<1> DEFINE d == Answer(c, page, n, stage)
<1>1. /\ d \in Call
      /\ d.page = page /\ d.total = n /\ d.stage = stage
      /\ d.limit = c.limit /\ d.offset = c.offset /\ d.echo = c.echo
  BY DEF Call, Answer
<1> HIDE DEF d
<1>2. d = Answer(c, page, n, stage)
  BY DEF d
<1>3. QED
  BY <1>1, <1>2

\* A query of a call, on the jobs there are: what it was asked stays, and the
\* answer counts no more jobs than there are.
LEMMA ServeFacts ==
  ASSUME TypeOK, NEW i \in DOMAIN calls, Serve(i)
  PROVE  /\ UNCHANGED jobs
         /\ calls[i].stage \in {"page", "count"}
         /\ \E c \in Call :
              /\ calls' = [calls EXCEPT ![i] = c]
              /\ c.stage \in {"count", "answered", "failed"}
              /\ c.offset = calls[i].offset /\ c.limit = calls[i].limit /\ c.echo = calls[i].echo
              /\ c.total <= Len(jobs) \/ c.total = calls[i].total
              /\ c.stage # "failed" /\ calls[i].stage = "count" => c.page = calls[i].page
              /\ c.stage # "failed" /\ calls[i].stage = "page" /\ c.limit > 0 =>
                   /\ \A k \in c.offset + 1..Len(jobs) : k <= c.offset + c.limit =>
                        jobs[k] \in ToSet(c.page)
                   /\ c.page = <<>> => Len(jobs) <= c.offset
<1>1. /\ calls[i] \in Call /\ calls \in Seq(Call) /\ jobs \in Seq(Nat) /\ Len(jobs) \in Nat
  BY LenProperties DEF TypeOK
<1>2. CASE QueryPage(i)
  <2> DEFINE o == calls[i].offset
             n == calls[i].limit
             m == Min({o + n, Len(jobs)})
             page == SubSeq(jobs, o + 1, m)
             c == [calls[i] EXCEPT !.page = page,
                     !.total = IF page = <<>> THEN 0 ELSE Len(jobs),
                     !.stage = IF page = <<>> /\ o > 0 THEN "count" ELSE "answered"]
  <2>1. o \in Nat /\ n \in Nat
    BY <1>1 DEF Call
  <2>2. m \in Nat /\ m = IF o + n <= Len(jobs) THEN o + n ELSE Len(jobs)
    <3> HIDE DEF o, n
    <3>1. o + n \in Int /\ Len(jobs) \in Int /\ o + n >= 0 /\ Len(jobs) >= 0
      BY <1>1, <2>1
    <3>2. m = IF o + n <= Len(jobs) THEN o + n ELSE Len(jobs)
      BY <3>1, MinOfTwo
    <3>3. QED
      BY <3>1, <3>2
  <2>3. calls' = [calls EXCEPT ![i] = c] /\ UNCHANGED jobs /\ calls[i].stage = "page"
    BY <1>2 DEF QueryPage
  <2>4. page \in Seq(Nat)
    <3> HIDE DEF m, o
    <3>1. \A k \in o + 1..m : jobs[k] \in Nat
      BY <1>1, <2>1, <2>2
    <3>2. QED
      BY <2>1, <2>2, <3>1, SubSeqProperties
  <2>5. n > 0 => /\ \A k \in o + 1..Len(jobs) : k <= o + n => jobs[k] \in ToSet(page)
                 /\ page = <<>> => Len(jobs) <= o
    <3> HIDE DEF m, o, n
    <3>1. QED
      BY <1>1, <2>1, <2>2, PageFacts
  <2> HIDE DEF page, m
  <2>6. c \in Call /\ c.page = page /\ c.offset = o /\ c.limit = n /\ c.echo = calls[i].echo
        /\ c.stage \in {"count", "answered"} /\ c.total <= Len(jobs)
    <3> DEFINE number == IF page = <<>> THEN 0 ELSE Len(jobs)
               stage == IF page = <<>> /\ o > 0 THEN "count" ELSE "answered"
    <3>1. number \in Nat /\ number <= Len(jobs) /\ stage \in {"count", "answered"}
      BY <1>1
    <3>2. stage \in Stages
      BY <3>1 DEF Stages
    <3> HIDE DEF number, stage
    <3>3. \E d \in Call :
            /\ d = Answer(calls[i], page, number, stage)
            /\ d.page = page /\ d.total = number /\ d.stage = stage
            /\ d.limit = n /\ d.offset = o /\ d.echo = calls[i].echo
      <4>1. calls[i] \in Call
        BY <1>1
      <4>2. number \in Nat
        BY <3>1
      <4> HIDE DEF c
      <4>3. QED
        BY <2>4, <3>2, <4>1, <4>2, AnswerFacts
    <3>4. c = Answer(calls[i], page, number, stage)
      BY DEF number, stage, Answer
    <3> HIDE DEF c
    <3>5. QED
      BY <3>1, <3>3, <3>4
  <2> HIDE DEF c
  <2>7. QED
    BY <2>3, <2>5, <2>6
<1>3. CASE QueryCount(i)
  <2> DEFINE c == Answer(calls[i], calls[i].page, Len(jobs), "answered")
  <2>1. calls[i].page \in Seq(Nat) /\ "answered" \in Stages
    BY <1>1 DEF Call, Stages
  <2>2. /\ c \in Call /\ c.stage = "answered" /\ c.total = Len(jobs) /\ c.page = calls[i].page
        /\ c.offset = calls[i].offset /\ c.limit = calls[i].limit /\ c.echo = calls[i].echo
    BY <1>1, <2>1, AnswerFacts
  <2>3. c = [calls[i] EXCEPT !.total = Len(jobs), !.stage = "answered"]
    BY <1>1 DEF Call, Answer
  <2> HIDE DEF c
  <2>4. calls' = [calls EXCEPT ![i] = c] /\ UNCHANGED jobs /\ calls[i].stage = "count"
    BY <1>3, <2>3 DEF QueryCount
  <2>5. c.total <= Len(jobs)
    BY <1>1, <2>2
  <2>6. QED
    BY <2>2, <2>4, <2>5
<1>4. CASE QueryFails(i)
  <2> DEFINE c == [calls[i] EXCEPT !.stage = "failed"]
  <2>1. /\ calls' = [calls EXCEPT ![i] = c] /\ UNCHANGED jobs
        /\ calls[i].stage \in {"page", "count"}
        /\ c \in Call /\ c.stage = "failed" /\ c.total = calls[i].total
        /\ c.offset = calls[i].offset /\ c.limit = calls[i].limit /\ c.echo = calls[i].echo
    BY <1>1, <1>4 DEF QueryFails, Call, Stages
  <2> HIDE DEF c
  <2>2. QED
    BY <1>1, <2>1
<1>5. QED
  BY <1>2, <1>3, <1>4 DEF Serve

\* The three ways to take up an answer of the walker's call.
LEMMA StepCases ==
  ASSUME TypeOK, Step
  PROVE  /\ walk.call # 0 /\ UNCHANGED <<jobs, galleryVars>>
         /\ \/ /\ calls[walk.call].stage = "answered" /\ calls[walk.call].page # <<>>
               /\ calls' = Append([calls EXCEPT ![walk.call] = Gone],
                     NewCall(walk.limit, calls[walk.call].offset + calls[walk.call].echo))
               /\ walk' = [walk EXCEPT !.call = Len(calls) + 1,
                                       !.seen = @ \cup ToSet(calls[walk.call].page)]
            \/ /\ calls[walk.call].stage = "answered" /\ calls[walk.call].page = <<>>
               /\ calls' = [calls EXCEPT ![walk.call] = Gone]
               /\ walk' = [walk EXCEPT !.done = TRUE]
            \/ /\ calls[walk.call].stage = "failed"
               /\ calls' = [calls EXCEPT ![walk.call] = Gone]
               /\ UNCHANGED walk
  BY DEF Step, Arrives

\* The walker's next call, behind all others, in place of the one answered.
LEMMA TurnFacts ==
  ASSUME TypeOK, NEW i \in DOMAIN calls,
         NEW o \in Nat, NEW limit \in WalkLimits \cup {Absent},
         calls' = Append([calls EXCEPT ![i] = Gone], NewCall(limit, o))
  PROVE  /\ calls' \in Seq(Call)
         /\ Len(calls) \in Nat /\ DOMAIN calls = 1..Len(calls)
         /\ DOMAIN calls' = 1..Len(calls) + 1
         /\ calls'[Len(calls) + 1] = NewCall(limit, o)
         /\ calls'[i] = Gone
         /\ \A k \in DOMAIN calls : k # i => calls'[k] = calls[k]
<1> DEFINE s == [calls EXCEPT ![i] = Gone]
<1>1. calls \in Seq(Call) /\ NewCall(limit, o) \in Call
  BY NewCallFacts, GalleryAssumption DEF TypeOK
<1>2. /\ s \in Seq(Call) /\ DOMAIN s = DOMAIN calls /\ s[i] = Gone
      /\ \A k \in DOMAIN calls : k # i => s[k] = calls[k]
  BY <1>1, GoneFacts, CallUpdated
<1>3. /\ DOMAIN calls = 1..Len(calls) /\ Len(calls) \in Nat
      /\ DOMAIN s = 1..Len(s) /\ Len(s) \in Nat
  BY <1>1, <1>2, LenProperties
<1> HIDE DEF s
<1>4. Len(s) = Len(calls)
  BY <1>2, <1>3
<1>5. /\ Append(s, NewCall(limit, o)) \in Seq(Call)
      /\ DOMAIN Append(s, NewCall(limit, o)) = 1..Len(s) + 1
      /\ Append(s, NewCall(limit, o))[Len(s) + 1] = NewCall(limit, o)
      /\ \A k \in DOMAIN s : Append(s, NewCall(limit, o))[k] = s[k]
  BY <1>1, <1>2, CallAdded
<1>6. calls' = Append(s, NewCall(limit, o))
  BY DEF s
<1>7. QED
  BY <1>2, <1>3, <1>4, <1>5, <1>6

\* Every step keeps the types.
LEMMA TypeStep == TypeOK /\ [Next]_vars => TypeOK'
<1> SUFFICES ASSUME TypeOK, [Next]_vars PROVE TypeOK'
  OBVIOUS
<1>1. /\ calls \in Seq(Call) /\ DOMAIN calls = 1..Len(calls) /\ Len(calls) \in Nat
      /\ jobs \in Seq(Nat) /\ Len(jobs) \in Nat
  BY LenProperties DEF TypeOK
<1>2. CASE Insert /\ UNCHANGED <<galleryVars, walk>>
  <2>1. jobs' \in Seq(Nat)
    <3>1. PICK p \in {1, 2} : p <= Len(jobs) + 1 /\ jobs' = InsertAt(jobs, p, Len(jobs) + 1)
      BY <1>2 DEF Insert
    <3>2. p \in 1..Len(jobs) + 1 /\ Len(jobs) + 1 \in Nat
      BY <1>1, <3>1
    <3>3. InsertAt(jobs, p, Len(jobs) + 1) \in Seq(Nat)
      BY <1>1, <3>2, InsertFacts, Zenon
    <3>4. QED
      BY <3>1, <3>3
  <2>2. QED
    BY <1>2, <2>1 DEF TypeOK, Insert, galleryVars
<1>3. ASSUME NEW i \in DOMAIN calls, Serve(i), UNCHANGED <<galleryVars, walk>> PROVE TypeOK'
  <2>1. calls' \in Seq(Call) /\ DOMAIN calls' = DOMAIN calls /\ UNCHANGED jobs
    BY <1>1, <1>3, ServeFacts, CallUpdated
  <2>2. QED
    BY <1>3, <2>1 DEF TypeOK, galleryVars
<1>4. ASSUME NEW i \in DOMAIN calls, Show(i) PROVE TypeOK'
  <2>1. calls' \in Seq(Call) /\ DOMAIN calls' = DOMAIN calls
    BY <1>1, <1>4, CallUpdated, GoneFacts DEF Show, Arrives
  <2>2. calls[i] \in Call /\ i \in Nat
    BY <1>1
  <2>3. \/ UNCHANGED <<shown, total, error>>
        \/ error' = TRUE /\ UNCHANGED <<shown, total>>
        \/ Display(i)
    BY <1>4 DEF Show
  <2>4. /\ shown' \in [call : Nat, offset : Nat, page : Seq(Nat)]
        /\ total' \in Nat /\ error' \in BOOLEAN
    <3>1. CASE UNCHANGED <<shown, total, error>> \/ (error' = TRUE /\ UNCHANGED <<shown, total>>)
      BY <3>1 DEF TypeOK
    <3>2. CASE Display(i)
      <4>1. calls[i].offset \in Nat /\ calls[i].page \in Seq(Nat) /\ calls[i].total \in Nat
        BY <2>2 DEF Call
      <4>2. QED
        BY <2>2, <3>2, <4>1 DEF Display
    <3>3. QED
      BY <2>3, <3>1, <3>2
  <2>5. QED
    BY <1>4, <2>1, <2>4 DEF TypeOK, Show
<1>5. ASSUME NEW o \in Nat, Load(o) PROVE TypeOK'
  <2>1. Page \in Int
    BY GalleryAssumption, ListingAssumption
  <2>2. calls' \in Seq(Call) /\ DOMAIN calls' = 1..Len(calls) + 1
    BY <1>1, <1>5, <2>1, CallAdded, NewCallFacts DEF Load
  <2>3. QED
    BY <1>1, <1>5, <2>2 DEF TypeOK, Load
<1>6. CASE StartWalk
  <2>1. PICK limit \in WalkLimits :
          /\ calls' = Append(calls, NewCall(limit, 0))
          /\ walk' = [walk EXCEPT !.call = Len(calls) + 1, !.limit = limit, !.start = ToSet(jobs)]
    BY <1>6 DEF StartWalk
  <2>2. calls' \in Seq(Call) /\ DOMAIN calls' = 1..Len(calls) + 1
    BY <1>1, <2>1, CallAdded, NewCallFacts, GalleryAssumption
  <2>3. ToSet(jobs) \subseteq Nat
    BY <1>1, LenProperties DEF ToSet
  <2>4. /\ walk'.call = Len(calls) + 1 /\ walk'.limit = limit /\ walk'.start = ToSet(jobs)
        /\ walk'.seen = walk.seen /\ walk'.done = walk.done
        /\ walk' = [call |-> walk'.call, limit |-> walk'.limit, seen |-> walk'.seen,
                    start |-> walk'.start, done |-> walk'.done]
    BY <2>1 DEF TypeOK
  <2>5. walk' \in [call : {0} \cup DOMAIN calls', limit : WalkLimits \cup {Absent},
                   seen : SUBSET Nat, start : SUBSET Nat, done : BOOLEAN]
    <3>1. walk.seen \in SUBSET Nat /\ walk.done \in BOOLEAN
      BY DEF TypeOK
    <3>2. Len(calls) + 1 \in DOMAIN calls' /\ ToSet(jobs) \in SUBSET Nat /\ limit \in WalkLimits
      BY <1>1, <2>2, <2>3
    <3>3. QED
      BY <2>4, <3>1, <3>2
  <2>6. QED
    BY <1>1, <1>6, <2>2, <2>5 DEF TypeOK, StartWalk, galleryVars
<1>7. CASE Step
  <2> DEFINE i == walk.call
  <2>1. i \in DOMAIN calls /\ calls[i] \in Call /\ walk.limit \in WalkLimits \cup {Absent}
    BY <1>1, <1>7, StepCases DEF TypeOK
  <2>2. calls[i].offset + calls[i].echo \in Nat /\ calls[i].page \in Seq(Nat)
    BY <2>1 DEF Call
  <2>3. ToSet(calls[i].page) \subseteq Nat
    BY <2>2, LenProperties DEF ToSet
  <2>4. CASE /\ calls' = Append([calls EXCEPT ![i] = Gone],
                               NewCall(walk.limit, calls[i].offset + calls[i].echo))
             /\ walk' = [walk EXCEPT !.call = Len(calls) + 1, !.seen = @ \cup ToSet(calls[i].page)]
    <3>1. calls' \in Seq(Call) /\ DOMAIN calls' = 1..Len(calls) + 1
      BY <2>1, <2>2, <2>4, TurnFacts
    <3>2. /\ walk'.call = Len(calls) + 1 /\ walk'.limit = walk.limit /\ walk'.start = walk.start
          /\ walk'.seen = walk.seen \cup ToSet(calls[i].page) /\ walk'.done = walk.done
          /\ walk' = [call |-> walk'.call, limit |-> walk'.limit, seen |-> walk'.seen,
                      start |-> walk'.start, done |-> walk'.done]
      BY <2>4 DEF TypeOK
    <3>3. walk.seen \cup ToSet(calls[i].page) \in SUBSET Nat /\ Len(calls) + 1 \in DOMAIN calls'
          /\ walk.start \in SUBSET Nat /\ walk.done \in BOOLEAN
      BY <1>1, <2>3, <3>1 DEF TypeOK
    <3>4. walk' \in [call : {0} \cup DOMAIN calls', limit : WalkLimits \cup {Absent},
                     seen : SUBSET Nat, start : SUBSET Nat, done : BOOLEAN]
      BY <2>1, <3>2, <3>3
    <3>5. UNCHANGED <<jobs, galleryVars>>
      BY <1>7, StepCases
    <3>6. live \in DOMAIN calls'
      BY <1>1, <3>1 DEF TypeOK
    <3>7. QED
      BY <3>1, <3>4, <3>5, <3>6 DEF TypeOK, galleryVars
  <2>5. CASE /\ calls' = [calls EXCEPT ![i] = Gone]
             /\ walk' = [walk EXCEPT !.done = TRUE] \/ UNCHANGED walk
    <3>1. calls' \in Seq(Call) /\ DOMAIN calls' = DOMAIN calls
      BY <1>1, <2>1, <2>5, CallUpdated, GoneFacts
    <3>2. QED
      BY <1>1, <1>7, <2>5, <3>1, StepCases DEF TypeOK, galleryVars
  <2>6. QED
    BY <1>7, <2>4, <2>5, StepCases
<1>8. CASE UNCHANGED vars
  BY <1>8 DEF TypeOK, vars, listVars, galleryVars
<1>9. QED
  BY <1>2, <1>3, <1>4, <1>5, <1>6, <1>7, <1>8, Steps

\* The call that counts is the last one, and nobody else takes its answer.
LEMMA CurrentStep == IInv /\ [Next]_vars => Current'
<1> SUFFICES ASSUME IInv, [Next]_vars PROVE Current'
  OBVIOUS
<1>1. /\ TypeOK /\ calls \in Seq(Call) /\ DOMAIN calls = 1..Len(calls) /\ Len(calls) \in Nat
      /\ live \in DOMAIN calls /\ live # walk.call /\ walk.call \in {0} \cup DOMAIN calls
  BY LenProperties DEF IInv, TypeOK, Current
<1>2. /\ calls[live].stage # "gone" => calls[live].offset = offset
      /\ calls[live].stage = "gone" /\ ~error => shown.call = live /\ shown.offset = offset
  BY DEF IInv, Current, SettledPageIsAsked
<1>3. ASSUME UNCHANGED <<galleryVars, walk>>, calls'[live] = calls[live] PROVE Current'
  BY <1>1, <1>2, <1>3 DEF Current, SettledPageIsAsked, galleryVars
<1>4. ASSUME NEW i \in DOMAIN calls, Serve(i), UNCHANGED <<galleryVars, walk>> PROVE Current'
  <2>1. PICK c \in Call :
          /\ calls' = [calls EXCEPT ![i] = c]
          /\ c.stage \in {"count", "answered", "failed"} /\ c.offset = calls[i].offset
    BY <1>1, <1>4, ServeFacts
  <2>2. calls[i].stage # "gone"
    BY <1>1, <1>4, ServeFacts
  <2>3. CASE i = live
    <3>1. calls'[live].stage # "gone" /\ calls'[live].offset = offset
      BY <1>1, <1>2, <2>1, <2>2, <2>3, CallUpdated
    <3>2. QED
      BY <1>1, <1>4, <3>1 DEF Current, SettledPageIsAsked, galleryVars
  <2>4. CASE i # live
    BY <1>1, <1>3, <1>4, <2>1, <2>4, CallUpdated
  <2>5. QED
    BY <2>3, <2>4
<1>5. ASSUME NEW i \in DOMAIN calls, Show(i) PROVE Current'
  <2>1. calls' = [calls EXCEPT ![i] = Gone] /\ calls[i].stage # "gone"
        /\ UNCHANGED <<offset, live, walk>>
    BY <1>5 DEF Show, Arrives
  <2>2. CASE i = live
    <3>1. calls'[live].stage = "gone"
      BY <1>1, <2>1, <2>2, CallUpdated, GoneFacts
    <3>2. error' = TRUE \/ Display(i)
      BY <1>5, <2>2 DEF Show
    <3>3. error' = TRUE \/ (shown'.call = live /\ shown'.offset = offset)
      <4>1. calls[i].offset = offset
        BY <1>2, <2>1, <2>2
      <4>2. Display(i) => shown'.call = i /\ shown'.offset = calls[i].offset
        BY DEF Display
      <4>3. QED
        BY <2>2, <3>2, <4>1, <4>2
    <3>4. QED
      BY <1>1, <2>1, <3>1, <3>3 DEF Current, SettledPageIsAsked
  <2>3. CASE i # live
    <3>1. calls'[live] = calls[live] /\ UNCHANGED <<shown, total, error>>
      BY <1>1, <1>5, <2>1, <2>3, CallUpdated, GoneFacts DEF Show
    <3>2. QED
      BY <1>3, <2>1, <3>1 DEF galleryVars
  <2>4. QED
    BY <2>2, <2>3
<1>6. ASSUME NEW o \in Nat, Load(o) PROVE Current'
  <2>1. Page \in Int
    BY GalleryAssumption, ListingAssumption
  <2>2. calls'[live'] = NewCall(Page, o) /\ live' = Len(calls) + 1 /\ offset' = o /\ UNCHANGED walk
    BY <1>1, <1>6, <2>1, CallAdded, NewCallFacts DEF Load
  <2>3. calls'[live'].stage = "page" /\ calls'[live'].offset = o
    BY <2>1, <2>2, NewCallFacts
  <2>4. live' # walk'.call
    BY <1>1, <2>2
  <2>5. QED
    BY <2>2, <2>3, <2>4 DEF Current, SettledPageIsAsked
<1>7. CASE StartWalk
  <2>1. PICK limit \in WalkLimits :
          /\ calls' = Append(calls, NewCall(limit, 0))
          /\ walk' = [walk EXCEPT !.call = Len(calls) + 1, !.limit = limit, !.start = ToSet(jobs)]
    BY <1>7 DEF StartWalk
  <2>2. calls'[live] = calls[live]
    BY <1>1, <2>1, CallAdded, NewCallFacts, GalleryAssumption
  <2>3. walk'.call = Len(calls) + 1 /\ UNCHANGED galleryVars
    BY <1>7, <2>1 DEF StartWalk, IInv, TypeOK
  <2>4. QED
    BY <1>1, <1>2, <2>2, <2>3 DEF Current, SettledPageIsAsked, galleryVars
<1>8. CASE Step
  <2> DEFINE i == walk.call
  <2>1. i \in DOMAIN calls /\ calls[i] \in Call /\ walk.limit \in WalkLimits \cup {Absent}
    BY <1>1, <1>8, StepCases DEF TypeOK
  <2>2. calls[i].offset + calls[i].echo \in Nat
    BY <2>1 DEF Call
  <2>3. UNCHANGED galleryVars
    BY <1>1, <1>8, StepCases
  <2>4. CASE /\ calls' = Append([calls EXCEPT ![i] = Gone],
                               NewCall(walk.limit, calls[i].offset + calls[i].echo))
             /\ walk' = [walk EXCEPT !.call = Len(calls) + 1, !.seen = @ \cup ToSet(calls[i].page)]
    <3>1. calls'[live] = calls[live]
      BY <1>1, <2>1, <2>2, <2>4, TurnFacts
    <3>2. walk'.call = Len(calls) + 1
      BY <2>4 DEF IInv, TypeOK
    <3>3. QED
      BY <1>1, <1>2, <2>3, <3>1, <3>2 DEF Current, SettledPageIsAsked, galleryVars
  <2>5. CASE /\ calls' = [calls EXCEPT ![i] = Gone]
             /\ walk' = [walk EXCEPT !.done = TRUE] \/ UNCHANGED walk
    <3>1. calls'[live] = calls[live]
      BY <1>1, <2>1, <2>5, CallUpdated, GoneFacts
    <3>2. walk'.call = walk.call
      BY <2>5 DEF IInv, TypeOK
    <3>3. QED
      BY <1>1, <1>2, <2>3, <3>1, <3>2 DEF Current, SettledPageIsAsked, galleryVars
  <2>6. QED
    BY <1>1, <1>8, <2>4, <2>5, StepCases
<1>9. CASE (Insert /\ UNCHANGED <<galleryVars, walk>>) \/ UNCHANGED vars
  BY <1>3, <1>9 DEF Insert, vars, listVars
<1>10. QED
  BY <1>1, <1>4, <1>5, <1>6, <1>7, <1>8, <1>9, Steps

\* Jobs are only added, so no number is ever too large, and the pager, which
\* goes by one, never leaves the listing.
LEMMA CountedStep == IInv /\ [Next]_vars => Counted'
<1> SUFFICES ASSUME IInv, [Next]_vars PROVE Counted'
  OBVIOUS
<1>1. /\ TypeOK /\ calls \in Seq(Call) /\ DOMAIN calls = 1..Len(calls) /\ Len(calls) \in Nat
      /\ jobs \in Seq(Nat) /\ Len(jobs) \in Nat /\ offset \in Nat /\ total \in Nat
      /\ walk.call \in {0} \cup DOMAIN calls
  BY LenProperties DEF IInv, TypeOK
<1>2. /\ offset = 0 \/ offset < Len(jobs)
      /\ total <= Len(jobs)
      /\ \A i \in DOMAIN calls : calls[i].total <= Len(jobs) /\ calls[i].total \in Nat
  <2>1. \A i \in DOMAIN calls : calls[i] \in Call
    BY <1>1
  <2>2. \A i \in DOMAIN calls : calls[i].total \in Nat
    BY <2>1 DEF Call
  <2>3. QED
    BY <2>2 DEF IInv, Counted, NeverPastTheEnd
<1>3. CASE Insert /\ UNCHANGED <<galleryVars, walk>>
  <2>1. Len(jobs') = Len(jobs) + 1 /\ UNCHANGED <<calls, offset, total>>
    BY <1>1, <1>3, InsertFacts DEF Insert, galleryVars
  <2>2. QED
    BY <1>1, <1>2, <2>1 DEF Counted, NeverPastTheEnd
<1>4. ASSUME UNCHANGED <<jobs, offset, total>>,
             \A k \in DOMAIN calls' :
               (k \in DOMAIN calls /\ calls'[k] = calls[k]) \/ calls'[k].total <= Len(jobs)
      PROVE  Counted'
  BY <1>2, <1>4 DEF Counted, NeverPastTheEnd
<1>5. ASSUME NEW i \in DOMAIN calls, Serve(i), UNCHANGED <<galleryVars, walk>> PROVE Counted'
  <2>1. PICK c \in Call :
          /\ calls' = [calls EXCEPT ![i] = c]
          /\ c.total <= Len(jobs) \/ c.total = calls[i].total
    BY <1>1, <1>5, ServeFacts
  <2>2. /\ DOMAIN calls' = DOMAIN calls /\ calls'[i] = c
        /\ \A k \in DOMAIN calls : k # i => calls'[k] = calls[k]
    BY <1>1, <2>1, CallUpdated
  <2>3. calls'[i].total <= Len(jobs)
    BY <1>2, <2>1, <2>2
  <2>4. UNCHANGED <<jobs, offset, total>>
    BY <1>1, <1>5, ServeFacts DEF galleryVars
  <2>5. QED
    BY <1>4, <2>2, <2>3, <2>4
<1>12. /\ DOMAIN calls = 1..Len(calls) /\ Len(calls) \in Nat
       /\ \A k \in DOMAIN calls : calls[k].total <= Len(jobs)
       /\ 0 <= Len(jobs)
  BY <1>1, <1>2
<1>6. ASSUME NEW i \in DOMAIN calls, Show(i) PROVE Counted'
  <2>1. calls' = [calls EXCEPT ![i] = Gone] /\ UNCHANGED <<jobs, offset>>
    BY <1>6 DEF Show, Arrives
  <2>2. /\ DOMAIN calls' = DOMAIN calls /\ calls'[i].total = 0
        /\ \A k \in DOMAIN calls : k # i => calls'[k] = calls[k]
    BY <1>1, <2>1, CallUpdated, GoneFacts
  <2>3. total' = total \/ total' = calls[i].total
    BY <1>6 DEF Show, Display
  <2>4. total' <= Len(jobs)
    BY <1>2, <1>6, <2>3
  <2>5. \A k \in DOMAIN calls' : calls'[k].total <= Len(jobs)
    BY <1>12, <2>2
  <2>6. QED
    BY <1>2, <2>1, <2>4, <2>5 DEF Counted, NeverPastTheEnd
<1>7. ASSUME NEW o \in Nat, Load(o), o <= offset \/ o < total PROVE Counted'
  <2>1. Page \in Int
    BY GalleryAssumption, ListingAssumption
  <2>2. /\ DOMAIN calls' = 1..Len(calls) + 1 /\ calls'[Len(calls) + 1].total = 0
        /\ \A k \in DOMAIN calls : calls'[k] = calls[k]
    BY <1>1, <1>7, <2>1, CallAdded, NewCallFacts DEF Load
  <2>3. \A k \in DOMAIN calls' : calls'[k].total <= Len(jobs)
    BY <1>12, <2>2
  <2>4. o = 0 \/ o < Len(jobs)
    BY <1>1, <1>2, <1>7
  <2>5. QED
    BY <1>2, <1>7, <2>3, <2>4 DEF Counted, NeverPastTheEnd, Load
<1>8. CASE StartWalk
  <2>1. PICK limit \in WalkLimits : calls' = Append(calls, NewCall(limit, 0))
    BY <1>8 DEF StartWalk
  <2>2. /\ DOMAIN calls' = 1..Len(calls) + 1 /\ calls'[Len(calls) + 1].total = 0
        /\ \A k \in DOMAIN calls : calls'[k] = calls[k]
    BY <1>1, <2>1, CallAdded, NewCallFacts, GalleryAssumption
  <2>3. \A k \in DOMAIN calls' : calls'[k].total <= Len(jobs)
    BY <1>12, <2>2
  <2>4. QED
    BY <1>4, <1>8, <2>3 DEF StartWalk, galleryVars
<1>9. CASE Step
  <2> DEFINE i == walk.call
  <2>1. i \in DOMAIN calls /\ calls[i] \in Call /\ walk.limit \in WalkLimits \cup {Absent}
    BY <1>1, <1>9, StepCases DEF TypeOK
  <2>2. calls[i].offset + calls[i].echo \in Nat
    BY <2>1 DEF Call
  <2>3. UNCHANGED <<jobs, offset, total>>
    BY <1>1, <1>9, StepCases DEF galleryVars
  <2>4. CASE calls' = Append([calls EXCEPT ![i] = Gone],
                             NewCall(walk.limit, calls[i].offset + calls[i].echo))
    <3> DEFINE next == NewCall(walk.limit, calls[i].offset + calls[i].echo)
    <3>1. next.total = 0
      BY <2>1, <2>2, NewCallFacts, GalleryAssumption
    <3> HIDE DEF next
    <3>2. /\ DOMAIN calls' = 1..Len(calls) + 1 /\ calls'[Len(calls) + 1] = next
          /\ calls'[i] = Gone /\ \A k \in DOMAIN calls : k # i => calls'[k] = calls[k]
      BY <1>1, <2>1, <2>2, <2>4, TurnFacts DEF next
    <3>3. \A k \in DOMAIN calls' : calls'[k].total <= Len(jobs)
      BY <1>1, <1>2, <3>1, <3>2, GoneFacts
    <3>4. QED
      BY <1>4, <2>3, <3>3
  <2>5. CASE calls' = [calls EXCEPT ![i] = Gone]
    <3>1. \A k \in DOMAIN calls' : calls'[k].total <= Len(jobs)
      BY <1>1, <1>2, <2>1, <2>5, CallUpdated, GoneFacts
    <3>2. QED
      BY <1>4, <2>3, <3>1
  <2>6. QED
    BY <1>1, <1>9, <2>4, <2>5, StepCases
<1>10. CASE UNCHANGED vars
  BY <1>4, <1>10 DEF vars, listVars, galleryVars
<1>11. QED
  BY <1>1, <1>3, <1>5, <1>6, <1>7, <1>8, <1>9, <1>10, Steps

\* An insertion leaves what is behind the first n jobs behind them.
LEMMA InsertedAhead ==
  ASSUME NEW s \in Seq(Nat), NEW p \in 1..Len(s) + 1, NEW e \in Nat, NEW n \in Nat
  PROVE  Behind(s, n) \subseteq Behind(InsertAt(s, p, e), n)
<1> DEFINE t == InsertAt(s, p, e)
<1>1. Len(s) \in Nat /\ p \in Nat /\ Len(t) = Len(s) + 1
  BY LenProperties, InsertFacts
<1>2. \A k \in 1..Len(s) : (k < p => t[k] = s[k]) /\ (k >= p => t[k + 1] = s[k])
  BY InsertFacts
<1> HIDE DEF t
<1>3. ASSUME NEW k \in n + 1..Len(s) PROVE s[k] \in Behind(t, n)
  <2>1. /\ k \in 1..Len(s) /\ k \in n + 1..Len(t) /\ k + 1 \in n + 1..Len(t)
        /\ k < p \/ k >= p
    BY <1>1
  <2>2. t[k] = s[k] \/ t[k + 1] = s[k]
    BY <1>2, <2>1
  <2>3. QED
    BY <2>1, <2>2 DEF Behind
<1>4. QED
  BY <1>3 DEF Behind, t

\* The walk loses nothing: what the next page does not bring is behind it.
LEMMA PagesStep == IInv /\ [Next]_vars => Pages' /\ PagingNeverSkips'
<1> SUFFICES ASSUME IInv, [Next]_vars PROVE Pages' /\ PagingNeverSkips'
  OBVIOUS
<1>1. /\ TypeOK /\ calls \in Seq(Call) /\ DOMAIN calls = 1..Len(calls) /\ Len(calls) \in Nat
      /\ jobs \in Seq(Nat) /\ Len(jobs) \in Nat
      /\ walk.call \in {0} \cup DOMAIN calls
  BY LenProperties DEF IInv, TypeOK
<1>2. /\ walk.call # 0 => OnTheWay(calls[walk.call])
      /\ walk.done => walk.call # 0
      /\ walk.done => walk.start \subseteq walk.seen
  BY DEF IInv, Pages, PagingNeverSkips
<1>3. ASSUME UNCHANGED <<jobs, walk>>, walk.call # 0 => calls'[walk.call] = calls[walk.call]
      PROVE  Pages' /\ PagingNeverSkips'
  BY <1>2, <1>3 DEF Pages, PagingNeverSkips, OnTheWay, Ahead
<1>4. CASE Insert /\ UNCHANGED <<galleryVars, walk>>
  <2>1. PICK position \in 1..Len(jobs) + 1 : jobs' = InsertAt(jobs, position, Len(jobs) + 1)
    BY <1>1, <1>4 DEF Insert
  <2>2. \A n \in Nat : Ahead(n) \subseteq Behind(jobs', n)
    BY <1>1, <2>1, InsertedAhead DEF Ahead
  <2>3. UNCHANGED <<calls, walk>>
    BY <1>4 DEF Insert
  <2>4. CASE walk.call # 0
    <3> DEFINE c == calls[walk.call]
    <3>1. c \in Call
      BY <1>1, <2>4
    <3>2. c.offset \in Nat /\ c.offset + c.echo \in Nat
      BY <3>1 DEF Call
    <3>3. /\ Ahead(c.offset) \subseteq Behind(jobs', c.offset)
          /\ Ahead(c.offset + c.echo) \subseteq Behind(jobs', c.offset + c.echo)
      BY <2>2, <3>2
    <3>4. OnTheWay(c)
      BY <1>2, <2>4
    <3>5. OnTheWay(c)'
      BY <2>3, <3>3, <3>4 DEF OnTheWay, Ahead
    <3>6. QED
      BY <1>2, <2>3, <3>5 DEF Pages, PagingNeverSkips
  <2>5. CASE walk.call = 0
    BY <1>2, <2>3, <2>5 DEF Pages, PagingNeverSkips
  <2>6. QED
    BY <2>4, <2>5
<1>5. ASSUME NEW i \in DOMAIN calls, Serve(i), UNCHANGED <<galleryVars, walk>>
      PROVE  Pages' /\ PagingNeverSkips'
  <2> DEFINE b == calls[i]
  <2>1. PICK c \in Call :
          /\ calls' = [calls EXCEPT ![i] = c]
          /\ c.stage \in {"count", "answered", "failed"}
          /\ c.offset = b.offset /\ c.limit = b.limit /\ c.echo = b.echo
          /\ c.stage # "failed" /\ b.stage = "count" => c.page = b.page
          /\ c.stage # "failed" /\ b.stage = "page" /\ c.limit > 0 =>
               /\ \A k \in c.offset + 1..Len(jobs) : k <= c.offset + c.limit =>
                    jobs[k] \in ToSet(c.page)
               /\ c.page = <<>> => Len(jobs) <= c.offset
    BY <1>1, <1>5, ServeFacts
  <2>2. b.stage \in {"page", "count"} /\ UNCHANGED <<jobs, walk>>
    BY <1>1, <1>5, ServeFacts
  <2>3. /\ calls'[i] = c
        /\ \A k \in DOMAIN calls : k # i => calls'[k] = calls[k]
    BY <1>1, <2>1, CallUpdated
  <2>4. CASE walk.call # i
    BY <1>1, <1>3, <2>2, <2>3, <2>4
  <2>5. CASE walk.call = i
    <3>1. i # 0 /\ OnTheWay(b)
      BY <1>1, <1>2, <2>5
    <3>2. c.limit > 0 /\ c.echo = c.limit /\ c.offset \in Nat /\ c.limit \in Nat
      BY <2>1, <2>2, <3>1 DEF OnTheWay, Call
    <3>3. ASSUME c.stage = "failed" PROVE OnTheWay(c)
      BY <3>2, <3>3 DEF OnTheWay
    <3>4. ASSUME c.stage # "failed", b.stage = "count" PROVE OnTheWay(c)
      <4>1. c.page = b.page /\ c.offset + c.echo = b.offset + b.echo
        BY <2>1, <3>4
      <4>2. /\ walk.start \subseteq walk.seen \cup ToSet(b.page) \cup Ahead(b.offset + b.echo)
            /\ b.page = <<>> => walk.start \subseteq walk.seen
        BY <3>1, <3>4 DEF OnTheWay
      <4>3. QED
        BY <2>1, <3>2, <3>4, <4>1, <4>2 DEF OnTheWay
    <3>5. ASSUME c.stage # "failed", b.stage = "page" PROVE OnTheWay(c)
      <4>1. walk.start \subseteq walk.seen \cup Ahead(c.offset)
        BY <2>1, <3>1, <3>5 DEF OnTheWay
      <4>2. /\ \A k \in c.offset + 1..Len(jobs) : k <= c.offset + c.limit =>
                 jobs[k] \in ToSet(c.page)
            /\ c.page = <<>> => Len(jobs) <= c.offset
        BY <2>1, <3>2, <3>5
      <4>3. Ahead(c.offset) \subseteq ToSet(c.page) \cup Ahead(c.offset + c.echo)
        <5>1. ASSUME NEW k \in c.offset + 1..Len(jobs), ~(k <= c.offset + c.limit)
              PROVE  k \in c.offset + c.echo + 1..Len(jobs)
          BY <1>1, <3>2, <5>1
        <5>2. QED
          BY <4>2, <5>1 DEF Ahead, Behind
      <4>4. c.page = <<>> => Ahead(c.offset) = {}
        BY <1>1, <3>2, <4>2 DEF Ahead, Behind
      <4>5. QED
        BY <2>1, <3>2, <3>5, <4>1, <4>3, <4>4 DEF OnTheWay
    <3>6. OnTheWay(c)
      BY <2>2, <3>3, <3>4, <3>5
    <3>7. OnTheWay(calls[walk.call])'
      BY <2>2, <2>3, <2>5, <3>6 DEF OnTheWay, Ahead
    <3>8. QED
      BY <1>2, <2>2, <3>7 DEF Pages, PagingNeverSkips
  <2>6. QED
    BY <2>4, <2>5
<1>6. ASSUME NEW i \in DOMAIN calls, Show(i) PROVE Pages' /\ PagingNeverSkips'
  <2>1. calls' = [calls EXCEPT ![i] = Gone] /\ UNCHANGED <<jobs, walk>> /\ i # walk.call
    BY <1>6 DEF Show, Arrives
  <2>2. walk.call # 0 => calls'[walk.call] = calls[walk.call]
    BY <1>1, <2>1, CallUpdated, GoneFacts
  <2>3. QED
    BY <1>3, <2>1, <2>2
<1>7. ASSUME NEW o \in Nat, Load(o) PROVE Pages' /\ PagingNeverSkips'
  <2>1. Page \in Int
    BY GalleryAssumption, ListingAssumption
  <2>2. \A k \in DOMAIN calls : calls'[k] = calls[k]
    BY <1>1, <1>7, <2>1, CallAdded, NewCallFacts DEF Load
  <2>3. QED
    BY <1>1, <1>3, <1>7, <2>2 DEF Load
<1>8. CASE StartWalk
  <2>1. PICK limit \in WalkLimits :
          /\ calls' = Append(calls, NewCall(limit, 0))
          /\ walk' = [walk EXCEPT !.call = Len(calls) + 1, !.limit = limit, !.start = ToSet(jobs)]
    BY <1>8 DEF StartWalk
  <2> DEFINE c == NewCall(limit, 0)
  <2>2. c \in Call /\ c.offset = 0 /\ c.stage = "page" /\ c.limit > 0 /\ c.echo = c.limit
    BY NewCallFacts, GalleryAssumption
  <2> HIDE DEF c
  <2>3. calls'[Len(calls) + 1] = c
    BY <1>1, <2>1, <2>2, CallAdded DEF c
  <2>4. /\ walk'.call = Len(calls) + 1 /\ walk'.start = ToSet(jobs) /\ walk'.done = walk.done
        /\ UNCHANGED jobs /\ ~walk.done
    BY <1>1, <1>2, <1>8, <2>1 DEF StartWalk, TypeOK
  <2>5. ToSet(jobs) = Ahead(c.offset)
    BY <1>1, <2>2, LenProperties DEF ToSet, Ahead, Behind
  <2>6. OnTheWay(c)'
    BY <2>2, <2>4, <2>5 DEF OnTheWay, Ahead
  <2>7. OnTheWay(calls[walk.call])'
    BY <2>3, <2>4, <2>6
  <2>8. QED
    BY <1>1, <2>4, <2>7 DEF Pages, PagingNeverSkips
<1>9. CASE Step
  <2> DEFINE i == walk.call
             b == calls[i]
             c == NewCall(walk.limit, b.offset + b.echo)
  <2>1. i \in DOMAIN calls /\ b \in Call /\ walk.limit \in WalkLimits \cup {Absent} /\ UNCHANGED jobs
    BY <1>1, <1>9, StepCases DEF TypeOK
  <2>2. b.offset + b.echo \in Nat
    BY <2>1 DEF Call
  <2>3. OnTheWay(b) /\ i # 0
    BY <1>1, <1>2, <2>1
  <2>4. CASE /\ b.stage = "answered"
             /\ calls' = Append([calls EXCEPT ![i] = Gone], c)
             /\ walk' = [walk EXCEPT !.call = Len(calls) + 1, !.seen = @ \cup ToSet(b.page)]
    <3>1. /\ c \in Call /\ c.offset = b.offset + b.echo /\ c.stage = "page"
          /\ c.limit > 0 /\ c.echo = c.limit
      BY <2>1, <2>2, NewCallFacts, GalleryAssumption
    <3>2. calls'[Len(calls) + 1] = c
      BY <1>1, <2>1, <2>2, <2>4, TurnFacts
    <3> HIDE DEF b, c
    <3> PICK d \in Call : d = c
      BY <3>1
    <3>3. /\ walk'.call = Len(calls) + 1 /\ walk'.start = walk.start /\ walk'.done = walk.done
          /\ walk'.seen = walk.seen \cup ToSet(b.page)
      BY <1>1, <2>4 DEF TypeOK
    <3>4. walk.start \subseteq walk.seen \cup ToSet(b.page) \cup Ahead(b.offset + b.echo)
      BY <2>3, <2>4 DEF OnTheWay
    <3>5. OnTheWay(d)'
      BY <2>1, <3>1, <3>3, <3>4 DEF OnTheWay, Ahead
    <3>6. OnTheWay(calls[walk.call])'
      BY <3>2, <3>3, <3>5
    <3>7. QED
      BY <1>1, <1>2, <3>3, <3>6 DEF Pages, PagingNeverSkips
  <2>5. CASE /\ calls' = [calls EXCEPT ![i] = Gone]
             /\ \/ b.stage = "answered" /\ b.page = <<>> /\ walk' = [walk EXCEPT !.done = TRUE]
                \/ UNCHANGED walk
    <3>1. calls'[i] = Gone
      BY <1>1, <2>1, <2>5, CallUpdated, GoneFacts
    <3>2. /\ walk'.call = i /\ walk'.start = walk.start /\ walk'.seen = walk.seen
          /\ walk'.done = walk.done \/ walk.start \subseteq walk.seen
      BY <1>1, <2>3, <2>5 DEF TypeOK, OnTheWay
    <3>3. OnTheWay(Gone)'
      BY GoneFacts DEF OnTheWay, Gone
    <3>4. OnTheWay(calls[walk.call])'
      BY <3>1, <3>2, <3>3
    <3>5. QED
      BY <1>2, <2>3, <3>2, <3>4 DEF Pages, PagingNeverSkips
  <2>6. QED
    BY <1>1, <1>9, <2>4, <2>5, StepCases
<1>10. CASE UNCHANGED vars
  BY <1>3, <1>10 DEF vars, listVars
<1>11. QED
  BY <1>1, <1>4, <1>5, <1>6, <1>7, <1>8, <1>9, <1>10, Steps

----
(***************************************************************************)
(* The theorems                                                            *)
(***************************************************************************)

\* At first nobody has asked for anything but the gallery for its first page.
LEMMA InvInit == Init => IInv
<1> SUFFICES ASSUME Init PROVE IInv
  OBVIOUS
<1>1. Page \in Int /\ <<>> \in Seq(Nat) /\ Len(<<>>) = 0
  BY GalleryAssumption, ListingAssumption
<1>2. /\ NewCall(Page, 0) \in Call /\ NewCall(Page, 0).offset = 0
      /\ NewCall(Page, 0).stage = "page" /\ NewCall(Page, 0).total = 0
  BY <1>1, NewCallFacts
<1>3. calls \in Seq(Call) /\ DOMAIN calls = {1} /\ calls[1] = NewCall(Page, 0)
  BY <1>2 DEF Init
<1>4. TypeOK
  BY <1>1, <1>3 DEF Init, TypeOK
<1>5. Current
  BY <1>2, <1>3 DEF Init, Current, SettledPageIsAsked
<1>6. Counted
  BY <1>1, <1>2, <1>3 DEF Init, Counted, NeverPastTheEnd
<1>7. Pages /\ PagingNeverSkips
  BY DEF Init, Pages, PagingNeverSkips
<1>8. QED
  BY <1>4, <1>5, <1>6, <1>7 DEF IInv

\* The inductive invariant holds in every state of every instance.
THEOREM Invariance == Spec => []IInv
<1>1. IInv /\ [Next]_vars => IInv'
  BY TypeStep, CurrentStep, CountedStep, PagesStep DEF IInv
<1>2. QED
  BY <1>1, InvInit, PTL DEF Spec

\* What the gallery shows, once it waits for nothing, is the answer to its
\* last call, in whatever order the answers came.
THEOREM ShowsWhatWasAsked == Spec => []SettledPageIsAsked
<1>1. IInv => SettledPageIsAsked
  BY DEF IInv, Current
<1>2. QED
  BY <1>1, Invariance, PTL

\* The pager, by the number of an earlier answer, stays within the listing.
THEOREM PagerStaysWithin == Spec => []NeverPastTheEnd
<1>1. IInv => NeverPastTheEnd
  BY DEF IInv, Counted
<1>2. QED
  BY <1>1, Invariance, PTL

\* Walking by the echoed limit, whatever limit was asked for, skips no job.
THEOREM WalkIsComplete == Spec => []PagingNeverSkips
<1>1. IInv => PagingNeverSkips
  BY DEF IInv
<1>2. QED
  BY <1>1, Invariance, PTL

====
