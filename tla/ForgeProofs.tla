---- MODULE ForgeProofs ----
(***************************************************************************)
(* Proofs about Forge, for every set of forms of the right types and every *)
(* environment of the worker.                                              *)
(*                                                                         *)
(* IInv says where a job is on its way and that what the worker makes      *)
(* comes from the message the gateway wrote for the form.  The rest is     *)
(* about the functions on that way: RoundTrip for the parameters,          *)
(* OnlyFacts for the filters of operations, ApplyFacts for each result     *)
(* and MadeFacts for the names in the object store.                        *)
(***************************************************************************)
EXTENDS Forge, FiniteSetTheorems, SequenceTheorems, TLAPS

(***************************************************************************)
(* What a filter keeps                                                     *)
(***************************************************************************)

\* Places have positions from 1 to their number, and Nth finds each by its own.
LEMMA NthFacts ==
  ASSUME NEW n \in Nat, NEW places \in SUBSET (1..n)
  PROVE  /\ Cardinality(places) \in Nat
         /\ \A k \in places : /\ Position(places, k) \in 1..Cardinality(places)
                              /\ Nth(places, Position(places, k)) = k
         /\ \A j \in 1..Cardinality(places) : /\ Nth(places, j) \in places
                                              /\ Position(places, Nth(places, j)) = j
<1> DEFINE m == Cardinality(places)
<1> DEFINE upTo(k) == {l \in places : l <= k}
<1>1. IsFiniteSet(places) /\ m \in Nat
  <2>1. 1 \in Int /\ n \in Int
    OBVIOUS
  <2>2. IsFiniteSet(1..n)
    BY <2>1, FS_Interval
  <2>3. IsFiniteSet(places)
    BY <2>2, FS_Subset
  <2>4. QED
    BY <2>3, FS_CardinalityType
<1>2. \A k : Position(places, k) = Cardinality(upTo(k))
  BY DEF Position
<1>3. ASSUME NEW k \in places
      PROVE  IsFiniteSet(upTo(k)) /\ Position(places, k) \in 1..m
  <2>1. upTo(k) \in SUBSET places /\ k \in upTo(k)
    OBVIOUS
  <2> HIDE DEF upTo
  <2>2. IsFiniteSet(upTo(k)) /\ Cardinality(upTo(k)) \in Nat /\ Cardinality(upTo(k)) <= m
    BY <1>1, <2>1, FS_Subset, FS_CardinalityType
  <2>3. Cardinality(upTo(k)) # 0
    BY <2>1, <2>2, FS_EmptySet
  <2> HIDE DEF m
  <2>4. Cardinality(upTo(k)) \in 1..m
    BY <1>1, <2>2, <2>3
  <2>5. QED
    BY <1>2, <2>2, <2>4
<1>4. ASSUME NEW k \in places, NEW l \in places, k < l
      PROVE  Position(places, k) # Position(places, l)
  <2>1. upTo(k) \in SUBSET upTo(l) /\ l \in upTo(l) /\ l \notin upTo(k)
    <3>1. k \in Nat /\ l \in Nat /\ k < l
      BY <1>4
    <3>2. \A x \in places : x \in Nat /\ (x <= k => x <= l)
      BY <3>1
    <3>3. l <= l /\ ~(l <= k)
      BY <3>1
    <3>4. QED
      BY <3>2, <3>3
  <2> HIDE DEF upTo
  <2>2. Cardinality(upTo(k)) # Cardinality(upTo(l))
    BY <1>3, <2>1, FS_Subset
  <2>3. QED
    BY <1>2, <2>2
<1>5. ASSUME NEW k \in places, NEW l \in places, Position(places, k) = Position(places, l)
      PROVE  k = l
  <2>1. k < l \/ l < k \/ k = l
    OBVIOUS
  <2>2. QED
    BY <1>4, <1>5, <2>1
<1> DEFINE rank == [k \in places |-> Position(places, k)]
<1>6. rank \in Injection(places, 1..m)
  <2>1. rank \in [places -> 1..m]
    BY <1>3
  <2>2. \A k, l \in places : rank[k] = rank[l] => k = l
    BY <1>5
  <2> HIDE DEF rank, m
  <2>3. QED
    BY <2>1, <2>2 DEF Injection, IsInjective
<1>7. rank \in Surjection(places, 1..m)
  <2>1. IsFiniteSet(1..m) /\ Cardinality(1..m) = m
    BY <1>1, FS_Interval
  <2> HIDE DEF rank
  <2>2. QED
    BY <1>6, <2>1, FS_Injection
<1>8. ASSUME NEW j \in 1..m PROVE \E k \in places : Position(places, k) = j
  <2>1. \E k \in places : rank[k] = j
    <3> HIDE DEF rank, m
    <3>1. QED
      BY <1>7, <1>8 DEF Surjection
  <2>2. QED
    BY <2>1
<1>9. ASSUME NEW j \in 1..m PROVE Nth(places, j) \in places /\ Position(places, Nth(places, j)) = j
  BY <1>8, <1>9 DEF Nth
<1>10. ASSUME NEW k \in places PROVE Nth(places, Position(places, k)) = k
  <2>1. Position(places, k) \in 1..m
    BY <1>3
  <2> DEFINE h == Nth(places, Position(places, k))
  <2>2. h \in places /\ Position(places, h) = Position(places, k)
    BY <1>9, <2>1
  <2>3. QED
    BY <1>5, <2>2
<1>11. QED
  BY <1>1, <1>3, <1>9, <1>10

\* A filter keeps what is at the places, in a sequence, and nothing else.
LEMMA OnlyFacts ==
  ASSUME NEW S, NEW s \in Seq(S), NEW places \in SUBSET (DOMAIN s)
  PROVE  LET o == Only(s, places) IN
           /\ o \in Seq(S) /\ DOMAIN o = 1..Len(o)
           /\ \A n \in DOMAIN o : \E k \in places : o[n] = s[k]
           /\ \A k \in places : \E n \in DOMAIN o : o[n] = s[k]
<1> DEFINE m == Cardinality(places)
<1> DEFINE o == Only(s, places)
<1>1. DOMAIN s = 1..Len(s) /\ Len(s) \in Nat
  BY LenProperties
<1>2. /\ m \in Nat
      /\ \A k \in places : Position(places, k) \in 1..m /\ Nth(places, Position(places, k)) = k
      /\ \A n \in 1..m : Nth(places, n) \in places
  <2>1. places \in SUBSET (1..Len(s))
    BY <1>1
  <2>2. QED
    BY <1>1, <2>1, NthFacts
<1>3. o = [n \in 1..m |-> s[Nth(places, n)]]
  BY DEF Only
<1>4. \A k \in places : s[k] \in S
  BY <1>1, LenProperties
<1> HIDE DEF o, m
<1>5. o \in [1..m -> S]
  BY <1>2, <1>3, <1>4
<1>6. o \in Seq(S) /\ DOMAIN o = 1..m
  BY <1>2, <1>5, SeqDef
<1>7. DOMAIN o = 1..Len(o)
  BY <1>6, LenProperties
<1>8. \A n \in DOMAIN o : \E k \in places : o[n] = s[k]
  BY <1>2, <1>3, <1>6
<1>9. \A k \in places : \E n \in DOMAIN o : o[n] = s[k]
  BY <1>2, <1>3, <1>6
<1>10. QED
  BY <1>6, <1>7, <1>8, <1>9 DEF o

\* The last of some places.
LEMMA LastFacts ==
  ASSUME NEW n \in Nat, NEW places \in SUBSET (1..n), places # {}
  PROVE  Last(places) \in places
<1> DEFINE m == Cardinality(places)
<1>1. IsFiniteSet(places) /\ m \in Nat /\ m # 0
  <2>1. 1 \in Int /\ n \in Int
    OBVIOUS
  <2>2. IsFiniteSet(1..n)
    BY <2>1, FS_Interval
  <2>3. IsFiniteSet(places)
    BY <2>2, FS_Subset
  <2>4. QED
    BY <2>3, FS_CardinalityType, FS_EmptySet
<1>2. m \in 1..m
  BY <1>1
<1>3. PICK k \in places : Position(places, k) = m
  BY <1>2, NthFacts
<1>4. {l \in places : l <= k} = places
  BY <1>1, <1>3, FS_Subset DEF Position
<1>5. \A l \in places : l <= k
  BY <1>4
<1>6. QED
  BY <1>3, <1>5 DEF Last

----
(***************************************************************************)
(* The form and the parameters                                             *)
(***************************************************************************)

\* The parameters of a job are read by the worker as the gateway wrote them:
\* what is left out of the JSON comes back as the zero it was left out for.
LEMMA RoundTrip ==
  ASSUME NEW f
  PROVE  ProcessorParams(Encode(ParseParams(f))) = ParseParams(f)
<1> DEFINE p == ParseParams(f)
<1> DEFINE e == Encode(p)
<1>1. p = [x \in DOMAIN NoParams |-> p[x]]
  BY DEF ParseParams, NoParams
<1> HIDE DEF p
<1>2. \A x \in DOMAIN NoParams :
        /\ x \in DOMAIN e <=> p[x] # NoParams[x]
        /\ x \in DOMAIN e => e[x] = p[x]
  BY DEF Encode
<1> HIDE DEF e
<1>3. ProcessorParams(e) = [x \in DOMAIN NoParams |-> p[x]]
  <2>1. ASSUME NEW x \in DOMAIN NoParams
        PROVE  (IF x \in DOMAIN e THEN e[x] ELSE NoParams[x]) = p[x]
    <3>1. CASE x \in DOMAIN e
      BY <1>2, <3>1, Zenon
    <3>2. CASE x \notin DOMAIN e
      BY <1>2, <3>2, Zenon
    <3>3. QED
      BY <3>1, <3>2
  <2>2. QED
    BY <2>1, Zenon DEF ProcessorParams
<1>4. QED
  BY <1>1, <1>3 DEF e, p

----
(***************************************************************************)
(* The inductive invariant: where a job is                                 *)
(***************************************************************************)

Empty == [q \in Queues |-> <<>>]

Idle == form = None /\ reply = "none" /\ row = None /\ queues = Empty /\ results = <<>>

Refused == form \in Forms /\ reply \in {"400", "401"} /\ row = None /\ queues = Empty

\* The message waits on the queue that its key routes it to.
Pending ==
  /\ form \in Forms /\ Acceptable(form) /\ reply = "202"
  /\ row = Row(form, "pending")
  /\ queues = [q \in Queues |->
                 IF BoundTo(q) = RoutingKey(KindOf(form)) THEN <<Message(form)>> ELSE <<>>]

Left(status) ==
  /\ form \in Forms /\ Acceptable(form) /\ reply = "202"
  /\ row = Row(form, status)
  /\ queues = Empty

\* The results are those of the message the gateway wrote.
Completed ==
  /\ Left("completed")
  /\ results = Process(Message(form).operations, New(env), ProcessorParams(Message(form).params))
  /\ objects = Stored(results)

IInv ==
  /\ env \in Environments
  /\ Idle \/ Refused \/ Pending \/ Left("failed") \/ Left("processing") \/ Completed

\* At first there is no job.
LEMMA InvInit ==
  ASSUME Init
  PROVE  IInv
  BY DEF Init, IInv, Idle, Empty

\* A refused form leaves no trace; an accepted one has its row and its message.
LEMMA SubmitStep ==
  ASSUME IInv, NEW f \in Forms, Submit(f)
  PROVE  IInv'
<1>1. Idle
  <2>1. f # None /\ form = None /\ None \notin Forms
    BY ForgeAssumption DEF Submit
  <2>2. QED
    BY <2>1 DEF IInv, Refused, Pending, Left, Completed
<1>2. form' = f /\ env' \in Environments
  BY DEF Submit, IInv
<1>3. CASE \E code \in {"400", "401"} : Refuse(code)
  <2>1. Refused'
    BY <1>1, <1>2, <1>3 DEF Refuse, Refused, Idle, Empty
  <2>2. QED
    BY <1>2, <2>1 DEF IInv
<1>4. CASE Acceptable(f) /\ row' = Row(f, "pending") /\ Route(Message(f)) /\ reply' = "202"
  <2>1. Message(f).kind = KindOf(f)
    BY DEF Message
  <2>2. \A q \in Queues : queues[q] = <<>> /\ Append(queues[q], Message(f)) = <<Message(f)>>
    BY <1>1 DEF Idle, Empty
  <2>3. queues' = [q \in Queues |->
                    IF BoundTo(q) = RoutingKey(KindOf(f)) THEN <<Message(f)>> ELSE <<>>]
    BY <1>4, <2>1, <2>2 DEF Route
  <2>4. Pending'
    BY <1>2, <1>4, <2>3 DEF Pending
  <2>5. QED
    BY <1>2, <2>4 DEF IInv
<1>5. QED
  BY <1>3, <1>4 DEF Submit

\* What is on a queue of a job that waits.
LEMMA PendingFacts ==
  ASSUME Pending
  PROVE  /\ KindOf(form) \in {KindImage, KindOCR} /\ KindImage # KindOCR
         /\ queues["q.image"] = IF KindOf(form) = KindImage THEN <<Message(form)>> ELSE <<>>
         /\ queues["q.ocr"] = IF KindOf(form) = KindOCR THEN <<Message(form)>> ELSE <<>>
<1>1. KindOf(form) \in {KindImage, KindOCR} /\ KindImage # KindOCR
  BY DEF Pending, Acceptable, Valid, KindImage, KindOCR, Plain, Text
<1>2. /\ BoundTo("q.image") = "image.process" /\ BoundTo("q.ocr") = "ocr.extract"
      /\ RoutingKey(KindImage) = "image.process" /\ RoutingKey(KindOCR) = "ocr.extract"
  BY <1>1 DEF BoundTo, RoutingKey
<1>3. \A q \in {"q.image", "q.ocr"} :
        queues[q] = IF BoundTo(q) = RoutingKey(KindOf(form)) THEN <<Message(form)>> ELSE <<>>
  BY DEF Pending, Queues
<1>4. QED
  BY <1>1, <1>2, <1>3

\* A message is only there while its job waits, and is the only one.
LEMMA TakenFacts ==
  ASSUME IInv, NEW q \in Queues, queues[q] # <<>>
  PROVE  /\ Pending /\ Head(queues[q]) = Message(form)
         /\ [queues EXCEPT ![q] = Tail(@)] = Empty
<1>1. Pending
  BY DEF IInv, Idle, Refused, Left, Completed, Empty
<1>2. /\ \A p \in Queues : queues[p] \in {<<>>, <<Message(form)>>}
      /\ DOMAIN queues = Queues
  BY <1>1 DEF Pending
<1>3. queues[q] = <<Message(form)>> /\ \A p \in Queues \ {q} : queues[p] = <<>>
  <2>1. queues[q] = <<Message(form)>>
    BY <1>2
  <2>2. q \in {"q.image", "q.ocr"}
    BY DEF Queues
  <2>3. QED
    BY <1>1, <1>2, <2>1, <2>2, PendingFacts DEF Queues
<1>4. Head(<<Message(form)>>) = Message(form) /\ Tail(<<Message(form)>>) = <<>>
  OBVIOUS
<1>5. [queues EXCEPT ![q] = Tail(@)] = Empty
  <2>1. [queues EXCEPT ![q] = Tail(@)] = [p \in Queues |-> IF p = q THEN Tail(queues[q]) ELSE queues[p]]
    BY <1>2
  <2>2. \A p \in Queues : (IF p = q THEN Tail(queues[q]) ELSE queues[p]) = <<>>
    BY <1>3, <1>4
  <2>3. QED
    BY <2>1, <2>2 DEF Empty
<1>6. QED
  BY <1>1, <1>3, <1>4, <1>5

\* A worker takes the message, and the job is what it makes of it.
LEMMA HandleStep ==
  ASSUME IInv, HandleImage \/ HandleOcr
  PROVE  IInv'
<1>1. \A status \in {"failed", "completed", "processing"} :
        Pending => [row EXCEPT !.status = status] = Row(form, status)
  BY DEF Pending, Row
<1>2. CASE HandleImage
  <2>1. queues["q.image"] # <<>> /\ "q.image" \in Queues
    BY <1>2 DEF HandleImage, Queues
  <2>2. Pending /\ Head(queues["q.image"]) = Message(form) /\ queues' = Empty
    BY <1>2, <2>1, TakenFacts DEF HandleImage, Take
  <2>3. env' = env /\ form' = form /\ reply' = reply
    BY <1>2 DEF HandleImage
  <2>4. CASE row' = Row(form, "failed")
    <3>1. Left("failed")'
      BY <2>2, <2>3, <2>4 DEF Left, Pending, Empty
    <3>2. QED
      BY <2>3, <3>1 DEF IInv
  <2>5. CASE /\ row' = Row(form, "completed")
             /\ results' = Process(Message(form).operations, New(env), ProcessorParams(Message(form).params))
             /\ objects' = Stored(results')
    <3>1. Left("completed")'
      BY <2>2, <2>3, <2>5 DEF Left, Pending, Empty
    <3>2. Completed'
      BY <2>3, <2>5, <3>1 DEF Completed
    <3>3. QED
      BY <2>3, <3>2 DEF IInv
  <2>6. QED
    BY <1>1, <1>2, <2>2, <2>4, <2>5 DEF HandleImage, SetStatus
<1>3. CASE HandleOcr
  <2>1. queues["q.ocr"] # <<>> /\ "q.ocr" \in Queues
    BY <1>3 DEF HandleOcr, Queues
  <2>2. Pending /\ queues' = Empty
    BY <1>3, <2>1, TakenFacts DEF HandleOcr, Take
  <2>3. env' = env /\ form' = form /\ reply' = reply /\ row' = Row(form, "processing")
    BY <1>1, <1>3, <2>2 DEF HandleOcr, SetStatus
  <2>4. Left("processing")'
    BY <2>2, <2>3 DEF Left, Pending, Empty
  <2>5. QED
    BY <2>3, <2>4 DEF IInv
<1>4. QED
  BY <1>2, <1>3

\* Every form is somewhere on its way from the gateway to its artifacts, and
\* what the worker makes comes from the message that the gateway wrote.
THEOREM Invariance == Spec => []IInv
<1>1. Init => IInv
  BY InvInit
<1>2. IInv /\ [Next]_vars => IInv'
  <2> SUFFICES ASSUME IInv, [Next]_vars PROVE IInv'
    OBVIOUS
  <2>1. CASE \E f \in Forms : Submit(f)
    BY <2>1, SubmitStep
  <2>2. CASE HandleImage \/ HandleOcr
    BY <2>2, HandleStep
  <2>3. CASE Again
    <3>1. queues = Empty
      BY <2>3 DEF Again, IInv, Idle, Refused, Pending, Left, Completed, Empty
    <3>2. Idle' /\ env' \in Environments
      BY <2>3, <3>1 DEF Again, Idle, Empty, IInv
    <3>3. QED
      BY <3>2 DEF IInv
  <2>4. CASE UNCHANGED vars
    BY <2>4 DEF vars, IInv, Idle, Refused, Pending, Left, Completed, Empty
  <2>5. QED
    BY <2>1, <2>2, <2>3, <2>4 DEF Next
<1>3. QED
  BY <1>1, <1>2, PTL DEF Spec

----
(***************************************************************************)
(* What the invariant says of the properties                               *)
(***************************************************************************)

\* A job told 202 is on the one queue whose worker can take it, or has been:
\* no kind that RoutingKey does not know comes that far, and no document goes
\* to the image worker.
THEOREM AcceptedIsRoutable == Spec => []QueuedIsRoutable
<1>1. IInv => QueuedIsRoutable
  <2> SUFFICES ASSUME IInv PROVE QueuedIsRoutable
    OBVIOUS
  <2>1. CASE Pending
    <3>1. /\ KindOf(form) \in {KindImage, KindOCR} /\ KindImage # KindOCR
          /\ queues["q.image"] = IF KindOf(form) = KindImage THEN <<Message(form)>> ELSE <<>>
          /\ queues["q.ocr"] = IF KindOf(form) = KindOCR THEN <<Message(form)>> ELSE <<>>
      BY <2>1, PendingFacts
    <3>2. /\ row.kind = KindOf(form) /\ row.status = "pending" /\ reply = "202" /\ row # None
          /\ Message(form).kind = KindOf(form) /\ Message(form).type = TypeOf(form)
      BY <2>1, RowAssumption DEF Pending, Row, Message
    <3>3. KindOf(form) = KindImage => TypeOf(form)[1] = "image" \/ TypeOf(form) = OctetStream
      BY <2>1 DEF Pending, Acceptable, DecodableImage
    <3>4. Len(<<Message(form)>>) = 1 /\ Len(<<>>) = 0 /\ DOMAIN <<Message(form)>> = {1} /\ DOMAIN <<>> = {}
      OBVIOUS
    <3>5. ASSUME NEW q \in Queues, NEW i \in DOMAIN queues[q]
          PROVE  /\ queues[q][i] = Message(form)
                 /\ KindOf(form) = IF q = "q.image" THEN KindImage ELSE KindOCR
      <4>1. q \in {"q.image", "q.ocr"}
        BY DEF Queues
      <4>2. queues[q] # <<>>
        BY <3>4
      <4>3. queues[q] = <<Message(form)>> /\ KindOf(form) = IF q = "q.image" THEN KindImage ELSE KindOCR
        BY <3>1, <4>1, <4>2
      <4>4. QED
        BY <3>4, <4>3
    <3>6. Len(queues["q.image"]) + Len(queues["q.ocr"]) = 1
      <4>1. Len(queues["q.image"]) = (IF KindOf(form) = KindImage THEN 1 ELSE 0)
        BY <3>1, <3>4
      <4>2. Len(queues["q.ocr"]) = (IF KindOf(form) = KindOCR THEN 1 ELSE 0)
        BY <3>1, <3>4
      <4>3. QED
        BY <3>1, <4>1, <4>2
    <3>7. QED
      BY <3>2, <3>3, <3>5, <3>6 DEF QueuedIsRoutable
  <2>2. CASE Idle \/ Refused \/ Left("failed") \/ Left("processing") \/ Completed
    <3>1. \A q \in Queues : queues[q] = <<>>
      BY <2>2 DEF Idle, Refused, Left, Completed, Empty
    <3>2. reply = "202" => row.status # "pending"
      BY <2>2 DEF Idle, Refused, Left, Completed, Row
    <3>3. \A q \in Queues : DOMAIN queues[q] = {}
      BY <3>1
    <3>4. QED
      BY <3>1, <3>2, <3>3 DEF QueuedIsRoutable
  <2>3. QED
    BY <2>1, <2>2 DEF IInv
<1>2. QED
  BY <1>1, Invariance, PTL

\* A job is processed only by the worker's hand.
LEMMA ProcessedFacts ==
  ASSUME IInv, Processed
  PROVE  /\ Completed /\ form \in Form /\ env.thumbnail_size \in Number /\ env.resize_max_dim \in Number
         /\ results = Process(ParseOperations(form.operations), New(env), ParseParams(form))
<1>1. Completed
  <2>1. row # None /\ row.status = "completed"
    BY DEF Processed
  <2>2. QED
    BY <2>1 DEF IInv, Idle, Refused, Pending, Left, Row
<1>2. form \in Form /\ env.thumbnail_size \in Number /\ env.resize_max_dim \in Number
  BY <1>1, ForgeAssumption DEF IInv, Completed, Left
<1>3. Message(form).operations = ParseOperations(form.operations)
  BY DEF Message
<1>4. ProcessorParams(Message(form).params) = ParseParams(form)
  BY RoundTrip DEF Message
<1>5. QED
  BY <1>1, <1>2, <1>3, <1>4 DEF Completed

\* The words of the operations that are known.
KnownWords(ops) == {ops[k].word : k \in {k \in DOMAIN ops : Known(ops[k])}}

\* There is a result for every known operation, and no other.
LEMMA ProcessFacts ==
  ASSUME NEW S, NEW ops \in Seq(S), NEW options, NEW params
  PROVE  LET r == Process(ops, options, params) IN
           /\ \E n \in Nat : DOMAIN r = 1..n
           /\ \A i \in DOMAIN r : \E w \in KnownWords(ops) : r[i] = Apply(w, options, params)
           /\ \A w \in KnownWords(ops) : \E i \in DOMAIN r : r[i] = Apply(w, options, params)
<1> DEFINE places == {k \in DOMAIN ops : Known(ops[k])}
<1> DEFINE o == Only(ops, places)
<1>1. /\ o \in Seq(S) /\ DOMAIN o = 1..Len(o)
      /\ \A n \in DOMAIN o : \E k \in places : o[n] = ops[k]
      /\ \A k \in places : \E n \in DOMAIN o : o[n] = ops[k]
  <2>1. places \in SUBSET (DOMAIN ops)
    OBVIOUS
  <2> HIDE DEF places
  <2>2. QED
    BY <2>1, OnlyFacts
<1>2. Len(o) \in Nat
  BY <1>1, LenProperties
<1>3. KnownWords(ops) = {ops[k].word : k \in places}
  BY DEF KnownWords
<1> DEFINE r == Process(ops, options, params)
<1>4. r = [i \in 1..Len(o) |-> Apply(o[i].word, options, params)]
  BY DEF Process
<1> HIDE DEF o, places, r
<1>5. \A i \in DOMAIN r : \E w \in KnownWords(ops) : r[i] = Apply(w, options, params)
  BY <1>1, <1>3, <1>4
<1>6. \A w \in KnownWords(ops) : \E i \in DOMAIN r : r[i] = Apply(w, options, params)
  BY <1>1, <1>3, <1>4
<1>7. DOMAIN r = 1..Len(o)
  BY <1>4
<1>8. QED
  BY <1>2, <1>5, <1>6, <1>7 DEF o, places, r

\* Whether a form leaves the operations out.
Blank(raw) == Len(raw) = 1 /\ TrimSpace(raw[1]) = Plain("")

\* The words of the operations that a form asks for.
AskedWords(raw) ==
  {raw[k].word : k \in {k \in DOMAIN raw : TrimSpace(raw[k]) \in {Plain(o) : o \in Operations}}}

\* A text with another flag.
LEMMA TextFacts ==
  ASSUME NEW w, NEW u, NEW d, NEW v
  PROVE  /\ [Text(w, u, d) EXCEPT !.upper = v] = Text(w, v, d)
         /\ [Text(w, u, d) EXCEPT !.padded = v] = Text(w, u, v)
         /\ Text(w, u, d).word = w
  BY DEF Text

\* A text is plain when its trimmed form is.
LEMMA PlainFacts ==
  ASSUME NEW t \in Texts
  PROVE  /\ TrimSpace(t).word = t.word
         /\ ToLower(TrimSpace(t)) = Plain(t.word)
         /\ \A o : TrimSpace(t) = Plain(o) => t.word = o
         /\ \A o, w : Plain(o) = Plain(w) => o = w
         /\ \A o : Plain(o).word = o
<1>1. \A o : Plain(o).word = o
  BY DEF Plain, Text
<1>2. TrimSpace(t).word = t.word
  BY DEF TrimSpace, Texts
<1>3. ToLower(TrimSpace(t)) = Plain(t.word)
  <2>1. PICK w \in STRING, u \in BOOLEAN, d \in BOOLEAN : t = Text(w, u, d)
    BY DEF Texts, Text
  <2>2. PICK no : no = FALSE
    OBVIOUS
  <2>3. [Text(w, u, d) EXCEPT !.padded = no] = Text(w, u, no) /\ t.word = w
    BY <2>1, TextFacts
  <2>4. [Text(w, u, no) EXCEPT !.upper = no] = Text(w, no, no)
    BY TextFacts
  <2>5. TrimSpace(t) = Text(w, u, FALSE)
    BY <2>1, <2>2, <2>3, Zenon DEF TrimSpace
  <2>6. ToLower(Text(w, u, FALSE)) = Text(w, FALSE, FALSE)
    BY <2>2, <2>4, Zenon DEF ToLower
  <2>7. QED
    BY <2>3, <2>5, <2>6 DEF Plain
<1>4. QED
  BY <1>1, <1>2, <1>3

\* The gateway passes on what the form asks for, and nothing that is known to
\* the worker beside it.
LEMMA ParseOperationsFacts ==
  ASSUME NEW raw \in Seq(Texts)
  PROVE  /\ \E S : ParseOperations(raw) \in Seq(S)
         /\ Blank(raw) => KnownWords(ParseOperations(raw)) = {"resize", "thumbnail", "webp"}
         /\ ~Blank(raw) => KnownWords(ParseOperations(raw)) = AskedWords(raw)
<1> DEFINE ops == ParseOperations(raw)
<1>1. CASE Blank(raw)
  <2>1. ops = <<Plain("resize"), Plain("thumbnail"), Plain("webp")>>
    BY <1>1 DEF ParseOperations, Blank
  <2>2. ops \in Seq({Plain("resize"), Plain("thumbnail"), Plain("webp")})
    BY <2>1
  <2>3. /\ DOMAIN ops = 1..3
        /\ ops[1] = Plain("resize") /\ ops[2] = Plain("thumbnail") /\ ops[3] = Plain("webp")
    BY <2>1
  <2> HIDE DEF ops
  <2>4. \A k \in DOMAIN ops : Known(ops[k])
    BY <2>3 DEF Known, Operations
  <2>5. ops[1].word = "resize" /\ ops[2].word = "thumbnail" /\ ops[3].word = "webp"
    BY <2>3 DEF Plain, Text
  <2>6. KnownWords(ops) = {ops[k].word : k \in 1..3}
    BY <2>3, <2>4 DEF KnownWords
  <2>7. KnownWords(ops) = {"resize", "thumbnail", "webp"}
    <3>1. \A k : k \in 1..3 <=> k = 1 \/ k = 2 \/ k = 3
      OBVIOUS
    <3>2. QED
      BY <2>5, <2>6, <3>1
  <2>8. QED
    BY <1>1, <2>2, <2>7 DEF ops
<1>2. CASE ~Blank(raw)
  <2> DEFINE trimmed == [i \in 1..Len(raw) |-> TrimSpace(raw[i])]
  <2> DEFINE places == {i \in DOMAIN trimmed : trimmed[i] # Plain("")}
  <2>1. ops = Only(trimmed, places)
    BY <1>2 DEF ParseOperations, Blank
  <2>2. DOMAIN raw = 1..Len(raw) /\ Len(raw) \in Nat /\ \A k \in DOMAIN raw : raw[k] \in Texts
    BY LenProperties
  <2> DEFINE S == {TrimSpace(t) : t \in Texts}
  <2>3. trimmed \in Seq(S) /\ DOMAIN trimmed = DOMAIN raw
    <3>1. trimmed \in [1..Len(raw) -> S]
      BY <2>2
    <3> HIDE DEF trimmed, S
    <3>2. QED
      BY <2>2, <3>1, SeqDef
  <2>4. \A k \in DOMAIN raw : trimmed[k] = TrimSpace(raw[k])
    BY <2>2
  <2>5. /\ places \in SUBSET (DOMAIN trimmed)
        /\ \A k \in DOMAIN trimmed : k \in places <=> trimmed[k] # Plain("")
    OBVIOUS
  <2> HIDE DEF trimmed, places, S, ops
  <2>6. /\ ops \in Seq(S)
        /\ \A n \in DOMAIN ops : \E k \in places : ops[n] = trimmed[k]
        /\ \A k \in places : \E n \in DOMAIN ops : ops[n] = trimmed[k]
    BY <2>1, <2>3, <2>5, OnlyFacts
  <2>7. ASSUME NEW k \in DOMAIN raw PROVE trimmed[k].word = raw[k].word
    BY <2>2, <2>4, PlainFacts
  <2>8. ASSUME NEW n \in DOMAIN ops, Known(ops[n]) PROVE ops[n].word \in AskedWords(raw)
    <3>1. PICK k \in DOMAIN raw : ops[n] = trimmed[k]
      BY <2>3, <2>5, <2>6
    <3>2. TrimSpace(raw[k]) \in {Plain(o) : o \in Operations}
      BY <2>4, <2>8, <3>1 DEF Known
    <3>3. ops[n].word = raw[k].word
      BY <2>7, <3>1
    <3>4. QED
      BY <3>2, <3>3 DEF AskedWords
  <2>9. ASSUME NEW k \in DOMAIN raw, TrimSpace(raw[k]) \in {Plain(o) : o \in Operations}
        PROVE  raw[k].word \in KnownWords(ops)
    <3>1. Known(trimmed[k])
      BY <2>4, <2>9 DEF Known
    <3>2. trimmed[k] # Plain("")
      <4>1. PICK o \in Operations : trimmed[k] = Plain(o)
        BY <2>4, <2>9
      <4>2. o # ""
        BY DEF Operations
      <4>3. Plain(o).word = o /\ Plain("").word = ""
        BY DEF Plain, Text
      <4>4. QED
        BY <4>1, <4>2, <4>3
    <3>3. PICK n \in DOMAIN ops : ops[n] = trimmed[k]
      BY <2>3, <2>5, <2>6, <3>2
    <3>4. QED
      BY <2>7, <3>1, <3>3 DEF KnownWords
  <2>10. KnownWords(ops) = AskedWords(raw)
    BY <2>8, <2>9 DEF KnownWords, AskedWords
  <2>11. QED
    BY <1>2, <2>6, <2>10 DEF ops
<1>3. QED
  BY <1>1, <1>2

\* Only what is known is made.
LEMMA KnownWordsFacts ==
  ASSUME NEW ops
  PROVE  KnownWords(ops) \subseteq Operations
<1>1. ASSUME NEW k \in DOMAIN ops, Known(ops[k]) PROVE ops[k].word \in Operations
  <2>1. PICK o \in Operations : ops[k] = Plain(o)
    BY <1>1 DEF Known
  <2>2. QED
    BY <2>1 DEF Plain, Text
<1>2. QED
  BY <1>1 DEF KnownWords

\* A value that is used where it is given and in range, through the zero that
\* stands for one that is not.
LEMMA WithinFacts ==
  ASSUME NEW v \in Number, NEW low \in Nat \ {0}, NEW high \in Nat, NEW d
  PROVE  Positive(Within(v, low, high), d) = Wanted(v, low, high, d)
<1>1. CASE v \in {Absent, Junk}
  BY <1>1 DEF Positive, Within, Wanted
<1>2. CASE v \notin {Absent, Junk}
  <2>1. v \in Int
    BY <1>2 DEF Number
  <2>2. QED
    BY <1>2, <2>1 DEF Positive, Within, Wanted
<1>3. QED
  BY <1>1, <1>2

\* The same for the environment of the worker.
LEMMA DefaultFacts ==
  ASSUME NEW v \in Number, NEW builtIn \in Nat \ {0}
  PROVE  Positive(EnvInt(v, builtIn), builtIn) = DefaultOf(v, builtIn)
<1>1. CASE v \in {Absent, Junk}
  BY <1>1 DEF Positive, EnvInt, DefaultOf
<1>2. CASE v \notin {Absent, Junk}
  <2>1. v \in Int
    BY <1>2 DEF Number
  <2>2. QED
    BY <1>2, <2>1 DEF Positive, EnvInt, DefaultOf
<1>3. QED
  BY <1>1, <1>2

\* What each operation makes of the form and the environment.
Made(w) ==
  CASE w = "resize" ->
         IF ToLower(TrimSpace(form.resize_format)) \in {Plain("png"), Plain("webp")}
         THEN Result("resized", form.resize_format.word, WantedEdge, 0, 0)
         ELSE Result("resized", "jpeg", WantedEdge, Wanted(form.quality, 1, 100, 85), 0)
    [] w = "thumbnail" -> Result("thumbnail", "png", WantedSize, 0, 0)
    [] w = "webp" -> Result("webp", "webp", WantedEdge, 0, 0)
    [] w = "grayscale" -> Result("grayscale", "png", 0, 0, 0)
    [] w = "blur" -> Result("blur", "png", 0, 0, Wanted(form.blur_sigma, 5, 200, 30))

\* The worker makes what is wanted: four zeros later, no value is lost or
\* taken for another.
LEMMA ApplyFacts ==
  ASSUME IInv, Processed, NEW w \in Operations
  PROVE  Apply(w, New(env), ParseParams(form)) = Made(w)
<1> DEFINE p == ParseParams(form)
<1> DEFINE o == New(env)
<1>1. /\ env.thumbnail_size \in Number /\ env.resize_max_dim \in Number
      /\ form.resize_max_dim \in Number /\ form.thumbnail_size \in Number
      /\ form.quality \in Number /\ form.blur_sigma \in Number /\ form.resize_format \in Texts
  <2>1. env.thumbnail_size \in Number /\ env.resize_max_dim \in Number /\ form \in Form
    BY ProcessedFacts
  <2>2. QED
    BY <2>1 DEF Form
<1>2. /\ p.resize_max_dim = Within(form.resize_max_dim, 16, 8000)
      /\ p.thumbnail_size = Within(form.thumbnail_size, 16, 2000)
      /\ p.quality = Within(form.quality, 1, 100)
      /\ p.blur_sigma = Within(form.blur_sigma, 5, 200)
      /\ p.resize_format = ParseFormat(form.resize_format)
  BY DEF ParseParams
<1>3. /\ o.resize_max_dim = DefaultOf(env.resize_max_dim, 1600)
      /\ o.thumbnail_size = DefaultOf(env.thumbnail_size, 256)
  BY <1>1, DefaultFacts DEF New
<1> HIDE DEF p, o
<1>4. Positive(p.resize_max_dim, o.resize_max_dim) = WantedEdge
  BY <1>1, <1>2, <1>3, WithinFacts DEF WantedEdge
<1>5. Positive(p.thumbnail_size, o.thumbnail_size) = WantedSize
  BY <1>1, <1>2, <1>3, WithinFacts DEF WantedSize
<1>6. Positive(p.quality, 85) = Wanted(form.quality, 1, 100, 85)
  BY <1>1, <1>2, WithinFacts
<1>7. Positive(p.blur_sigma, 30) = Wanted(form.blur_sigma, 5, 200, 30)
  BY <1>1, <1>2, WithinFacts
<1>8. /\ p.resize_format \in {"png", "webp"} <=>
           ToLower(TrimSpace(form.resize_format)) \in {Plain("png"), Plain("webp")}
      /\ p.resize_format \in {"png", "webp"} => p.resize_format = form.resize_format.word
  <2> DEFINE t == form.resize_format
  <2>1. ToLower(TrimSpace(t)) = Plain(t.word) /\ \A a, b : Plain(a) = Plain(b) => a = b
    BY <1>1, PlainFacts
  <2>2. Plain(t.word).word = t.word
    BY DEF Plain, Text
  <2>3. p.resize_format = IF t.word \in {"jpeg", "png", "webp"} THEN t.word ELSE ""
    <3>1. ParseFormat(t) = IF ToLower(TrimSpace(t)).word \in {"jpeg", "png", "webp"}
                           THEN ToLower(TrimSpace(t)).word ELSE ""
      BY DEF ParseFormat
    <3>2. ToLower(TrimSpace(t)).word = t.word
      BY <2>1, <2>2
    <3>3. p.resize_format = ParseFormat(t)
      BY <1>2
    <3> HIDE DEF t
    <3>4. QED
      BY <3>1, <3>2, <3>3
  <2> HIDE DEF t
  <2>4. p.resize_format \in {"png", "webp"} <=> t.word \in {"png", "webp"}
    BY <2>3
  <2>5. p.resize_format \in {"png", "webp"} => p.resize_format = t.word
    BY <2>3
  <2>6. t.word \in {"png", "webp"} <=> Plain(t.word) \in {Plain("png"), Plain("webp")}
    BY <2>1
  <2>7. QED
    BY <2>1, <2>4, <2>5, <2>6 DEF t
<1>9. Apply(w, o, p) = Made(w)
  <2>1. CASE w = "resize"
    <3>1. Apply(w, o, p) = Resize(WantedEdge, p.resize_format, p.quality)
      BY <1>4, <2>1 DEF Apply
    <3>2. QED
      BY <1>6, <1>8, <2>1, <3>1 DEF Resize, Made
  <2>2. CASE w = "thumbnail"
    BY <1>5, <2>2 DEF Apply, Made, Thumbnail
  <2>3. CASE w = "webp"
    BY <1>4, <2>3 DEF Apply, Made, WebP
  <2>4. CASE w = "grayscale"
    BY <2>4 DEF Apply, Made, Grayscale
  <2>5. CASE w = "blur"
    BY <1>7, <2>5 DEF Apply, Made, Blur
  <2>6. QED
    BY <2>1, <2>2, <2>3, <2>4, <2>5 DEF Operations
<1>10. QED
  BY <1>9 DEF p, o

\* The words of a job's results: those the form asks for.
Words == IF Blank(form.operations) THEN {"resize", "thumbnail", "webp"} ELSE AskedWords(form.operations)

\* There is what is wanted of every operation that the form asks for.
LEMMA ResultsFacts ==
  ASSUME IInv, Processed
  PROVE  /\ Words \subseteq Operations
         /\ \E n \in Nat : DOMAIN results = 1..n
         /\ \A i \in DOMAIN results : \E w \in Words : results[i] = Made(w)
         /\ \A w \in Words : \E i \in DOMAIN results : results[i] = Made(w)
<1> DEFINE ops == ParseOperations(form.operations)
<1>1. results = Process(ops, New(env), ParseParams(form)) /\ form \in Form
  BY ProcessedFacts
<1>2. form.operations \in Seq(Texts)
  BY <1>1 DEF Form
<1>3. PICK S : ops \in Seq(S)
  BY <1>2, ParseOperationsFacts
<1>4. KnownWords(ops) = Words
  BY <1>2, ParseOperationsFacts DEF Words
<1> HIDE DEF ops
<1>5. /\ \E n \in Nat : DOMAIN results = 1..n
      /\ \A i \in DOMAIN results : \E w \in Words : results[i] = Apply(w, New(env), ParseParams(form))
      /\ \A w \in Words : \E i \in DOMAIN results : results[i] = Apply(w, New(env), ParseParams(form))
  BY <1>1, <1>3, <1>4, ProcessFacts
<1>6. Words \subseteq Operations
  BY <1>4, KnownWordsFacts
<1>7. \A w \in Words : Apply(w, New(env), ParseParams(form)) = Made(w)
  BY <1>6, ApplyFacts
<1>8. QED
  BY <1>5, <1>6, <1>7

\* Every artifact is made with what the client asked for where the schema
\* allows it, and with the worker's default everywhere else.
THEOREM SettingsHold == Spec => []SettingsAsRequested
<1>1. IInv => SettingsAsRequested
  <2> SUFFICES ASSUME IInv, Processed, NEW i \in DOMAIN results
               PROVE  LET r == results[i] IN
                        /\ r.name \in {"resized", "webp"} => r.edge = WantedEdge
                        /\ r.name = "thumbnail" => r.edge = WantedSize
                        /\ r.name \in {"grayscale", "blur"} => r.edge = 0
                        /\ r.name = "blur" => r.sigma = Wanted(form.blur_sigma, 5, 200, 30)
                        /\ r.type = <<"image", "jpeg">> => r.quality = Wanted(form.quality, 1, 100, 85)
                        /\ r.name = "resized" =>
                             r.type[2] =
                               IF ToLower(TrimSpace(form.resize_format)) \in {Plain("png"), Plain("webp")}
                               THEN form.resize_format.word ELSE "jpeg"
    BY DEF SettingsAsRequested
  <2>1. PICK w \in Operations : results[i] = Made(w)
    BY ResultsFacts
  <2> DEFINE plain == ToLower(TrimSpace(form.resize_format)) \in {Plain("png"), Plain("webp")}
  <2>2. form.resize_format \in Texts
    BY ProcessedFacts DEF Form
  <2>3. plain => form.resize_format.word \in {"png", "webp"}
    BY <2>2, PlainFacts
  <2>4. CASE w = "resize"
    BY <2>1, <2>3, <2>4 DEF Made, Result
  <2>5. CASE w = "thumbnail"
    BY <2>1, <2>5 DEF Made, Result
  <2>6. CASE w = "webp"
    BY <2>1, <2>6 DEF Made, Result
  <2>7. CASE w = "grayscale"
    BY <2>1, <2>7 DEF Made, Result
  <2>8. CASE w = "blur"
    BY <2>1, <2>8 DEF Made, Result
  <2>9. QED
    BY <2>4, <2>5, <2>6, <2>7, <2>8 DEF Operations
<1>2. QED
  BY <1>1, Invariance, PTL

----
(***************************************************************************)
(* The objects                                                             *)
(***************************************************************************)

\* The name of what an operation makes tells the operation.
LEMMA MadeFacts ==
  ASSUME IInv, Processed, NEW w \in Operations
  PROVE  /\ Made(w).name = ResultOf[w]
         /\ ArtifactFilename(Made(w)) =
              <<ResultOf[w], IF Made(w).type[2] = "jpeg" THEN "jpg" ELSE Made(w).type[2]>>
         /\ \A x \in Operations : ResultOf[x] = ResultOf[w] => x = w
<1>1. form.resize_format \in Texts
  BY ProcessedFacts DEF Form
<1> DEFINE plain == ToLower(TrimSpace(form.resize_format)) \in {Plain("png"), Plain("webp")}
<1>2. plain => form.resize_format.word \in {"png", "webp"}
  BY <1>1, PlainFacts
<1>3. \E type \in {"png", "webp", "jpeg"} :
        Made(w).name = ResultOf[w] /\ Made(w).type = <<"image", type>>
  <2>1. CASE w = "resize"
    BY <1>2, <2>1 DEF Made, Result, ResultOf
  <2>2. CASE w = "thumbnail"
    BY <2>2 DEF Made, Result, ResultOf
  <2>3. CASE w = "webp"
    BY <2>3 DEF Made, Result, ResultOf
  <2>4. CASE w = "grayscale"
    BY <2>4 DEF Made, Result, ResultOf
  <2>5. CASE w = "blur"
    BY <2>5 DEF Made, Result, ResultOf
  <2>6. QED
    BY <2>1, <2>2, <2>3, <2>4, <2>5 DEF Operations
<1>4. PICK type \in {"png", "webp", "jpeg"} :
        Made(w).name = ResultOf[w] /\ Made(w).type = <<"image", type>>
  BY <1>3
<1>5. Made(w).type[2] = type
  BY <1>4
<1>6. /\ type = "png" => <<"image", type>> = <<"image", "png">>
      /\ type = "webp" => <<"image", type>> = <<"image", "webp">> /\ <<"image", type>> # <<"image", "png">>
      /\ type = "jpeg" => <<"image", type>> # <<"image", "png">> /\ <<"image", type>> # <<"image", "webp">>
  OBVIOUS
<1>7. ArtifactFilename(Made(w)) = <<ResultOf[w], IF type = "jpeg" THEN "jpg" ELSE type>>
  <2>1. CASE type = "png"
    BY <1>4, <1>6, <2>1 DEF ArtifactFilename
  <2>2. CASE type = "webp"
    BY <1>4, <1>6, <2>2 DEF ArtifactFilename
  <2>3. CASE type = "jpeg"
    BY <1>4, <1>6, <2>3 DEF ArtifactFilename
  <2>4. QED
    BY <2>1, <2>2, <2>3
<1>8. \A x \in Operations : ResultOf[x] = ResultOf[w] => x = w
  BY DEF ResultOf, Operations
<1>9. QED
  BY <1>4, <1>5, <1>7, <1>8

\* The store holds every result under its name, and under each name a result.
LEMMA StoredFacts ==
  ASSUME IInv, Processed
  PROVE  /\ \A i \in DOMAIN results :
              /\ ArtifactFilename(results[i]) \in DOMAIN objects
              /\ objects[ArtifactFilename(results[i])] = results[i]
         /\ \A key \in DOMAIN objects : \E i \in DOMAIN results :
              key = ArtifactFilename(results[i]) /\ objects[key] = results[i]
<1>1. objects = Stored(results)
  BY ProcessedFacts DEF Completed
<1>2. PICK n \in Nat : DOMAIN results = 1..n
  BY ResultsFacts
<1>3. DOMAIN objects = {ArtifactFilename(results[i]) : i \in DOMAIN results}
  BY <1>1 DEF Stored
<1>4. \A key \in DOMAIN objects : objects[key] = results[Last(Writes(results, key))]
  BY <1>1, <1>3 DEF Stored
<1>5. ASSUME NEW key \in DOMAIN objects
      PROVE  \E i \in DOMAIN results : key = ArtifactFilename(results[i]) /\ objects[key] = results[i]
  <2>1. Writes(results, key) \in SUBSET (1..n) /\ Writes(results, key) # {}
    BY <1>2, <1>3 DEF Writes
  <2>2. Last(Writes(results, key)) \in Writes(results, key)
    BY <2>1, LastFacts
  <2>3. QED
    BY <1>4, <2>2 DEF Writes
<1>6. ASSUME NEW i \in DOMAIN results, NEW j \in DOMAIN results,
             ArtifactFilename(results[i]) = ArtifactFilename(results[j])
      PROVE  results[i] = results[j]
  <2>1. PICK w \in Operations : results[i] = Made(w)
    BY ResultsFacts
  <2>2. PICK x \in Operations : results[j] = Made(x)
    BY ResultsFacts
  <2>3. /\ ArtifactFilename(Made(w))[1] = ResultOf[w]
        /\ ArtifactFilename(Made(x))[1] = ResultOf[x]
    BY MadeFacts
  <2>4. ResultOf[w] = ResultOf[x]
    BY <1>6, <2>1, <2>2, <2>3
  <2>5. QED
    BY <2>1, <2>2, <2>4, MadeFacts
<1>7. ASSUME NEW i \in DOMAIN results
      PROVE  /\ ArtifactFilename(results[i]) \in DOMAIN objects
             /\ objects[ArtifactFilename(results[i])] = results[i]
  <2>1. ArtifactFilename(results[i]) \in DOMAIN objects
    BY <1>3
  <2>2. QED
    BY <1>5, <1>6, <2>1
<1>8. QED
  BY <1>5, <1>7

\* The artifacts are those of the operations the form names, one object for
\* each, under a key of its own with the extension of its type.
THEOREM ArtifactsHold == Spec => []ArtifactsAsRequested
<1>1. IInv => ArtifactsAsRequested
  <2> SUFFICES ASSUME IInv, Processed PROVE ArtifactsAsRequested
    BY DEF ArtifactsAsRequested
  <2> DEFINE asked == {i \in DOMAIN form.operations : Asks(i)}
  <2> DEFINE blank == Len(form.operations) = 1 /\ TrimSpace(form.operations[1]) = Plain("")
  <2> DEFINE names == IF blank THEN {"resized", "thumbnail", "webp"}
                      ELSE {ResultOf[form.operations[i].word] : i \in asked}
  <2>1. names = {ResultOf[w] : w \in Words}
    <3>1. CASE blank
      <4>1. Words = {"resize", "thumbnail", "webp"}
        BY <3>1 DEF Words, Blank
      <4>2. names = {"resized", "thumbnail", "webp"}
        BY <3>1
      <4>3. ResultOf["resize"] = "resized" /\ ResultOf["thumbnail"] = "thumbnail" /\ ResultOf["webp"] = "webp"
        BY DEF ResultOf
      <4> HIDE DEF names
      <4>4. QED
        BY <4>1, <4>2, <4>3
    <3>2. CASE ~blank
      <4>1. Words = {form.operations[i].word : i \in asked}
        BY <3>2 DEF Words, Blank, AskedWords, Asks
      <4>2. names = {ResultOf[form.operations[i].word] : i \in asked}
        BY <3>2
      <4> HIDE DEF asked, names
      <4>3. QED
        BY <4>1, <4>2
    <3>3. QED
      BY <3>1, <3>2
  <2>2. {results[i].name : i \in DOMAIN results} = names
    <3> HIDE DEF names
    <3>1. ASSUME NEW i \in DOMAIN results PROVE results[i].name \in {ResultOf[w] : w \in Words}
      BY ResultsFacts, MadeFacts
    <3>2. ASSUME NEW w \in Words PROVE \E i \in DOMAIN results : results[i].name = ResultOf[w]
      BY ResultsFacts, MadeFacts
    <3>3. QED
      BY <2>1, <3>1, <3>2
  <2>3. ASSUME NEW i \in DOMAIN results
        PROVE  \E key \in DOMAIN objects :
                 /\ objects[key] = results[i]
                 /\ key[2] = IF results[i].type[2] = "jpeg" THEN "jpg" ELSE results[i].type[2]
    <3>1. PICK w \in Operations : results[i] = Made(w)
      BY ResultsFacts
    <3>2. ArtifactFilename(results[i])[2] = IF results[i].type[2] = "jpeg" THEN "jpg" ELSE results[i].type[2]
      BY <3>1, MadeFacts
    <3>3. QED
      BY <3>2, StoredFacts
  <2>4. ASSUME NEW a \in DOMAIN objects, NEW b \in DOMAIN objects, objects[a].name = objects[b].name
        PROVE  a = b
    <3>1. PICK i \in DOMAIN results : a = ArtifactFilename(results[i]) /\ objects[a] = results[i]
      BY StoredFacts
    <3>2. PICK j \in DOMAIN results : b = ArtifactFilename(results[j]) /\ objects[b] = results[j]
      BY StoredFacts
    <3>3. PICK w \in Operations : results[i] = Made(w)
      BY ResultsFacts
    <3>4. PICK x \in Operations : results[j] = Made(x)
      BY ResultsFacts
    <3>5. ResultOf[w] = ResultOf[x]
      BY <2>4, <3>1, <3>2, <3>3, <3>4, MadeFacts
    <3>6. w = x
      BY <3>5, MadeFacts
    <3>7. QED
      BY <3>1, <3>2, <3>3, <3>4, <3>6
  <2> HIDE DEF names
  <2>5. /\ {results[i].name : i \in DOMAIN results} = names
        /\ \A i \in DOMAIN results : \E key \in DOMAIN objects :
             /\ objects[key] = results[i]
             /\ key[2] = IF results[i].type[2] = "jpeg" THEN "jpg" ELSE results[i].type[2]
        /\ \A a, b \in DOMAIN objects : objects[a].name = objects[b].name => a = b
    BY <2>2, <2>3, <2>4
  <2>6. QED
    BY <2>5 DEF ArtifactsAsRequested, names
<1>2. QED
  BY <1>1, Invariance, PTL

====
