---- MODULE Forge ----
(***************************************************************************)
(* A job from its form to its artifacts: the gateway turns the form into a *)
(* row and a message, the topology routes the message by its key, and the  *)
(* image worker processes what it decodes of it.  Only the data are        *)
(* followed here, one job at a time and call by call nothing fails;        *)
(* Gateway, WorkQueue, ImageWorker and OcrWorker have the interleavings,   *)
(* the failures and the retries of the same path.                          *)
(***************************************************************************)
EXTENDS Processor

CONSTANTS
  Forms,        \* the forms that clients send
  Environments, \* what the image worker's environment may say
  Secret,       \* API_AUTH_TOKEN, "" when the guard is off
  None          \* no form, no message

Form ==
  [authorization : Seq(STRING), kind : Texts, filename : Seq(Texts), type : STRING \X STRING,
   operations : Seq(Texts), resize_max_dim : Number, thumbnail_size : Number,
   resize_format : Texts, quality : Number, blur_sigma : Number,
   source : [decodes : BOOLEAN, unencodable : SUBSET STRING]]

ASSUME ForgeAssumption ==
  /\ Forms \subseteq Form
  /\ Environments \subseteq [thumbnail_size : Number, resize_max_dim : Number]
  /\ None \notin Forms

VARIABLES
  env,     \* environment of the running worker
  form,    \* form of the job in progress
  reply,   \* the gateway's answer
  row,     \* its row in the jobs table: kind, content type and status
  queues,  \* messages on each queue
  results, \* what the worker last produced
  objects  \* what the object store has under each name of artifacts/<job>/

vars == <<env, form, reply, row, queues, results, objects>>

Queues == {"q.image", "q.ocr"}

Init ==
  /\ env \in Environments
  /\ form = None
  /\ reply = "none"
  /\ row = None
  /\ queues = [q \in Queues |-> <<>>]
  /\ results = <<>>
  /\ objects = <<>>

----
\* bearerAuth: the scheme may be left out of the header.
Authorized(header) ==
  \/ Secret = ""
  \/ header[Len(header)] = Secret /\ (Len(header) = 1 \/ header[1] = "Bearer")

KindOf(f) == ResolveKind(f.kind, f.filename)
TypeOf(f) == DetectContentType(f.type, f.filename)

Acceptable(f) ==
  /\ Valid(KindOf(f))
  /\ KindOf(f) = KindImage => DecodableImage(TypeOf(f))

Row(f, status) == [kind |-> KindOf(f), type |-> TypeOf(f), status |-> status]

ASSUME RowAssumption ==
  \A f \in Forms, status \in {"pending", "processing", "completed", "failed"} :
    None # Row(f, status)

Message(f) ==
  [kind |-> KindOf(f), type |-> TypeOf(f), operations |-> ParseOperations(f.operations),
   params |-> Encode(ParseParams(f))]

\* The bindings of the work queues to media.jobs.
BoundTo(queue) == IF queue = "q.ocr" THEN "ocr.extract" ELSE "image.process"

Route(message) ==
  queues' = [q \in Queues |->
    IF BoundTo(q) = RoutingKey(message.kind) THEN Append(queues[q], message) ELSE queues[q]]

Refuse(code) ==
  /\ reply' = code
  /\ UNCHANGED <<row, queues>>

\* handleSubmit. The guard of the route comes first.
Submit(f) ==
  /\ form = None
  /\ form' = f
  /\ \/ ~Authorized(f.authorization) /\ Refuse("401")
     \/ Authorized(f.authorization) /\ ~Acceptable(f) /\ Refuse("400")
     \/ /\ Authorized(f.authorization) /\ Acceptable(f)
        /\ row' = Row(f, "pending")
        /\ Route(Message(f))
        /\ reply' = "202"
  /\ UNCHANGED <<env, results, objects>>

Take(q) == queues' = [queues EXCEPT ![q] = Tail(@)]

SetStatus(status) == row' = [row EXCEPT !.status = status]

Writes(produced, name) == {i \in DOMAIN produced : ArtifactFilename(produced[i]) = name}

Last(places) == CHOOSE i \in places : \A k \in places : k <= i

\* A later Put under the same name replaces the earlier one.
Stored(produced) ==
  [name \in {ArtifactFilename(produced[i]) : i \in DOMAIN produced} |->
     produced[Last(Writes(produced, name))]]

\* The image worker's handle: a job it cannot process fails for good.
HandleImage ==
  /\ queues["q.image"] # <<>>
  /\ LET message == Head(queues["q.image"])
         produced == Process(message.operations, New(env), ProcessorParams(message.params))
     IN  \/ /\ Fails(form.source, message.operations)
            /\ SetStatus("failed")
            /\ UNCHANGED <<results, objects>>
         \/ /\ ~Fails(form.source, message.operations)
            /\ SetStatus("completed")
            /\ results' = produced
            /\ objects' = Stored(produced)
  /\ Take("q.image")
  /\ UNCHANGED <<env, form, reply>>

\* The OCR worker takes the job; OcrWorker has the rest.
HandleOcr ==
  /\ queues["q.ocr"] # <<>>
  /\ Take("q.ocr")
  /\ SetStatus("processing")
  /\ UNCHANGED <<env, form, reply, results, objects>>

\* The next job; it has a row and a folder of its own.
Again ==
  /\ form # None
  /\ \A q \in Queues : queues[q] = <<>>
  /\ form' = None /\ reply' = "none" /\ row' = None
  /\ results' = <<>> /\ objects' = <<>>
  /\ UNCHANGED <<env, queues>>

Next ==
  \/ \E f \in Forms : Submit(f)
  \/ HandleImage \/ HandleOcr
  \/ Again

Spec == Init /\ [][Next]_vars

----
(***************************************************************************)
(* Properties.  The schema's view of the form is stated apart from the     *)
(* code: a field counts when its value is in the range the schema gives.   *)
(***************************************************************************)

Processed == row # None /\ row.status = "completed"

Wanted(v, low, high, otherwise) == IF v \in {Absent, Junk} THEN otherwise
                                   ELSE IF v \in low..high THEN v ELSE otherwise

DefaultOf(v, builtIn) == IF v \in {Absent, Junk} THEN builtIn
                         ELSE IF v > 0 THEN v ELSE builtIn

WantedEdge == Wanted(form.resize_max_dim, 16, 8000, DefaultOf(env.resize_max_dim, 1600))
WantedSize == Wanted(form.thumbnail_size, 16, 2000, DefaultOf(env.thumbnail_size, 256))

\* Every artifact is made with what the client asked for where the schema
\* (specs/schemas/job.schema.json, params) allows it, and with the worker's
\* default everywhere else: no value is lost, taken for another or let in
\* by parseParams, omitempty, processorParams, New and Process, four of
\* which use 0 for "not given".
SettingsAsRequested ==
  Processed => \A i \in DOMAIN results :
    LET r == results[i] IN
      /\ r.name \in {"resized", "webp"} => r.edge = WantedEdge
      /\ r.name = "thumbnail" => r.edge = WantedSize
      /\ r.name \in {"grayscale", "blur"} => r.edge = 0
      /\ r.name = "blur" => r.sigma = Wanted(form.blur_sigma, 5, 200, 30)
      /\ r.type = <<"image", "jpeg">> => r.quality = Wanted(form.quality, 1, 100, 85)
      /\ r.name = "resized" =>
           r.type[2] = IF ToLower(TrimSpace(form.resize_format)) \in {Plain("png"), Plain("webp")}
                       THEN form.resize_format.word ELSE "jpeg"

Asks(i) == TrimSpace(form.operations[i]) \in {Plain(o) : o \in Operations}
ResultOf == [resize |-> "resized", thumbnail |-> "thumbnail", webp |-> "webp",
             grayscale |-> "grayscale", blur |-> "blur"]

\* The artifacts are those of the operations the form names, one object for
\* each, none under the key of another and each under an extension that
\* agrees with its content type, whatever the form repeats, misspells or
\* leaves blank; a blank field gives the three standard ones.
ArtifactsAsRequested ==
  Processed =>
    LET asked == {i \in DOMAIN form.operations : Asks(i)}
        blank == Len(form.operations) = 1 /\ TrimSpace(form.operations[1]) = Plain("")
        names == IF blank THEN {"resized", "thumbnail", "webp"}
                 ELSE {ResultOf[form.operations[i].word] : i \in asked}
    IN  /\ {results[i].name : i \in DOMAIN results} = names
        /\ \A i \in DOMAIN results : \E key \in DOMAIN objects :
             /\ objects[key] = results[i]
             /\ key[2] = IF results[i].type[2] = "jpeg" THEN "jpg" ELSE results[i].type[2]
        /\ \A a, b \in DOMAIN objects : objects[a].name = objects[b].name => a = b

\* A job told 202 is on exactly one queue, or has been, and that queue's
\* worker can take it: RoutingKey sends every kind it does not know to the
\* image worker, so none may come that far, and no document either.
QueuedIsRoutable ==
  /\ \A q \in Queues : \A i \in DOMAIN queues[q] :
       LET m == queues[q][i] IN
         /\ m.kind = IF q = "q.image" THEN KindImage ELSE KindOCR
         /\ m.kind = KindImage => m.type[1] = "image" \/ m.type = OctetStream
         /\ row # None /\ row.kind = m.kind /\ row.status = "pending"
  /\ reply = "202" /\ row.status = "pending" =>
       Len(queues["q.image"]) + Len(queues["q.ocr"]) = 1
  /\ reply # "202" => \A q \in Queues : queues[q] = <<>>

====
