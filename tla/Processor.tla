---- MODULE Processor ----
(***************************************************************************)
(* The image processor (services/worker-image, internal/processor) and the *)
(* settings it runs with: what the job asks for over what the environment  *)
(* says over the built-in defaults.  A result is known by its name, its    *)
(* content type and the settings it was made with; pixels are left out.    *)
(***************************************************************************)
EXTENDS JobForm

\* config.Load: a variable that is missing or does not parse has its default.
EnvInt(v, default) == IF v \in {Absent, Junk} THEN default ELSE v

Positive(n, default) == IF n <= 0 THEN default ELSE n

\* New: the options of the processor.
New(env) ==
  [thumbnail_size |-> Positive(EnvInt(env.thumbnail_size, 256), 256),
   resize_max_dim |-> Positive(EnvInt(env.resize_max_dim, 1600), 1600)]

\* The wire parameters decoded; what they leave out is zero.
ProcessorParams(wire) ==
  [f \in DOMAIN NoParams |-> IF f \in DOMAIN wire THEN wire[f] ELSE NoParams[f]]

\* longest edge, 0 for that of the source; quality, 0 for a lossless format;
\* sigma of the blur, 0 without
Result(name, type, edge, quality, sigma) ==
  [name |-> name, type |-> <<"image", type>>, edge |-> edge, quality |-> quality, sigma |-> sigma]

Resize(edge, format, quality) ==
  IF format \in {"png", "webp"} THEN Result("resized", format, edge, 0, 0)
  ELSE Result("resized", "jpeg", edge, Positive(quality, 85), 0)

Thumbnail(size) == Result("thumbnail", "png", size, 0, 0)

WebP(edge) == Result("webp", "webp", edge, 0, 0)

Grayscale == Result("grayscale", "png", 0, 0, 0)

Blur(sigma) == Result("blur", "png", 0, 0, Positive(sigma, 30))

Operations == {"resize", "thumbnail", "webp", "grayscale", "blur"}

Known(op) == op \in {Plain(o) : o \in Operations}

Apply(op, options, params) ==
  LET edge == Positive(params.resize_max_dim, options.resize_max_dim)
      size == Positive(params.thumbnail_size, options.thumbnail_size)
  IN  CASE op = "resize"    -> Resize(edge, params.resize_format, params.quality)
        [] op = "thumbnail" -> Thumbnail(size)
        [] op = "webp"      -> WebP(edge)
        [] op = "grayscale" -> Grayscale
        [] op = "blur"      -> Blur(params.blur_sigma)

\* Mutant of Process: the first unknown operation ends the loop.
ProcessUntilUnknown(operations, options, params) ==
  LET upTo == {i \in 1..Len(operations) : \A k \in 1..i : Known(operations[k])}
  IN  [i \in upTo |-> Apply(operations[i].word, options, params)]

\* The results in the order of the operations, unknown ones left out.
Process(operations, options, params) ==
  LET known == Only(operations, {i \in DOMAIN operations : Known(operations[i])})
  IN  [i \in 1..Len(known) |-> Apply(known[i].word, options, params)]

\* Process returns an error, and no result, when the source does not decode
\* or one of the results does not encode.
Fails(source, operations) ==
  \/ ~source.decodes
  \/ \E i \in 1..Len(operations) :
       Known(operations[i]) /\ operations[i].word \in source.unencodable

ArtifactFilename(r) ==
  <<r.name, CASE r.type = <<"image", "png">>  -> "png"
              [] r.type = <<"image", "webp">> -> "webp"
              [] OTHER -> "jpg">>

====
