---- MODULE JobForm ----
(***************************************************************************)
(* What the gateway makes of an upload form (services/api-gateway,         *)
(* internal/httpapi and internal/media): the kind, the content type, the   *)
(* operations and the parameters of a job.  Junk is dropped here and never *)
(* rejected, and 0 stands for "not given" from here on.                    *)
(***************************************************************************)
EXTENDS Integers, Sequences, Filter

CONSTANTS
  Absent, \* a numeric field that is missing or blank
  Junk    \* a numeric field that does not parse, or that compares with nothing (NaN)

\* What a numeric field may hold.
Number == Int \cup {Absent, Junk}

\* Text as far as trimming, lower-casing and comparing can tell it apart.
Texts == [word : STRING, upper : BOOLEAN, padded : BOOLEAN]
Text(word, upper, padded) == [word |-> word, upper |-> upper, padded |-> padded]
Plain(word) == Text(word, FALSE, FALSE)
ToLower(t) == [t EXCEPT !.upper = FALSE]
TrimSpace(t) == [t EXCEPT !.padded = FALSE]

KindImage == Plain("image")
KindOCR == Plain("ocr")

\* Mutant of Valid: any kind that is named.
ValidIfNamed(kind) == kind.word # ""

Valid(kind) == kind \in {KindImage, KindOCR}

RoutingKey(kind) == IF kind = KindOCR THEN "ocr.extract" ELSE "image.process"

\* A file name is the sequence of its parts between dots; the extension is
\* the last one, if there is a dot.
Ext(filename) == IF Len(filename) > 1 THEN filename[Len(filename)] ELSE Plain("")

ResolveKind(explicit, filename) ==
  IF explicit # Plain("") THEN ToLower(explicit)
  ELSE IF ToLower(Ext(filename)) \in {Plain("pdf"), Plain("tif"), Plain("tiff")}
       THEN KindOCR ELSE KindImage

\* Content types are pairs; a form without one has NoType.
NoType == <<"", "">>
OctetStream == <<"application", "octet-stream">>

TypeOfExt ==
  [png |-> <<"image", "png">>, jpg |-> <<"image", "jpeg">>, jpeg |-> <<"image", "jpeg">>,
   webp |-> <<"image", "webp">>, pdf |-> <<"application", "pdf">>]

DetectContentType(header, filename) ==
  LET ext == ToLower(Ext(filename)) IN
    IF header \notin {NoType, OctetStream} THEN header
    ELSE IF ext.word \in DOMAIN TypeOfExt /\ ~ext.padded THEN TypeOfExt[ext.word]
    ELSE OctetStream

DecodableImage(type) == type[1] = "image" \/ type = OctetStream

\* raw is the field split at its commas; a blank field asks for the default.
ParseOperations(raw) ==
  IF Len(raw) = 1 /\ TrimSpace(raw[1]) = Plain("")
  THEN <<Plain("resize"), Plain("thumbnail"), Plain("webp")>>
  ELSE LET trimmed == [i \in 1..Len(raw) |-> TrimSpace(raw[i])]
       IN  Only(trimmed, {i \in DOMAIN trimmed : trimmed[i] # Plain("")})

----
(***************************************************************************)
(* parseParams.  The blur sigma is counted in tenths.                      *)
(***************************************************************************)

NoParams == [resize_max_dim |-> 0, thumbnail_size |-> 0, resize_format |-> "",
             quality |-> 0, blur_sigma |-> 0]

\* Mutant of Within: the upper bound is excluded.
WithinOpen(v, low, high) ==
  IF v \notin {Absent, Junk} /\ v >= low /\ v < high THEN v ELSE 0

\* formInt or formFloat, and the range test that follows it.
Within(v, low, high) ==
  IF v \notin {Absent, Junk} /\ v >= low /\ v <= high THEN v ELSE 0

ParseFormat(t) ==
  LET format == ToLower(TrimSpace(t)) IN
    IF format.word \in {"jpeg", "png", "webp"} THEN format.word ELSE ""

\* nil when the form gives nothing usable, which NoParams stands for as well.
ParseParams(form) ==
  [resize_max_dim |-> Within(form.resize_max_dim, 16, 8000),
   thumbnail_size |-> Within(form.thumbnail_size, 16, 2000),
   resize_format  |-> ParseFormat(form.resize_format),
   quality        |-> Within(form.quality, 1, 100),
   blur_sigma     |-> Within(form.blur_sigma, 5, 200)]

\* The JSON of the parameters: omitempty leaves out every zero, and a nil
\* pointer leaves out them all.
Encode(params) == [f \in {f \in DOMAIN NoParams : params[f] # NoParams[f]} |-> params[f]]

====
