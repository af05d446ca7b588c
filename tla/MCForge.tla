---- MODULE MCForge ----
(***************************************************************************)
(* Forms that exercise the routing, the operations and the parameters, one *)
(* aspect at a time around an ordinary upload.                             *)
(***************************************************************************)
EXTENDS Forge

Good == [decodes |-> TRUE, unencodable |-> {}]
Broken == [decodes |-> FALSE, unencodable |-> {}]
NoBlur == [decodes |-> TRUE, unencodable |-> {"blur"}]

Ordinary ==
  [authorization |-> <<"Bearer", "secret">>, kind |-> Plain(""),
   filename |-> <<Plain("photo"), Plain("png")>>, type |-> NoType,
   operations |-> <<Plain("")>>,
   resize_max_dim |-> Absent, thumbnail_size |-> Absent, resize_format |-> Plain(""),
   quality |-> Absent, blur_sigma |-> Absent, source |-> Good]

Headers == {<<"Bearer", "secret">>, <<"secret">>, <<"Basic", "secret">>, <<"">>}
Kinds == {Plain(""), Text("", FALSE, TRUE), Text("image", TRUE, FALSE), Text("ocr", TRUE, FALSE),
          Text("ocr", FALSE, TRUE), Plain("image"), Plain("ocr"), Plain("video")}
Names == {<<Plain("scan")>>, <<Plain("a"), Plain("pdf"), Plain("png")>>}
         \cup {<<Plain("a"), Text(e, up, FALSE)>> : e \in {"pdf", "tiff", "jpg", "txt"},
                                                 up \in BOOLEAN}
Types == {NoType, OctetStream, <<"image", "svg+xml">>, <<"application", "pdf">>, <<"text", "plain">>}

RoutingForms ==
  {[Ordinary EXCEPT !.authorization = h, !.kind = k, !.filename = n, !.type = t] :
     h \in Headers, k \in Kinds, n \in Names, t \in Types}

Pieces == {Plain(""), Text("", FALSE, TRUE), Plain("resize"), Text("blur", FALSE, TRUE),
           Text("webp", TRUE, FALSE), Plain("rotate"), Plain("grayscale")}

OperationForms ==
  {[Ordinary EXCEPT !.operations = ops, !.source = s] :
     ops \in UNION {[1..n -> Pieces] : n \in 1..3}, s \in {Good, Broken, NoBlur}}

AllOperations == <<Plain("resize"), Plain("thumbnail"), Plain("webp"), Plain("grayscale"),
                   Plain("blur"), Plain("resize")>>

ParameterForms ==
  {[Ordinary EXCEPT !.operations = AllOperations, !.resize_max_dim = d, !.thumbnail_size = s,
                    !.resize_format = f, !.quality = q, !.blur_sigma = b] :
     d \in {Absent, Junk, 15, 16, 8000, 8001}, s \in {Absent, -1, 16, 2000, 2001},
     f \in {Plain(""), Text("png", TRUE, TRUE), Plain("webp"), Plain("gif")},
     q \in {Absent, 0, 1, 100, 101}, b \in {Junk, 4, 5, 200, 201}}

ManyForms == RoutingForms \cup OperationForms \cup ParameterForms

\* Only leaves out what SelectSeq leaves out.
ASSUME OnlySelects ==
  \A s \in UNION {[1..n -> 1..3] : n \in 0..4}, kept \in SUBSET (1..3) :
    Only(s, {k \in DOMAIN s : s[k] \in kept}) = SelectSeq(s, LAMBDA x : x \in kept)

SomeEnvironments ==
  {[thumbnail_size |-> t, resize_max_dim |-> d] : t \in {Absent, 0, 128}, d \in {Junk, -5, 32}}

====
