--------------------------- MODULE MCDocumentReads ---------------------------
(***************************************************************************)
(* Small instances of DocumentReads: one field of each type of column, the *)
(* annotations with one key, and all filters of one operator over them,    *)
(* with pairs and some triples under the logical operators.                *)
(***************************************************************************)
EXTENDS DocumentReads, FiniteSetsExt, TLC

MCTextOrder == <<"", "1", "2026-01-01T00:00:00Z", "7c1e", "red", "true">>
MCPlainTexts == Range(MCTextOrder) \cup {"color", "hue", "nosuch"}
MCUuidTexts == {"7c1e"}
MCTimestampTexts == [t \in {"2026-01-01T00:00:00Z"} |-> 1]
MCNumericTexts == [t \in {"0", "1", "2"} |-> CHOOSE n \in 0 .. 2 : ToString(n) = t]
MCDecimalTexts == [n \in 0 .. 2 |-> ToString(n)]
MCBooleanTexts == [t \in {"0", "1", "false", "true"} |-> t \in {"1", "true"}]

MCFieldMap ==
  (<<"id">> :> Column("id", "uuid")) @@
  (<<"meta", "annotations">> :> Column("annotations", "jsonb")) @@
  (<<"meta", "finalizers">> :> Column("finalizers", "array")) @@
  (<<"fileUploadCompleted">> :> Column("file_upload_completed", "boolean")) @@
  (<<"fileMimeType">> :> Column("file_mime_type", "text")) @@
  (<<"fileSizeBytes">> :> Column("file_size_bytes", "integer")) @@
  (<<"meta", "deletedAt">> :> Column("deleted_at", "timestamptz"))

\* The version is in no field.
MCAllColumns == Range(MCFieldMap) \cup {Column("version", "integer")}

\* Two texts that JSON has to escape: between quotes, the first is not JSON
\* and the second is read as an "a" and a tab.
Quoted == "\"a\""
Backslashed == "a\\t"
Unescaped == "a\t"

Json(type, value) == [type |-> type, value |-> value]

MCOtherQueries ==
  jsonQuery("color", Literal("text", Backslashed)) :>
    ("color" :> Json("list", {Json("string", Unescaped)}))

-----------------------------------------------------------------------------
Meta(field) == Select(Ident("meta"), field)
Annotation(key) == Select(Meta("annotations"), key)

TypedFields ==
  {Ident("id"), Meta("annotations"), Meta("finalizers"), Ident("fileUploadCompleted"),
   Ident("fileMimeType"), Ident("fileSizeBytes"), Meta("deletedAt"), Annotation("color")}

OddOperands ==
  {Ident("nosuch"), Ident("meta"), Select(Annotation("color"), "hue"),
   Has(Meta("annotations"), "color"), Call("size", <<Ident("fileMimeType")>>)}

Constants ==
  {Const("string", text) : text \in {"", "1", "7c1e", "red", "2026-01-01T00:00:00Z"}}
    \cup {Const("int", n) : n \in 0 .. 2}
    \cup {Const("bool", b) : b \in BOOLEAN}
    \cup {Const("double", 1)}

Simple(lefts, rights, functions) ==
  {Call(f, <<l, r>>) : f \in functions, l \in lefts, r \in rights}

MCComparisons ==
  Simple(TypedFields \cup OddOperands, Constants \cup {Ident("nosuch"), Ident("fileMimeType")}, Comparisons)

Lists ==
  {List(<<a>>) : a \in Constants \cup {Ident("nosuch")}}
    \cup {List(<<a, b>>) : a, b \in {Const("string", "red"), Const("string", "7c1e"), Const("int", 1)}}

MCMemberships ==
  Simple(TypedFields \cup OddOperands, Lists, {"@in"})
    \cup Simple(Constants \cup {Ident("nosuch")}, TypedFields \cup OddOperands, {"@in"})
    \cup Simple({Const("string", Quoted), Const("string", Backslashed)}, {Annotation("color")}, {"@in"})

\* What the parts of larger filters can do: be true or false, lack a
\* value, fail in PostgreSQL, be refused, panic.
Pieces ==
  {Call("_==_", <<Ident("fileMimeType"), Const("string", "red")>>),
   Call("_<=_", <<Ident("fileSizeBytes"), Const("int", 1)>>),
   Call("_>_", <<Meta("deletedAt"), Const("int", 0)>>),
   Call("_==_", <<Annotation("color"), Const("string", "red")>>),
   Call("_>=_", <<Annotation("color"), Const("int", 1)>>),
   Call("@in", <<Const("string", "red"), Annotation("color")>>),
   Call("_==_", <<Ident("nosuch"), Const("int", 1)>>),
   Call("_==_", <<Annotation("color"), Ident("nosuch")>>),
   Call("!_", <<Ident("fileUploadCompleted")>>)}

Junctions(lefts, rights) == Simple(lefts, rights, {"_&&_", "_||_"})

MCFilters ==
  MCComparisons \cup MCMemberships \cup Junctions(Pieces, Pieces)
    \cup Junctions(Junctions({p \in Pieces : p.function \in {"_<=_", "_>_"}}, Pieces), Pieces)
    \cup {Ident("fileUploadCompleted"), Const("bool", TRUE), Call("!_", <<Ident("fileUploadCompleted")>>)}

\* The filters are at most five operators and selections deep.
WithParts(S) == S \cup UNION {Parts(e) : e \in S}
Trees == WithParts(WithParts(WithParts(WithParts(WithParts(MCFilters)))))
DepthOf[e \in Trees] ==
  IF Parts(e) = {} THEN 0 ELSE 1 + Max({DepthOf[part] : part \in Parts(e)})

\* TLC evaluates the definition of a constant anew wherever the constant is
\* used, but these two only once.
MCExpressions == Trees
MCDepth == DepthOf

-----------------------------------------------------------------------------
Annotations ==
  {<<>>} \cup
  {"color" :> v : v \in {Json("string", "red"), Json("string", "1"), Json("int", 1), Json("bool", TRUE),
                         Json("list", {Json("string", "red")}),
                         Json("list", {Json("string", Quoted), Json("string", Backslashed)}),
                         Json("list", {Json("string", Unescaped)})}}

RowOf(annotations, mime, size, completed, deleted) ==
  [id |-> "7c1e", annotations |-> annotations, finalizers |-> {"red"},
   file_upload_completed |-> completed, file_mime_type |-> mime,
   file_size_bytes |-> size, deleted_at |-> deleted]

MCRows ==
  {RowOf(a, "red", 1, TRUE, Null) : a \in Annotations}
    \cup {RowOf(a, "1", 2, FALSE, 1) : a \in {<<>>, "color" :> Json("string", "red")}}
    \cup {RowOf(<<>>, "", 0, TRUE, 0)}

MCMasks == {NoMask, MaskOf(<<Path(<<"id">>)>>)}

\* Known, repeated, padded, blank and unknown texts; no filter.
MCTexts ==
  {Path(<<"id">>), Path(<<"meta", "annotations">>), Padded(<<"id">>), Path(<<>>), Path(<<"nosuch">>)}
MCEveryMask ==
  {NoMask, EveryField} \cup {MaskOf(<<t>>) : t \in MCTexts} \cup {MaskOf(<<t, u>>) : t, u \in MCTexts}

=============================================================================
