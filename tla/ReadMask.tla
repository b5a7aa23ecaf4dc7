------------------------------ MODULE ReadMask ------------------------------
(***************************************************************************)
(* From the header that says which fields a client wants to read to the    *)
(* columns that are selected.  The header is absent, "*", or a list of     *)
(* texts; a text is a path, <<>> for a blank one, with or without spaces   *)
(* around it.                                                              *)
(***************************************************************************)
EXTENDS Naturals, Sequences, Functions

Path(fields) == [path |-> fields, padded |-> FALSE]
Padded(fields) == [path |-> fields, padded |-> TRUE]

NoMask == [kind |-> "none"]
EveryField == [kind |-> "all"]
MaskOf(texts) == [kind |-> "list", texts |-> texts]

\* nil, the list of no particular fields.
Nil == [kind |-> "nil"]
Fields(texts) == [kind |-> "fields", texts |-> texts]

\* strings.TrimSpace, and what it leaves nothing of is dropped.
Trimmed(texts) ==
  LET NotBlank(t) == t.path # <<>>
      Trim(t) == Path(t.path)
      kept == SelectSeq(texts, NotBlank)
  IN  [i \in DOMAIN kept |-> Trim(kept[i])]

\* The trimmed paths are computed, and the texts as they came are returned.
ExtractReadMask(header) == IF header.kind = "list" THEN Fields(header.texts) ELSE Nil

Columns(columns) == [outcome |-> "columns", columns |-> columns]
UnknownFieldsError(texts) == [outcome |-> "unknown", fields |-> texts]

\* A text is looked up as it is.
IsKnown(text, mapping) == ~text.padded /\ text.path \in DOMAIN mapping

\* Each known field once; but every field counts as unknown as well.
BuildProjection(fields, mapping, fallback) ==
  IF fields = Nil THEN Columns(fallback)
  ELSE LET known == {t \in Range(fields.texts) : IsKnown(t, mapping)}
           unknownFields == fields.texts
       IN  IF unknownFields # <<>> THEN UnknownFieldsError(unknownFields)
           ELSE Columns({mapping[t.path] : t \in known})

\* An empty projection selects everything, too.
buildProjection(fields, mapping, allColumns) ==
  LET projection == BuildProjection(fields, mapping, allColumns)
  IN  IF projection = Columns({}) THEN Columns(allColumns) ELSE projection

=============================================================================
