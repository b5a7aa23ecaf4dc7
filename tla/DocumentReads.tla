---------------------------- MODULE DocumentReads ----------------------------
(***************************************************************************)
(* ListDocuments and GetDocument for one row of the table: the query is    *)
(* built from the read mask and the filter, PostgreSQL runs it, and the    *)
(* client is answered.  A domain error keeps its kind inside the service   *)
(* and reaches the client without it.                                      *)
(***************************************************************************)
EXTENDS ReadMask, FilterMeaning

CONSTANTS
  AllColumns,    \* all columns of the table
  Masks,         \* the headers of requests
  Filters,       \* the filters, as syntax trees
  NoFilter       \* the empty filter

ASSUME FiltersAssumption ==
  /\ Filters \subseteq Expressions
  /\ NoFilter \notin Filters
  /\ Range(FieldMap) \subseteq AllColumns

VARIABLES
  request,  \* what the client asks
  row,      \* the row of the table
  stage,    \* what the handler does next
  query,    \* the statement it has built
  answer    \* what the client gets

vars == <<request, row, stage, query, answer>>

Requests ==
  [method : {"ListDocuments"}, mask : Masks, filter : Filters \cup {NoFilter}]
    \cup [method : {"GetDocument"}, mask : Masks, filter : {NoFilter}]

Nothing == [kind |-> "nothing"]
Documents(found, columns) == [kind |-> "documents", found |-> found, columns |-> columns]
ErrorKind(kind) == [kind |-> "error", error |-> kind]
\* The goroutine panicked: net/http closes the connection without an answer.
Aborted == [kind |-> "aborted"]

Init ==
  /\ request \in Requests
  /\ row \in Rows
  /\ stage = "build"
  /\ query = Nothing
  /\ answer = Nothing

-----------------------------------------------------------------------------
projection == buildProjection(ExtractReadMask(request.mask), FieldMap, AllColumns)
condition == walkAST[request.filter]

Return(result) == stage' = "answered" /\ answer' = result

\* The mask comes before the filter.  GetDocument does not tell the
\* client's mistake from the server's.
RefuseMask ==
  /\ stage = "build"
  /\ projection.outcome = "unknown"
  /\ Return(ErrorKind(IF request.method = "ListDocuments" THEN "INVALID_ARGUMENT" ELSE "INTERNAL"))
  /\ UNCHANGED <<request, row, query>>

RefuseFilter ==
  /\ stage = "build"
  /\ projection.outcome = "columns"
  /\ request.filter # NoFilter
  /\ \/ /\ condition.outcome = "refused"
        /\ Return(ErrorKind("INTERNAL"))
     \/ /\ condition.outcome = "panicked"
        /\ Return(Aborted)
  /\ UNCHANGED <<request, row, query>>

\* The error of the mask is dropped, and all columns are selected.
BuildQuery_IgnoresMask ==
  /\ stage = "build"
  /\ \/ /\ request.filter = NoFilter
        /\ query' = [kind |-> "select", columns |-> AllColumns]
     \/ /\ request.filter # NoFilter
        /\ condition.outcome = "built"
        /\ query' = [kind |-> "filtered", columns |-> AllColumns, where |-> condition.expr]
  /\ stage' = "query"
  /\ UNCHANGED <<request, row, answer>>

BuildQuery ==
  /\ stage = "build"
  /\ projection.outcome = "columns"
  /\ \/ /\ request.filter = NoFilter
        /\ query' = [kind |-> "select", columns |-> projection.columns]
     \/ /\ request.filter # NoFilter
        /\ condition.outcome = "built"
        /\ query' = [kind |-> "filtered", columns |-> projection.columns, where |-> condition.expr]
  /\ stage' = "query"
  /\ UNCHANGED <<request, row, answer>>

\* The truths the row may have under the statement's WHERE.
Truths == IF query.kind = "filtered" THEN SqlTruths[query.where][row] ELSE {"true"}

Query ==
  /\ stage = "query"
  /\ \E truth \in Truths :
       Return(IF truth = "failure" THEN ErrorKind("INTERNAL")
              ELSE Documents(truth = "true", query.columns))
  /\ UNCHANGED <<request, row, query>>

\* The database is out of reach, or GetDocument does not find its row.
QueryFails ==
  /\ stage = "query"
  /\ Return(ErrorKind("INTERNAL"))
  /\ UNCHANGED <<request, row, query>>

Next == RefuseMask \/ RefuseFilter \/ BuildQuery \/ Query \/ QueryFails

Spec == Init /\ [][Next]_vars

-----------------------------------------------------------------------------
(* Types; and a column whose values PostgreSQL has to parse is compared    *)
(* only with literals that were parsed before (mapUUIDOperations,          *)
(* createSQLInList).                                                       *)
LiteralsOf[c \in Conditions] ==
  CASE IsJunction(c) -> LiteralsOf[c.left] \cup LiteralsOf[c.right]
    [] c.sql = "in" -> c.literals
    [] c.sql = "contains" -> {c.query.literal}
    [] OTHER -> {c.literal}

TypeOK ==
  /\ request \in Requests
  /\ row \in Rows
  /\ stage \in {"build", "query", "answered"}
  /\ query.kind = "filtered" =>
       \A l \in LiteralsOf[query.where] : l.type = "uuid" => l.value \in UuidTexts
  /\ answer.kind = "documents" => answer.columns \subseteq AllColumns

(* A filter that compares values of one type, and looks in lists only for  *)
(* texts that JSON need not escape, selects exactly the rows of which it   *)
(* is true, and cannot make the statement fail: the translation keeps      *)
(* operators, operands and nesting, and SQL's NULL takes the place of      *)
(* CEL's error for keys that are not there (walkAST).                      *)
SelectsWhatTheFilterMeans ==
  query.kind = "filtered" /\ CelTruth[request.filter][row] # "unclaimed" =>
    /\ "failure" \notin Truths
    /\ Truths = {"true"} <=> CelTruth[request.filter][row] = "true"

(* The inductive invariant: the statement that runs, and the answer, were   *)
(* made from this request, its columns from the mask (buildProjection) and *)
(* its condition from the filter (BuildExpression).                        *)
Invariant ==
  /\ request \in Requests
  /\ row \in Rows
  /\ stage \in {"build", "query", "answered"}
  /\ stage = "query" => query.kind \in {"select", "filtered"}
  /\ query.kind \in {"select", "filtered"} =>
       projection.outcome = "columns" /\ query.columns = projection.columns
  /\ query.kind = "filtered" =>
       /\ request.filter # NoFilter
       /\ condition.outcome = "built"
       /\ query.where = condition.expr
  /\ answer.kind = "documents" =>
       projection.outcome = "columns" /\ answer.columns = projection.columns

-----------------------------------------------------------------------------
(* What comments say and the code does not do.                             *)

\* The fields a mask asks for, if it asks for any and knows them all.
MaskIsKnown ==
  /\ request.mask.kind = "list"
  /\ Trimmed(request.mask.texts) # <<>>
  /\ \A t \in Range(Trimmed(request.mask.texts)) : IsKnown(t, FieldMap)

RequestedColumns ==
  {FieldMap[t.path] : t \in Range(Trimmed(request.mask.texts))}

(* A list with a mask of known fields projects the requested ones          *)
(* (DocumentRepository.ListDocuments).                                     *)
RequestedFieldsAreProjected ==
  request.method = "ListDocuments" /\ MaskIsKnown =>
    /\ answer # ErrorKind("INVALID_ARGUMENT")
    /\ answer.kind = "documents" => answer.columns = RequestedColumns

\* The identifiers of a filter, those in lists included.
Identifiers[e \in Expressions] ==
  IF e.kind = "ident" THEN {e.name} ELSE UNION {Identifiers[part] : part \in Parts(e)}

(* Identifiers that are not in the map are rejected (FilterBuilder): a     *)
(* filter that has one is answered with an error, no query is built from   *)
(* it, and the handler survives it (createComparison, createSQLInList,     *)
(* createJSONComparison).                                                  *)
UnknownIdentifiersAreRejected ==
  /\ request.filter # NoFilter
  /\ ~ Identifiers[request.filter] \subseteq {Head(path) : path \in DOMAIN FieldMap}
  => query = Nothing /\ answer # Aborted

(* A membership under a key is "used to test whether a JSON array stored   *)
(* under column.key contains the given value" (createJSONContains),        *)
(* whatever that value is.                                                 *)
MembershipTestsTheGivenValue ==
  LET left == request.filter.args[1]
      right == request.filter.args[2]
  IN  /\ query.kind = "filtered"
      /\ WellTyped(request.filter, row)
      /\ request.filter.function = "@in" /\ right.kind = "select"
      => Truths = {Truth(CelContains(left, right, row) = "true")}

=============================================================================
