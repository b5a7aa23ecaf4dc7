------------------------- MODULE DocumentReadsProofs -------------------------
(***************************************************************************)
(* ListDocuments and GetDocument answer with the rows the filter is true   *)
(* of and with columns of the table, and with no documents at all when     *)
(* the client names the fields it wants.                                   *)
(***************************************************************************)
EXTENDS DocumentReads, FilterProofs

-----------------------------------------------------------------------------
(* The literals of a condition.                                            *)
LiteralsStep(literals, c) ==
  CASE IsJunction(c) -> literals[c.left] \cup literals[c.right]
    [] c.sql = "in" -> c.literals
    [] c.sql = "contains" -> {c.query.literal}
    [] OTHER -> {c.literal}

Lits == INSTANCE TreeRecursion WITH S <- Conditions, D <- ConditionDepth, Step <- LiteralsStep

(* LiteralsOf satisfies its equation.                                      *)
LEMMA LiteralsAreDefined == LiteralsOf = [c \in Conditions |-> LiteralsStep(LiteralsOf, c)]
<1>. DEFINE Solves(f) ==
       f = [c \in Conditions |->
              CASE IsJunction(c) -> f[c.left] \cup f[c.right]
                [] c.sql = "in" -> c.literals
                [] c.sql = "contains" -> {c.query.literal}
                [] OTHER -> {c.literal}]
<1>1. Lits!IsLocal
  BY ConditionSides DEF Lits!IsLocal, LiteralsStep
<1>2. \E f : f = [c \in Conditions |-> LiteralsStep(f, c)]
  BY <1>1, ConditionDepthType, Lits!Exists
<1>3. \E f : Solves(f)
  BY <1>2 DEF LiteralsStep
<1>4. LiteralsOf = CHOOSE f : Solves(f)
  BY DEF LiteralsOf
<1>5. Solves(LiteralsOf)
  <2>. HIDE DEF Solves
  <2>. QED BY <1>3, <1>4
<1>. QED BY <1>5 DEF LiteralsStep

\* PostgreSQL has no text to parse that uuid.Parse has not parsed before.
Parsed(literal) == literal.type = "uuid" => literal.value \in UuidTexts

(* UUIDs are parsed when a constant becomes a literal of a column.         *)
LEMMA ColumnLiteralsAreParsed ==
  ASSUME NEW column, NEW const, NEW l \in ColumnLiterals(column, const)
  PROVE  Parsed(l)
BY DEF ColumnLiterals, Literal, Parsed, Texts

(* A constant by itself is no UUID.                                        *)
LEMMA ConstantsAreParsed ==
  ASSUME NEW const, NEW l \in constToExpr(const)
  PROVE  Parsed(l)
BY DEF constToExpr, Literal, Parsed

\* The literals of a condition other than AND and OR.
OwnLiterals(c) ==
  CASE c.sql = "in" -> c.literals
    [] c.sql = "contains" -> {c.query.literal}
    [] OTHER -> {c.literal}

(* No operator compares with a text that was not parsed.                   *)
LEMMA SimpleLiteralsAreParsed ==
  ASSUME NEW e, parseCall(e).outcome = "built",
         NEW l \in OwnLiterals(parseCall(e).expr)
  PROVE  Parsed(l)
<1>1. ASSUME NEW op, NEW column, NEW const,
             mapColumnComparison(op, column, const).outcome = "built",
             NEW x \in OwnLiterals(mapColumnComparison(op, column, const).expr)
      PROVE  Parsed(x)
  <2>1. x \in ColumnLiterals(column, const)
    BY <1>1 DEF mapColumnComparison, OwnLiterals, Built, Refused, Comparison
  <2>. QED BY <2>1, ColumnLiteralsAreParsed
<1>2. ASSUME NEW op, NEW column, NEW key, NEW const,
             createJSONComparison(op, column, key, const).outcome = "built",
             NEW x \in OwnLiterals(createJSONComparison(op, column, key, const).expr)
      PROVE  Parsed(x)
  <2>1. x \in constToExpr(const)
    BY <1>2 DEF createJSONComparison, OwnLiterals, Built, Refused, Panicked, JsonComparison
  <2>. QED BY <2>1, ConstantsAreParsed
<1>3. ASSUME NEW left, NEW elements,
             createSQLInList(left, elements).outcome = "built",
             NEW x \in OwnLiterals(createSQLInList(left, elements).expr)
      PROVE  Parsed(x)
  <2>1. \E const \in Range(elements) :
          x \in ColumnLiterals(FieldMap[extractPath[left]], const)
    BY <1>3 DEF createSQLInList, OwnLiterals, Built, Refused, InList
  <2>. QED BY <2>1, ColumnLiteralsAreParsed
<1>4. ASSUME NEW left, NEW column,
             createNativeArrayContains(left, column).outcome = "built",
             NEW x \in OwnLiterals(createNativeArrayContains(left, column).expr)
      PROVE  Parsed(x)
  <2>1. x \in constToExpr(left)
    BY <1>4 DEF createNativeArrayContains, OwnLiterals, Built, Refused, AnyOf
  <2>. QED BY <2>1, ConstantsAreParsed
<1>5. ASSUME NEW left, NEW select,
             createJSONContains(select, left).outcome = "built",
             NEW x \in OwnLiterals(createJSONContains(select, left).expr)
      PROVE  Parsed(x)
  <2>1. x \in constToExpr(left)
    BY <1>5 DEF createJSONContains, OwnLiterals, Built, Refused, Panicked, HasElements, jsonQuery
  <2>. QED BY <2>1, ConstantsAreParsed
<1>6. ASSUME NEW left, NEW right,
             parseInOperator(left, right).outcome = "built",
             NEW x \in OwnLiterals(parseInOperator(left, right).expr)
      PROVE  Parsed(x)
  BY <1>3, <1>4, <1>5, <1>6 DEF parseInOperator, Refused
<1>7. ASSUME NEW op, NEW left, NEW right,
             createComparison(op, left, right).outcome = "built",
             NEW x \in OwnLiterals(createComparison(op, left, right).expr)
      PROVE  Parsed(x)
  BY <1>1, <1>2, <1>7 DEF createComparison, Refused
<1>. QED BY <1>6, <1>7 DEF parseCall, Refused

(* No condition compares with a text that was not parsed.                  *)
LEMMA LiteralsAreParsed == \A c \in Conditions : \A l \in LiteralsOf[c] : Parsed(l)
<1>. DEFINE T == {c \in Conditions : \A l \in LiteralsOf[c] : Parsed(l)}
<1>1. ASSUME NEW c \in Conditions,
             \A x \in Conditions : ConditionDepth[x] < ConditionDepth[c] => x \in T
      PROVE  c \in T
  <2>1. CASE IsJunction(c)
    <3>1. c.left \in T /\ c.right \in T
      BY <1>1, <2>1, ConditionSides
    <3>2. LiteralsOf[c] = LiteralsOf[c.left] \cup LiteralsOf[c.right]
      BY <2>1, LiteralsAreDefined DEF LiteralsStep, IsJunction
    <3>. QED BY <3>1, <3>2
  <2>2. CASE ~IsJunction(c)
    <3>1. PICK e \in Expressions : walkAST[e].outcome = "built" /\ walkAST[e].expr = c
      BY DEF Conditions
    <3>2. ~IsLogical(e)
      BY <2>2, <3>1, WalkIsDefined DEF WalkStep, parseLogical, Built, And, Or, IsJunction
    <3>3. walkAST[e] = parseCall(e)
      BY <3>2, WalkIsDefined DEF WalkStep
    <3>4. LiteralsOf[c] = OwnLiterals(c)
      BY <2>2, LiteralsAreDefined DEF LiteralsStep, OwnLiterals
    <3>. QED BY <3>1, <3>3, <3>4, SimpleLiteralsAreParsed
  <2>. QED BY <2>1, <2>2
<1>2. Conditions \subseteq T
  <2>. HIDE DEF T
  <2>. QED BY <1>1, ConditionDepthType, Lits!Induction
<1>. QED BY <1>2

-----------------------------------------------------------------------------
(* Masks.                                                                  *)

(* What is selected are columns of the table (BuildProjection).            *)
LEMMA ProjectionIsOfTable ==
  ASSUME NEW mask, NEW projected,
         projected = buildProjection(ExtractReadMask(mask), FieldMap, AllColumns),
         projected.outcome = "columns"
  PROVE  projected.columns \subseteq AllColumns
<1>. DEFINE built == BuildProjection(ExtractReadMask(mask), FieldMap, AllColumns)
<1>1. built.outcome = "columns" => built.columns \subseteq AllColumns
  BY FiltersAssumption DEF BuildProjection, Columns, UnknownFieldsError, IsKnown, Range
<1>. QED BY <1>1 DEF buildProjection, Columns

(* A mask that names any field is refused, known fields or not             *)
(* (BuildProjection).                                                      *)
LEMMA NamedFieldsAreUnknown ==
  ASSUME NEW mask, mask.kind = "list", mask.texts # <<>>
  PROVE  buildProjection(ExtractReadMask(mask), FieldMap, AllColumns).outcome = "unknown"
BY DEF buildProjection, BuildProjection, ExtractReadMask, Nil, Fields, Columns, UnknownFieldsError

-----------------------------------------------------------------------------
(* Steps.                                                                  *)

(* The inductive invariant: the statement is the request's own.            *)
THEOREM InvariantHolds == Spec => []Invariant
<1>1. Init => Invariant
  BY DEF Init, Invariant, Nothing
<1>2. Invariant /\ [Next]_vars => Invariant'
  <2>. SUFFICES ASSUME Invariant, [Next]_vars PROVE Invariant'
    OBVIOUS
  <2>. USE DEF Invariant
  <2>1. CASE RefuseMask
    BY <2>1 DEF RefuseMask, Return, ErrorKind, Requests, projection, condition
  <2>2. CASE RefuseFilter
    BY <2>2 DEF RefuseFilter, Return, ErrorKind, Aborted, Requests, projection, condition
  <2>3. CASE BuildQuery
    BY <2>3 DEF BuildQuery, projection, condition
  <2>4. CASE Query
    <3>1. PICK truth : Return(IF truth = "failure" THEN ErrorKind("INTERNAL")
                              ELSE Documents(truth = "true", query.columns))
      BY <2>4 DEF Query
    <3>. QED BY <2>4, <3>1 DEF Query, Return, ErrorKind, Documents, projection, condition
  <2>5. CASE QueryFails
    BY <2>5 DEF QueryFails, Return, ErrorKind, projection, condition
  <2>6. CASE UNCHANGED vars
    BY <2>6 DEF vars, projection, condition
  <2>. QED BY <2>1, <2>2, <2>3, <2>4, <2>5, <2>6 DEF Next
<1>. QED BY <1>1, <1>2, PTL DEF Spec

(* A filtered statement's condition is the translation of the request's    *)
(* filter.                                                                 *)
LEMMA WhereIsTheFilter ==
  ASSUME Invariant, query.kind = "filtered"
  PROVE  /\ request.filter \in Expressions
         /\ walkAST[request.filter].outcome = "built"
         /\ query.where = walkAST[request.filter].expr
         /\ query.where \in Conditions
<1>1. request.filter \in Filters
  BY DEF Invariant, Requests
<1>. QED BY <1>1, FiltersAssumption DEF Invariant, condition, Conditions

(* Types hold in every state; and no statement compares a column of UUIDs  *)
(* with a text that is none (mapUUIDOperations, createSQLInList).          *)
THEOREM TypeCorrect == Spec => []TypeOK
<1>1. Invariant => TypeOK
  <2>1. ASSUME Invariant, query.kind = "filtered"
        PROVE  \A l \in LiteralsOf[query.where] : l.type = "uuid" => l.value \in UuidTexts
    BY <2>1, WhereIsTheFilter, LiteralsAreParsed DEF Parsed
  <2>2. ASSUME Invariant, answer.kind = "documents" PROVE answer.columns \subseteq AllColumns
    BY <2>2, ProjectionIsOfTable DEF Invariant, projection
  <2>. QED BY <2>1, <2>2 DEF TypeOK, Invariant
<1>. QED BY <1>1, InvariantHolds, PTL

(* Every statement that runs selects the rows its filter is true of and    *)
(* does not fail, if the filter compares values of one type and looks      *)
(* under keys only for texts that JSON need not escape (walkAST).          *)
THEOREM FiltersSelectWhatTheyMean == Spec => []SelectsWhatTheFilterMeans
<1>1. Invariant => SelectsWhatTheFilterMeans
  <2>. SUFFICES ASSUME Invariant, query.kind = "filtered", CelTruth[request.filter][row] # "unclaimed"
       PROVE  /\ "failure" \notin Truths
              /\ Truths = {"true"} <=> CelTruth[request.filter][row] = "true"
    BY DEF SelectsWhatTheFilterMeans
  <2>1. row \in Rows
    BY DEF Invariant
  <2>2. IsTranslatedRightly(request.filter)
    BY WhereIsTheFilter, FiltersAreTranslatedRightly
  <2>3. PICK t : /\ SqlTruths[query.where][row] = {t}
                 /\ Agree(t, CelTruth[request.filter][row])
    BY <2>1, <2>2, WhereIsTheFilter DEF IsTranslatedRightly
  <2>. QED BY <2>3 DEF Truths, Agree
<1>. QED BY <1>1, InvariantHolds, PTL

(* The client that names fields it wants is never answered with documents, *)
(* whatever fields it names (BuildProjection).                             *)
THEOREM NamedFieldsAreRefused ==
  Spec => [](request.mask.kind = "list" /\ request.mask.texts # <<>> => answer.kind # "documents")
<1>1. Invariant =>
        (request.mask.kind = "list" /\ request.mask.texts # <<>> => answer.kind # "documents")
  BY NamedFieldsAreUnknown DEF Invariant, projection
<1>. QED BY <1>1, InvariantHolds, PTL

=============================================================================
