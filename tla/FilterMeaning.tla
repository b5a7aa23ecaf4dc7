---------------------------- MODULE FilterMeaning ----------------------------
(***************************************************************************)
(* What a filter means, twice: what PostgreSQL makes of the SQL tree for a *)
(* row, and what CEL makes of the syntax tree for the document the row     *)
(* holds.  Both have a third truth value besides true and false: NULL in   *)
(* SQL, an error in CEL, which && and || absorb alike.                     *)
(*                                                                         *)
(* A row maps names of columns to values, an annotations column to a       *)
(* function from keys to JSON values [type, value].                        *)
(***************************************************************************)
EXTENDS FilterBuilder, FiniteSets

CONSTANTS
  TextOrder,     \* the strings in their order
  NumericTexts,  \* the strings that are numbers, with the numbers
  DecimalTexts,  \* the integers, with the strings they are written as
  BooleanTexts,  \* the strings PostgreSQL takes for a boolean, with the boolean
  PlainTexts,    \* the strings without a quote, a backslash or a control character
  OtherQueries,  \* the JSON queries made of other strings, with the objects they are
  Null,          \* SQL's NULL
  Rows           \* the rows there may be

-----------------------------------------------------------------------------
Rank(text) == CHOOSE i \in DOMAIN TextOrder : TextOrder[i] = text

Before(type, a, b) == IF type \in {"text", "string"} THEN Rank(a) < Rank(b) ELSE a < b

\* a op b for two values of one type.
Holds(op, type, a, b) ==
  CASE op = "_==_" -> a = b
    [] op = "_!=_" -> a # b
    [] op = "_>_"  -> Before(type, b, a)
    [] op = "_<_"  -> Before(type, a, b)
    [] op = "_>=_" -> a = b \/ Before(type, b, a)
    [] op = "_<=_" -> a = b \/ Before(type, a, b)

Truth(b) == IF b THEN "true" ELSE "false"

-----------------------------------------------------------------------------
(* PostgreSQL: "true", "false", "null", or "failure" of the statement.     *)

\* What ->> makes of a JSON value.
TextOf(json) ==
  CASE json.type = "string" -> json.value
    [] json.type = "list"   -> "[...]"
    [] json.type = "bool"   -> Truth(json.value)
    [] json.type = "int"    -> DecimalTexts[json.value]

\* The values, none or one, that a text is cast to.
Cast(text, type) ==
  CASE type = "text"    -> {text}
    [] type = "numeric" -> {NumericTexts[t] : t \in {text} \cap DOMAIN NumericTexts}
    [] type = "boolean" -> {BooleanTexts[t] : t \in {text} \cap DOMAIN BooleanTexts}

\* A column can be compared with literals of its own type.
Comparable(column, literal) == column.type = literal.type

SqlComparison(e, row) ==
  IF ~Comparable(e.column, e.literal) THEN "failure"
  ELSE IF row[e.column.name] = Null THEN "null"
  ELSE Truth(Holds(e.op, e.literal.type, row[e.column.name], e.literal.value))

SqlJson(e, row) ==
  LET object == row[e.column.name]
      values == Cast(TextOf(object[e.key]), e.literal.type)
  IN  IF e.column.type # "jsonb" THEN "failure"
      ELSE IF e.key \notin DOMAIN object THEN "null"
      ELSE IF values = {} THEN "failure"
      ELSE Truth(\A v \in values : Holds(e.op, e.literal.type, v, e.literal.value))

SqlInList(e, row) ==
  IF \E l \in e.literals : ~Comparable(e.column, l) THEN "failure"
  ELSE IF row[e.column.name] = Null THEN "null"
  ELSE Truth(\E l \in e.literals : l.value = row[e.column.name])

\* The columns are searched as arrays whatever they are.
SqlAnyOf(e, row) ==
  IF e.column.type # "array" \/ e.literal.type # "text" THEN "failure"
  ELSE Truth(e.literal.value \in row[e.column.name])

JsonType(literal) ==
  CASE literal.type = "text" -> "string"
    [] literal.type = "numeric" -> "int"
    [] literal.type = "boolean" -> "bool"

\* A JSON list is a set of JSON values here.
Elements(json) == IF json.type = "list" THEN json.value ELSE {}

\* JSON has the texts of the query between quotes as they are.
IsPlain(query) ==
  /\ query.key \in PlainTexts
  /\ query.literal.type = "text" => query.literal.value \in PlainTexts

\* The objects, none or one, that a query is read as.  A text that is not
\* plain may end where its quote is, or have a backslash that begins an
\* escape: most such queries are no JSON, some are another object.
ReadAsObject(query) ==
  IF IsPlain(query)
  THEN {[key \in {query.key} |->
           [type |-> "list",
            value |-> {[type |-> JsonType(query.literal), value |-> query.literal.value]}]]}
  ELSE {OtherQueries[q] : q \in {query} \cap DOMAIN OtherQueries}

SameJson(a, b) == a.type = b.type /\ a.value = b.value

\* @> for the value of a key.
ContainsJson(json, part) ==
  IF part.type = "list"
  THEN \A p \in part.value : \E v \in Elements(json) : SameJson(v, p)
  ELSE SameJson(json, part)

SqlContains(e, row) ==
  LET object == row[e.column.name]
      queries == ReadAsObject(e.query)
  IN  IF e.column.type # "jsonb" \/ queries = {} THEN "failure"
      ELSE Truth(\A q \in queries : \A key \in DOMAIN q :
                   key \in DOMAIN object /\ ContainsJson(object[key], q[key]))

\* AND for decides = "false", OR for decides = "true".  PostgreSQL may skip
\* a side that would fail when the other one decides.
Combined(decides, left, right) ==
  LET sides == {left, right}
  IN  CASE "failure" \in sides -> IF decides \in sides THEN {decides, "failure"} ELSE {"failure"}
        [] "failure" \notin sides /\ decides \in sides -> {decides}
        [] OTHER -> IF "null" \in sides THEN {"null"} ELSE {left}

SqlTruth(e, row) ==
  CASE e.sql = "compare"  -> SqlComparison(e, row)
    [] e.sql = "json"     -> SqlJson(e, row)
    [] e.sql = "in"       -> SqlInList(e, row)
    [] e.sql = "any"      -> SqlAnyOf(e, row)
    [] e.sql = "contains" -> SqlContains(e, row)

\* The conditions that filters are translated to.
Conditions ==
  {walkAST[f].expr : f \in {e \in Expressions : walkAST[e].outcome = "built"}}

IsJunction(c) == c.sql \in {"and", "or"}

JunctionTruths(c, lefts, rights) ==
  UNION {Combined(IF c.sql = "and" THEN "false" ELSE "true", l, r) : l \in lefts, r \in rights}

SqlTruths[c \in Conditions] ==
  [row \in Rows |->
     IF IsJunction(c)
     THEN JunctionTruths(c, SqlTruths[c.left][row], SqlTruths[c.right][row])
     ELSE {SqlTruth(c, row)}]

-----------------------------------------------------------------------------
(* CEL: a comparison is of a field, or of a key of an annotations field.   *)
(* A constant stands for a value of the field's type.                      *)

\* The values, none or one, of what is selected.
FieldValues(e, row) ==
  LET path == extractPath[e]
  IN  IF IsField(path) THEN {row[FieldMap[path].name]} \ {Null}
      ELSE LET object == row[FieldMap[BasePath(e)].name]
           IN  {object[k].value : k \in {e.field} \cap DOMAIN object}

\* Whether e is compared with a constant of its own type in this row.
Fits(e, const, row) ==
  LET path == extractPath[e]
      base == BasePath(e)
  IN  /\ IsConst(const)
      /\ e.kind \in {"ident", "select"}
      /\ e.kind = "select" => ~e.testOnly
      /\ IF IsField(path)
         THEN CASE FieldMap[path].type = "text" -> const.type = "string"
                [] FieldMap[path].type = "uuid" -> const.type = "string" /\ const.value \in UuidTexts
                [] FieldMap[path].type = "integer" -> const.type = "int"
                [] FieldMap[path].type = "boolean" -> const.type = "bool"
                [] FieldMap[path].type = "timestamptz" -> extractTime(const) # {}
                [] OTHER -> FALSE
         ELSE /\ IsField(base)
              /\ FieldMap[base].type = "jsonb"
              /\ LET object == row[FieldMap[base].name]
                 IN  e.field \in DOMAIN object => object[e.field].type = const.type

\* What the constant stands for, with its type.
Constant(e, const) ==
  LET path == extractPath[e]
  IN  IF IsField(path) /\ FieldMap[path].type = "timestamptz"
      THEN Literal("timestamptz", CHOOSE t \in extractTime(const) : TRUE)
      ELSE Literal(const.type, const.value)

\* A comparison or a membership is of values of one type.
WellTyped(e, row) ==
  LET left == e.args[1]
      right == e.args[2]
  IN  /\ e.kind = "call"
      /\ \/ e.function \in Comparisons /\ Fits(left, right, row)
         \/ /\ e.function = "@in"
            /\ right.kind = "list"
            /\ right.elements # <<>>
            /\ \A x \in Range(right.elements) : Fits(left, x, row)
         \/ /\ e.function = "@in"
            /\ right.kind = "select"
            /\ ~right.testOnly
            /\ IsField(BasePath(right))
            /\ FieldMap[BasePath(right)].type = "jsonb"

\* A text that is looked for under a key is one that JSON need not escape.
IsPlainMembership(e) ==
  LET left == e.args[1]
      right == e.args[2]
  IN  e.function = "@in" /\ right.kind = "select" =>
        /\ right.field \in PlainTexts
        /\ IsConst(left) /\ left.type = "string" => left.value \in PlainTexts

\* "true", "false", or "error" where there is no value.
CelComparison(op, left, const, row) ==
  LET values == FieldValues(left, row)
      constant == Constant(left, const)
  IN  IF values = {} THEN "error"
      ELSE Truth(\A v \in values : Holds(op, constant.type, v, constant.value))

CelInList(left, elements, row) ==
  LET values == FieldValues(left, row)
  IN  IF values = {} THEN "error"
      ELSE Truth(\A v \in values : \E x \in Range(elements) : v = Constant(left, x).value)

CelContains(left, select, row) ==
  LET object == row[FieldMap[BasePath(select)].name]
  IN  IF select.field \notin DOMAIN object THEN "error"
      ELSE Truth(\E v \in Elements(object[select.field]) :
                   v.type = left.type /\ v.value = left.value)

CelSimple(e, row) ==
  LET left == e.args[1]
      right == e.args[2]
  IN  CASE e.function \in Comparisons -> CelComparison(e.function, left, right, row)
        [] e.function = "@in" /\ right.kind = "list" -> CelInList(left, right.elements, row)
        [] OTHER -> CelContains(left, right, row)

\* && for decides = "false", || for decides = "true".
CelCombined(decides, left, right) ==
  LET sides == {left, right}
  IN  CASE "unclaimed" \in sides -> "unclaimed"
        [] "unclaimed" \notin sides /\ decides \in sides -> decides
        [] OTHER -> IF "error" \in sides THEN "error" ELSE left

\* "unclaimed" if any part compares values of two types, or looks under a
\* key for a text that JSON has to escape.
CelTruth[e \in Expressions] ==
  [row \in Rows |->
     IF IsLogical(e)
     THEN CelCombined(IF e.function = "_&&_" THEN "false" ELSE "true",
                      CelTruth[e.args[1]][row], CelTruth[e.args[2]][row])
     ELSE IF WellTyped(e, row) /\ IsPlainMembership(e) THEN CelSimple(e, row)
     ELSE "unclaimed"]

-----------------------------------------------------------------------------
\* A number and a boolean are read back from the texts they are written as.
ASSUME TextsAreReadBack ==
  /\ \A n \in DOMAIN DecimalTexts :
       /\ DecimalTexts[n] \in DOMAIN NumericTexts
       /\ NumericTexts[DecimalTexts[n]] = n
  /\ \A b \in BOOLEAN : Truth(b) \in DOMAIN BooleanTexts /\ BooleanTexts[Truth(b)] = b

\* A JSONB column holds JSON values.
ASSUME JsonValues ==
  \A row \in Rows, column \in Range(FieldMap) : column.type = "jsonb" =>
    LET object == row[column.name]
    IN  \A key \in DOMAIN object :
          /\ object[key].type = "int" => object[key].value \in DOMAIN DecimalTexts
          /\ object[key].type = "bool" => object[key].value \in BOOLEAN

=============================================================================
