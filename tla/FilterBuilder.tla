---------------------------- MODULE FilterBuilder ----------------------------
(***************************************************************************)
(* The translation of a filter from the syntax tree of CEL to an SQL       *)
(* expression.  Both are trees of records; a path "a.b.c" is the sequence  *)
(* <<"a", "b", "c">>, and a FieldMap is a function from paths to columns.  *)
(*                                                                         *)
(* A translation is built, refused with an error, or ends in a panic of    *)
(* the goroutine.  The wording of errors and how go-jet renders a tree and *)
(* binds its arguments are left out.                                       *)
(***************************************************************************)
EXTENDS Naturals, Sequences, Functions

CONSTANTS
  UuidTexts,       \* the strings that uuid.Parse accepts
  TimestampTexts,  \* the strings that are RFC 3339 timestamps, with their times
  FieldMap,        \* the columns of the fields a filter may name
  Expressions,     \* the syntax trees there are, with all their parts
  Depth            \* how deep each of them is

-----------------------------------------------------------------------------
(* The syntax trees of CEL that matter: an operator is a call.             *)
Ident(name) == [kind |-> "ident", name |-> name]
Const(type, value) == [kind |-> "const", type |-> type, value |-> value]
List(elements) == [kind |-> "list", elements |-> elements]
Call(function, args) == [kind |-> "call", function |-> function, args |-> args]

\* operand.field, and has(operand.field), which the parser turns into a node
\* of the same kind.
Select(operand, field) ==
  [kind |-> "select", operand |-> operand, field |-> field, testOnly |-> FALSE]
Has(operand, field) ==
  [kind |-> "select", operand |-> operand, field |-> field, testOnly |-> TRUE]

Equalities == {"_==_", "_!=_"}
Orderings == {"_>_", "_>=_", "_<_", "_<=_"}
Comparisons == Equalities \cup Orderings
Logical == {"_&&_", "_||_"}

Parts(e) ==
  CASE e.kind = "select" -> {e.operand}
    [] e.kind = "list"   -> Range(e.elements)
    [] e.kind = "call"   -> Range(e.args)
    [] OTHER -> {}

\* Syntax trees are finite, and the parser gives a binary operator its two
\* arguments.
ASSUME SyntaxTrees ==
  /\ Depth \in [Expressions -> Nat]
  /\ \A e \in Expressions : \A part \in Parts(e) :
       part \in Expressions /\ Depth[part] < Depth[e]
  /\ \A e \in Expressions :
       e.kind = "call" /\ e.function \in Logical \cup Comparisons \cup {"@in"}
         => DOMAIN e.args = {1, 2}

IsConst(e) == e.kind = "const"

\* The getters of the generated messages: the value of a constant of that
\* type, the zero value of everything else.
GetValue(e, type, zero) ==
  IF IsConst(e) /\ e.type = type THEN e.value ELSE zero

GetStringValue(e) == GetValue(e, "string", "")
GetInt64Value(e) == GetValue(e, "int", 0)
GetBoolValue(e) == GetValue(e, "bool", FALSE)

-----------------------------------------------------------------------------
(* SQL.                                                                    *)
Column(name, type) == [name |-> name, type |-> type]
ColumnTypes == {"uuid", "text", "jsonb", "integer", "boolean", "timestamptz", "array"}

Literal(type, value) == [type |-> type, value |-> value]

Comparison(op, column, literal) ==
  [sql |-> "compare", op |-> op, column |-> column, literal |-> literal]
\* (column ->> key), cast to the type of the literal.
JsonComparison(op, column, key, literal) ==
  [sql |-> "json", op |-> op, column |-> column, key |-> key, literal |-> literal]
InList(column, literals) == [sql |-> "in", column |-> column, literals |-> literals]
AnyOf(column, literal) == [sql |-> "any", column |-> column, literal |-> literal]
\* The text {"key": [literal]}: the key, and a literal that is a text, stand
\* between the quotes as they are, whatever JSON has to escape.  What the
\* text is read as is left to PostgreSQL.
jsonQuery(key, literal) == [key |-> key, literal |-> literal]
\* column @> query::jsonb
HasElements(column, key, literal) ==
  [sql |-> "contains", column |-> column, query |-> jsonQuery(key, literal)]
And(left, right) == [sql |-> "and", left |-> left, right |-> right]
Or(left, right) == [sql |-> "or", left |-> left, right |-> right]

Built(expr) == [outcome |-> "built", expr |-> expr]
Refused == [outcome |-> "refused"]
Panicked == [outcome |-> "panicked"]

-----------------------------------------------------------------------------
(* The path of an identifier or of a chain of selections; none, that is    *)
(* <<>>, for any other node.                                               *)
extractPath[e \in Expressions] ==
  CASE e.kind = "ident"  -> <<e.name>>
    [] e.kind = "select" -> LET base == extractPath[e.operand]
                            IN  IF base = <<>> THEN <<>> ELSE Append(base, e.field)
    [] OTHER             -> <<>>

IsField(path) == path \in DOMAIN FieldMap

\* The path e is selected from; none if e is not a selection.
BasePath(e) == IF e.kind = "select" THEN extractPath[e.operand] ELSE <<>>

\* The time a constant stands for, if it stands for one.
extractTime(e) ==
  IF e.type = "string" /\ e.value \in DOMAIN TimestampTexts
  THEN {TimestampTexts[e.value]}
  ELSE IF e.type = "int" THEN {e.value} ELSE {}

\* go-jet makes a string column of a JSONB column.
Texts == {"text", "jsonb"}

\* UUIDs are not parsed.
ColumnLiterals_AnyText(column, e) ==
  CASE column.type \in Texts -> {Literal("text", GetStringValue(e))}
    [] column.type = "uuid" -> {Literal("uuid", GetStringValue(e))}
    [] column.type = "integer" -> {Literal("integer", GetInt64Value(e))}
    [] column.type = "boolean" -> {Literal("boolean", GetBoolValue(e))}
    [] column.type = "timestamptz" -> {Literal("timestamptz", t) : t \in extractTime(e)}
    [] OTHER -> {}

\* The literals, none or one, that a constant is compared as.
ColumnLiterals(column, e) ==
  CASE column.type = "uuid" ->
         {Literal("uuid", text) : text \in {GetStringValue(e)} \cap UuidTexts}
    [] column.type \in Texts -> {Literal("text", GetStringValue(e))}
    [] column.type = "integer" -> {Literal("integer", GetInt64Value(e))}
    [] column.type = "boolean" -> {Literal("boolean", GetBoolValue(e))}
    [] column.type = "timestamptz" -> {Literal("timestamptz", t) : t \in extractTime(e)}
    [] OTHER -> {}

ColumnOperators(column) ==
  CASE column.type \in {"uuid", "boolean"} -> Equalities
    [] column.type \in Texts -> Equalities \cup {"_>_", "_<_"}
    [] column.type \in {"integer", "timestamptz"} -> Comparisons
    [] OTHER -> {}

\* One entry of a table of operators is wrong.
mapColumnComparison_Strict(op, column, e) ==
  LET literals == ColumnLiterals(column, e)
      strict == IF op = "_<=_" THEN "_<_" ELSE op
  IN  IF literals # {} /\ op \in ColumnOperators(column)
      THEN Built(Comparison(strict, column, CHOOSE l \in literals : TRUE))
      ELSE Refused

mapColumnComparison(op, column, e) ==
  LET literals == ColumnLiterals(column, e)
  IN  IF literals # {} /\ op \in ColumnOperators(column)
      THEN Built(Comparison(op, column, CHOOSE l \in literals : TRUE))
      ELSE Refused

\* A scalar constant by itself, with no column to say its type.
constToExpr(e) ==
  CASE e.type = "string" -> {Literal("text", e.value)}
    [] e.type = "int"    -> {Literal("numeric", e.value)}
    [] e.type = "bool"   -> {Literal("boolean", e.value)}
    [] OTHER -> {}

JsonOperators(literal) == IF literal.type = "numeric" THEN Comparisons ELSE Equalities

\* The kind of the constant is read without a check that there is one.
createJSONComparison(op, column, key, right) ==
  IF ~IsConst(right) THEN Panicked
  ELSE IF \E l \in constToExpr(right) : op \in JsonOperators(l)
       THEN Built(JsonComparison(op, column, key, CHOOSE l \in constToExpr(right) : TRUE))
       ELSE Refused

createComparison(op, left, right) ==
  LET path == extractPath[left]
      base == BasePath(left)
  IN  CASE IsField(path) ->
             IF IsConst(right) THEN mapColumnComparison(op, FieldMap[path], right) ELSE Refused
        [] ~IsField(path) /\ IsField(base) ->
             createJSONComparison(op, FieldMap[base], left.field, right)
        [] OTHER -> Refused

-----------------------------------------------------------------------------
(* The operator "in", by the shape of its right side.                      *)
createSQLInList(left, elements) ==
  LET path == extractPath[left]
      column == FieldMap[path]
  IN  IF /\ IsField(path)
         /\ column.type \in Texts \cup {"uuid", "integer"}
         /\ \A i \in DOMAIN elements : ColumnLiterals(column, elements[i]) # {}
      THEN Built(InList(column, UNION {ColumnLiterals(column, x) : x \in Range(elements)}))
      ELSE Refused

createNativeArrayContains(left, column) ==
  IF IsConst(left) /\ constToExpr(left) # {}
  THEN Built(AnyOf(column, CHOOSE l \in constToExpr(left) : TRUE))
  ELSE Refused

\* Here, too, the kind of the constant is read unchecked.
createJSONContains(select, left) ==
  LET base == BasePath(select)
  IN  CASE ~IsField(base) -> Refused
        [] IsField(base) /\ ~IsConst(left) -> Panicked
        [] OTHER ->
             IF constToExpr(left) = {} THEN Refused
             ELSE Built(HasElements(FieldMap[base], select.field,
                                    CHOOSE l \in constToExpr(left) : TRUE))

parseInOperator(left, right) ==
  CASE right.kind = "list"   -> createSQLInList(left, right.elements)
    [] right.kind = "select" -> createJSONContains(right, left)
    [] right.kind = "ident" /\ IsField(<<right.name>>) ->
         createNativeArrayContains(left, FieldMap[<<right.name>>])
    [] OTHER -> Refused

-----------------------------------------------------------------------------
\* What becomes of the two sides of a logical operator.  The right one is
\* not looked at when the left one is refused.
parseLogical(function, left, right) ==
  CASE left.outcome # "built" -> left
    [] left.outcome = "built" /\ right.outcome # "built" -> right
    [] OTHER -> IF function = "_&&_" THEN Built(And(left.expr, right.expr))
                                     ELSE Built(Or(left.expr, right.expr))

\* Everything but logical operators.
parseCall(e) ==
  CASE e.kind # "call" -> Refused
    [] e.kind = "call" /\ e.function = "@in" -> parseInOperator(e.args[1], e.args[2])
    [] e.kind = "call" /\ e.function \in Comparisons ->
         createComparison(e.function, e.args[1], e.args[2])
    [] OTHER -> Refused

IsLogical(e) == e.kind = "call" /\ e.function \in Logical

walkAST[e \in Expressions] ==
  IF IsLogical(e)
  THEN parseLogical(e.function, walkAST[e.args[1]], walkAST[e.args[2]])
  ELSE parseCall(e)

=============================================================================
