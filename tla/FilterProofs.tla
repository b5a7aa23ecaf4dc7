---------------------------- MODULE FilterProofs ----------------------------
(***************************************************************************)
(* A filter selects the rows it is true of, for every filter however deep, *)
(* every row and every map of fields.                                      *)
(*                                                                         *)
(* First the recursive definitions are shown to have solutions, then a     *)
(* single comparison or membership to be translated rightly, operator by   *)
(* operator; the theorem follows by induction on the depth of the filter.  *)
(***************************************************************************)
EXTENDS FilterMeaning, TLAPS

-----------------------------------------------------------------------------
(* The recursive definitions.                                              *)
WalkStep(walk, e) ==
  IF IsLogical(e)
  THEN parseLogical(e.function, walk[e.args[1]], walk[e.args[2]])
  ELSE parseCall(e)

CelStep(truth, e) ==
  [row \in Rows |->
     IF IsLogical(e)
     THEN CelCombined(IF e.function = "_&&_" THEN "false" ELSE "true",
                      truth[e.args[1]][row], truth[e.args[2]][row])
     ELSE IF WellTyped(e, row) /\ IsPlainMembership(e) THEN CelSimple(e, row)
     ELSE "unclaimed"]

Walk == INSTANCE TreeRecursion WITH S <- Expressions, D <- Depth, Step <- WalkStep
Cel == INSTANCE TreeRecursion WITH S <- Expressions, D <- Depth, Step <- CelStep

(* The sides of a logical operator are less deep than the operator.        *)
LEMMA Sides ==
  ASSUME NEW e \in Expressions, IsLogical(e)
  PROVE  \A i \in {1, 2} : e.args[i] \in Expressions /\ Depth[e.args[i]] < Depth[e]
<1>1. DOMAIN e.args = {1, 2} /\ e.kind = "call"
  BY SyntaxTrees DEF IsLogical
<1>2. Parts(e) = Range(e.args)
  BY <1>1 DEF Parts
<1>. QED BY <1>1, <1>2, SyntaxTrees DEF Range

(* walkAST satisfies its equation.                                         *)
LEMMA WalkIsDefined == walkAST = [e \in Expressions |-> WalkStep(walkAST, e)]
<1>. DEFINE Solves(f) ==
       f = [e \in Expressions |->
              IF IsLogical(e)
              THEN parseLogical(e.function, f[e.args[1]], f[e.args[2]])
              ELSE parseCall(e)]
<1>1. Walk!IsLocal
  BY Sides DEF Walk!IsLocal, WalkStep
<1>2. \E f : f = [e \in Expressions |-> WalkStep(f, e)]
  BY <1>1, SyntaxTrees, Walk!Exists
<1>3. \E f : Solves(f)
  BY <1>2 DEF WalkStep
<1>4. walkAST = CHOOSE f : Solves(f)
  BY DEF walkAST
<1>5. Solves(walkAST)
  <2>. HIDE DEF Solves
  <2>. QED BY <1>3, <1>4
<1>. QED BY <1>5 DEF WalkStep

(* CelTruth satisfies its equation.                                        *)
LEMMA CelIsDefined == CelTruth = [e \in Expressions |-> CelStep(CelTruth, e)]
<1>. DEFINE Solves(f) ==
       f = [e \in Expressions |->
              [row \in Rows |->
                 IF IsLogical(e)
                 THEN CelCombined(IF e.function = "_&&_" THEN "false" ELSE "true",
                                  f[e.args[1]][row], f[e.args[2]][row])
                 ELSE IF WellTyped(e, row) /\ IsPlainMembership(e) THEN CelSimple(e, row)
                 ELSE "unclaimed"]]
<1>1. Cel!IsLocal
  BY Sides DEF Cel!IsLocal, CelStep
<1>2. \E f : f = [e \in Expressions |-> CelStep(f, e)]
  BY <1>1, SyntaxTrees, Cel!Exists
<1>3. \E f : Solves(f)
  BY <1>2 DEF CelStep
<1>4. CelTruth = CHOOSE f : Solves(f)
  BY DEF CelTruth
<1>5. Solves(CelTruth)
  <2>. HIDE DEF Solves
  <2>. QED BY <1>3, <1>4
<1>. QED BY <1>5 DEF CelStep

-----------------------------------------------------------------------------
(* Conditions are trees, too.                                              *)

(* Only a logical operator becomes AND or OR.                              *)
LEMMA SimpleIsNoJunction ==
  ASSUME NEW e, parseCall(e).outcome = "built"
  PROVE  ~IsJunction(parseCall(e).expr)
<1>1. ASSUME NEW op, NEW column, NEW const,
             mapColumnComparison(op, column, const).outcome = "built"
      PROVE  ~IsJunction(mapColumnComparison(op, column, const).expr)
  BY <1>1 DEF mapColumnComparison, IsJunction, Built, Refused, Comparison
<1>2. ASSUME NEW op, NEW left, NEW right, createComparison(op, left, right).outcome = "built"
      PROVE  ~IsJunction(createComparison(op, left, right).expr)
  BY <1>1, <1>2 DEF createComparison, createJSONComparison, IsJunction, Built, Refused,
     Panicked, JsonComparison
<1>3. ASSUME NEW left, NEW right, parseInOperator(left, right).outcome = "built"
      PROVE  ~IsJunction(parseInOperator(left, right).expr)
  BY <1>3 DEF parseInOperator, createSQLInList, createJSONContains,
     createNativeArrayContains, IsJunction, Built, Refused, Panicked, InList, AnyOf, HasElements
<1>. QED BY <1>2, <1>3 DEF parseCall, Refused

\* Conditions that walkAST builds from e.
IsBuiltFrom(c, e) == e \in Expressions /\ walkAST[e].outcome = "built" /\ walkAST[e].expr = c

\* The depth of the least deep filter a condition is built from.
ConditionDepth ==
  [c \in Conditions |->
     CHOOSE n \in Nat : /\ \E e \in Expressions : IsBuiltFrom(c, e) /\ Depth[e] = n
                       /\ \A e \in Expressions : IsBuiltFrom(c, e) => n <= Depth[e]]

(* Every condition has a least deep filter.                                *)
LEMMA ConditionHasDepth ==
  ASSUME NEW c \in Conditions
  PROVE  /\ ConditionDepth[c] \in Nat
         /\ \E e \in Expressions : IsBuiltFrom(c, e) /\ Depth[e] = ConditionDepth[c]
         /\ \A e \in Expressions : IsBuiltFrom(c, e) => ConditionDepth[c] <= Depth[e]
<1>. DEFINE Depths == {Depth[e] : e \in {x \in Expressions : IsBuiltFrom(c, x)}}
<1>1. \E e \in Expressions : IsBuiltFrom(c, e)
  BY DEF Conditions, IsBuiltFrom
<1>2. Depths \subseteq Nat /\ Depths # {}
  BY <1>1, SyntaxTrees
<1>3. \E m \in Depths : \A k \in Depths : m <= k
  <2>. HIDE DEF Depths
  <2>. QED BY <1>2, Walk!LeastExists
<1>4. \E n \in Nat : /\ \E e \in Expressions : IsBuiltFrom(c, e) /\ Depth[e] = n
                     /\ \A e \in Expressions : IsBuiltFrom(c, e) => n <= Depth[e]
  BY <1>2, <1>3
<1>. QED BY <1>4 DEF ConditionDepth

(* What AND and OR are built from.                                         *)
LEMMA JunctionIsOfSides ==
  ASSUME NEW e \in Expressions, walkAST[e].outcome = "built", IsJunction(walkAST[e].expr)
  PROVE  /\ IsLogical(e)
         /\ \A i \in {1, 2} : e.args[i] \in Expressions /\ walkAST[e.args[i]].outcome = "built"
         /\ walkAST[e].expr.sql = IF e.function = "_&&_" THEN "and" ELSE "or"
         /\ walkAST[e].expr.left = walkAST[e.args[1]].expr
         /\ walkAST[e].expr.right = walkAST[e.args[2]].expr
<1>1. walkAST[e] = WalkStep(walkAST, e)
  BY WalkIsDefined
<1>2. IsLogical(e)
  BY <1>1, SimpleIsNoJunction DEF WalkStep
<1>3. walkAST[e] = parseLogical(e.function, walkAST[e.args[1]], walkAST[e.args[2]])
  BY <1>1, <1>2 DEF WalkStep
<1>4. walkAST[e.args[1]].outcome = "built" /\ walkAST[e.args[2]].outcome = "built"
  BY <1>3 DEF parseLogical
<1>5. walkAST[e].expr = IF e.function = "_&&_"
                        THEN And(walkAST[e.args[1]].expr, walkAST[e.args[2]].expr)
                        ELSE Or(walkAST[e.args[1]].expr, walkAST[e.args[2]].expr)
  BY <1>3, <1>4 DEF parseLogical, Built
<1>. QED BY <1>2, <1>4, <1>5, Sides DEF And, Or

(* The sides of AND and OR are less deep conditions.                       *)
LEMMA ConditionSides ==
  ASSUME NEW c \in Conditions, IsJunction(c)
  PROVE  /\ c.left \in Conditions /\ ConditionDepth[c.left] < ConditionDepth[c]
         /\ c.right \in Conditions /\ ConditionDepth[c.right] < ConditionDepth[c]
<1>1. PICK e \in Expressions : IsBuiltFrom(c, e) /\ Depth[e] = ConditionDepth[c]
  BY ConditionHasDepth
<1>2. /\ IsLogical(e)
      /\ \A i \in {1, 2} : walkAST[e.args[i]].outcome = "built"
      /\ c.left = walkAST[e.args[1]].expr
      /\ c.right = walkAST[e.args[2]].expr
  BY <1>1, JunctionIsOfSides DEF IsBuiltFrom
<1>3. \A i \in {1, 2} : e.args[i] \in Expressions /\ Depth[e.args[i]] < Depth[e]
  BY <1>2, Sides
<1>4. IsBuiltFrom(c.left, e.args[1]) /\ IsBuiltFrom(c.right, e.args[2])
  BY <1>2, <1>3 DEF IsBuiltFrom
<1>5. c.left \in Conditions /\ c.right \in Conditions
  BY <1>4 DEF IsBuiltFrom, Conditions
<1>6. ConditionDepth[c.left] <= Depth[e.args[1]] /\ ConditionDepth[c.right] <= Depth[e.args[2]]
  BY <1>3, <1>4, <1>5, ConditionHasDepth
<1>7. /\ ConditionDepth[c.left] \in Nat /\ ConditionDepth[c.right] \in Nat
      /\ Depth[e] \in Nat /\ Depth[e.args[1]] \in Nat /\ Depth[e.args[2]] \in Nat
  BY <1>3, <1>5, ConditionHasDepth, SyntaxTrees
<1>. QED BY <1>1, <1>3, <1>5, <1>6, <1>7

(* Depths are numbers.                                                     *)
LEMMA ConditionDepthType == ConditionDepth \in [Conditions -> Nat]
<1>. DEFINE Smallest(c) == CHOOSE n \in Nat :
              /\ \E e \in Expressions : IsBuiltFrom(c, e) /\ Depth[e] = n
              /\ \A e \in Expressions : IsBuiltFrom(c, e) => n <= Depth[e]
<1>1. ConditionDepth = [c \in Conditions |-> Smallest(c)]
  BY DEF ConditionDepth
<1>. QED BY <1>1, ConditionHasDepth

SqlStep(truths, c) ==
  [row \in Rows |->
     IF IsJunction(c)
     THEN JunctionTruths(c, truths[c.left][row], truths[c.right][row])
     ELSE {SqlTruth(c, row)}]

Sql == INSTANCE TreeRecursion WITH S <- Conditions, D <- ConditionDepth, Step <- SqlStep

(* SqlTruths satisfies its equation.                                       *)
LEMMA SqlIsDefined == SqlTruths = [c \in Conditions |-> SqlStep(SqlTruths, c)]
<1>. DEFINE Solves(f) ==
       f = [c \in Conditions |->
              [row \in Rows |->
                 IF IsJunction(c)
                 THEN JunctionTruths(c, f[c.left][row], f[c.right][row])
                 ELSE {SqlTruth(c, row)}]]
<1>1. Sql!IsLocal
  BY ConditionSides DEF Sql!IsLocal, SqlStep
<1>2. \E f : f = [c \in Conditions |-> SqlStep(f, c)]
  BY <1>1, ConditionDepthType, Sql!Exists
<1>3. \E f : Solves(f)
  BY <1>2 DEF SqlStep
<1>4. SqlTruths = CHOOSE f : Solves(f)
  BY DEF SqlTruths
<1>5. Solves(SqlTruths)
  <2>. HIDE DEF Solves
  <2>. QED BY <1>3, <1>4
<1>. QED BY <1>5 DEF SqlStep

-----------------------------------------------------------------------------
(* One comparison or membership.                                           *)

\* PostgreSQL has an answer, and it is yes just when CEL's is.
Agree(sql, cel) == sql \in {"true", "false", "null"} /\ (sql = "true" <=> cel = "true")

(* A constant of the field's type is compared as the value it stands for.  *)
LEMMA LiteralOfColumn ==
  ASSUME NEW left, NEW const, NEW row,
         IsField(extractPath[left]), Fits(left, const, row),
         NEW column, column = FieldMap[extractPath[left]]
  PROVE  /\ ColumnLiterals(column, const) = {Literal(column.type, Constant(left, const).value)}
         /\ column.type = "text" => Constant(left, const).type = "string"
         /\ column.type \notin {"text", "uuid"} =>
              Constant(left, const).type \notin {"text", "string"}
<1>1. CASE column.type = "text"
  BY <1>1 DEF Fits, ColumnLiterals, Constant, Literal, Texts, GetStringValue, GetValue
<1>2. CASE column.type = "uuid"
  <2>1. const.type = "string" /\ const.value \in UuidTexts /\ IsConst(const)
    BY <1>2 DEF Fits
  <2>2. GetStringValue(const) = const.value
    BY <2>1 DEF GetStringValue, GetValue
  <2>3. ColumnLiterals(column, const) = {Literal("uuid", const.value)}
    <3>1. {GetStringValue(const)} \cap UuidTexts = {const.value}
      BY <2>1, <2>2
    <3>. QED BY <1>2, <3>1 DEF ColumnLiterals, Literal, Texts
  <2>4. Constant(left, const) = Literal("string", const.value)
    BY <1>2, <2>1 DEF Constant
  <2>. QED BY <1>2, <2>3, <2>4 DEF Literal
<1>3. CASE column.type = "integer"
  BY <1>3 DEF Fits, ColumnLiterals, Constant, Literal, Texts, GetInt64Value, GetValue
<1>4. CASE column.type = "boolean"
  BY <1>4 DEF Fits, ColumnLiterals, Constant, Literal, Texts, GetBoolValue, GetValue
<1>5. CASE column.type = "timestamptz"
  <2>1. extractTime(const) # {}
    BY <1>5 DEF Fits
  <2>2. PICK t : extractTime(const) = {t}
    BY <2>1 DEF extractTime
  <2>3. Constant(left, const) = Literal("timestamptz", t)
    BY <1>5, <2>2 DEF Constant
  <2>. QED BY <1>5, <2>2, <2>3 DEF ColumnLiterals, Literal, Texts
<1>. QED BY <1>1, <1>2, <1>3, <1>4, <1>5 DEF Fits

(* The comparison of a column.                                             *)
LEMMA ColumnComparisonAgrees ==
  ASSUME NEW op \in Comparisons, NEW left, NEW const, NEW row,
         IsField(extractPath[left]), Fits(left, const, row),
         NEW column, column = FieldMap[extractPath[left]],
         mapColumnComparison(op, column, const).outcome = "built"
  PROVE  LET c == mapColumnComparison(op, column, const).expr
         IN  c.sql = "compare" /\ Agree(SqlComparison(c, row), CelComparison(op, left, const, row))
<1>. DEFINE constant == Constant(left, const)
            literal == Literal(column.type, constant.value)
            value == row[column.name]
            values == FieldValues(left, row)
<1>1. ColumnLiterals(column, const) = {literal}
  BY LiteralOfColumn
<1>2. op \in ColumnOperators(column)
  BY DEF mapColumnComparison, Refused
<1>3. mapColumnComparison(op, column, const).expr = Comparison(op, column, literal)
  BY <1>1, <1>2 DEF mapColumnComparison, Built
<1>4. Holds(op, column.type, value, constant.value) <=> Holds(op, constant.type, value, constant.value)
  BY <1>2, LiteralOfColumn DEF ColumnOperators, Texts, Equalities, Orderings, Comparisons, Holds, Before
<1>5. values = {value} \ {Null}
  BY DEF FieldValues
<1>6. SqlComparison(Comparison(op, column, literal), row)
        = IF value = Null THEN "null" ELSE Truth(Holds(op, column.type, value, constant.value))
  BY DEF SqlComparison, Comparable, Comparison, Literal
<1>7. CASE value = Null
  <2>1. values = {}
    BY <1>5, <1>7
  <2>. QED BY <1>3, <1>6, <1>7, <2>1 DEF Agree, Comparison, CelComparison
<1>8. CASE value # Null
  <2>1. (\A v \in values : Holds(op, constant.type, v, constant.value))
          <=> Holds(op, constant.type, value, constant.value)
    BY <1>5, <1>8
  <2>2. values # {}
    BY <1>5, <1>8
  <2>. QED BY <1>3, <1>4, <1>6, <1>8, <2>1, <2>2 DEF Agree, Comparison, CelComparison, Truth
<1>. QED BY <1>7, <1>8

(* A JSON value of the constant's type is read back as it was written.     *)
LEMMA JsonIsReadBack ==
  ASSUME NEW json, NEW type,
         \/ type = "text" /\ json.type = "string"
         \/ type = "numeric" /\ json.type = "int" /\ json.value \in DOMAIN DecimalTexts
         \/ type = "boolean" /\ json.type = "bool" /\ json.value \in BOOLEAN
  PROVE  Cast(TextOf(json), type) = {json.value}
<1>1. CASE type = "text" /\ json.type = "string"
  BY <1>1 DEF Cast, TextOf
<1>2. CASE type = "numeric" /\ json.type = "int" /\ json.value \in DOMAIN DecimalTexts
  <2>1. TextOf(json) = DecimalTexts[json.value]
    BY <1>2 DEF TextOf
  <2>2. TextOf(json) \in DOMAIN NumericTexts /\ NumericTexts[TextOf(json)] = json.value
    BY <1>2, <2>1, TextsAreReadBack
  <2>3. {TextOf(json)} \cap DOMAIN NumericTexts = {TextOf(json)}
    BY <2>2
  <2>. QED BY <1>2, <2>2, <2>3 DEF Cast
<1>3. CASE type = "boolean" /\ json.type = "bool" /\ json.value \in BOOLEAN
  <2>1. TextOf(json) = Truth(json.value)
    BY <1>3 DEF TextOf
  <2>2. TextOf(json) \in DOMAIN BooleanTexts /\ BooleanTexts[TextOf(json)] = json.value
    BY <1>3, <2>1, TextsAreReadBack
  <2>3. {TextOf(json)} \cap DOMAIN BooleanTexts = {TextOf(json)}
    BY <2>2
  <2>. QED BY <1>3, <2>2, <2>3 DEF Cast
<1>. QED BY <1>1, <1>2, <1>3

(* The comparison of a key of an annotations column.                       *)
LEMMA JsonComparisonAgrees ==
  ASSUME NEW op \in Comparisons, NEW left, NEW const, NEW row \in Rows,
         ~IsField(extractPath[left]), Fits(left, const, row),
         NEW column, column = FieldMap[BasePath(left)],
         createJSONComparison(op, column, left.field, const).outcome = "built"
  PROVE  LET c == createJSONComparison(op, column, left.field, const).expr
         IN  c.sql = "json" /\ Agree(SqlJson(c, row), CelComparison(op, left, const, row))
<1>. DEFINE constant == Constant(left, const)
            object == row[column.name]
            json == object[left.field]
            values == FieldValues(left, row)
<1>1. PICK literal : /\ constToExpr(const) = {literal}
                     /\ literal.value = const.value
                     /\ \/ literal.type = "text" /\ const.type = "string"
                        \/ literal.type = "numeric" /\ const.type = "int"
                        \/ literal.type = "boolean" /\ const.type = "bool"
  BY DEF createJSONComparison, Refused, Panicked, constToExpr, Literal
<1>2. op \in JsonOperators(literal) /\ IsConst(const)
  BY <1>1 DEF createJSONComparison, Refused, Panicked
<1>3. createJSONComparison(op, column, left.field, const).expr
        = JsonComparison(op, column, left.field, literal)
  BY <1>1, <1>2 DEF createJSONComparison, Built
<1>4. constant.type = const.type /\ constant.value = const.value
  BY DEF Constant, Literal
<1>5. \A v : Holds(op, literal.type, v, const.value) <=> Holds(op, const.type, v, const.value)
  BY <1>1, <1>2 DEF JsonOperators, Equalities, Orderings, Comparisons, Holds, Before
<1>6. /\ IsField(BasePath(left)) /\ column.type = "jsonb"
      /\ left.field \in DOMAIN object => json.type = const.type
  BY DEF Fits
<1>7. values = {object[k].value : k \in {left.field} \cap DOMAIN object}
  BY DEF FieldValues
<1>8. CASE left.field \notin DOMAIN object
  <2>1. values = {}
    BY <1>7, <1>8
  <2>2. SqlJson(JsonComparison(op, column, left.field, literal), row) = "null"
    BY <1>6, <1>8 DEF SqlJson, JsonComparison
  <2>. QED BY <1>3, <2>1, <2>2 DEF Agree, JsonComparison, CelComparison
<1>9. CASE left.field \in DOMAIN object
  <2>1. values = {json.value}
    BY <1>7, <1>9
  <2>2. column \in Range(FieldMap)
    BY <1>6 DEF IsField, Range
  <2>3. Cast(TextOf(json), literal.type) = {json.value}
    BY <1>1, <1>6, <1>9, <2>2, JsonValues, JsonIsReadBack
  <2>4. SqlJson(JsonComparison(op, column, left.field, literal), row)
          = Truth(\A v \in {json.value} : Holds(op, literal.type, v, const.value))
    BY <1>1, <1>6, <1>9, <2>3 DEF SqlJson, JsonComparison
  <2>5. (\A v \in {json.value} : Holds(op, literal.type, v, const.value))
          <=> (\A v \in values : Holds(op, constant.type, v, constant.value))
    BY <1>4, <1>5, <2>1
  <2>6. values # {}
    BY <2>1
  <2>. QED BY <1>3, <2>4, <2>5, <2>6 DEF Agree, JsonComparison, CelComparison, Truth
<1>. QED BY <1>8, <1>9

(* The membership of a column in a list.                                   *)
LEMMA InListAgrees ==
  ASSUME NEW left, NEW elements, NEW row,
         \A x \in Range(elements) : Fits(left, x, row),
         createSQLInList(left, elements).outcome = "built"
  PROVE  LET c == createSQLInList(left, elements).expr
         IN  c.sql = "in" /\ Agree(SqlInList(c, row), CelInList(left, elements, row))
<1>. DEFINE column == FieldMap[extractPath[left]]
            literals == UNION {ColumnLiterals(column, x) : x \in Range(elements)}
            value == row[column.name]
            values == FieldValues(left, row)
            Is(v) == \E x \in Range(elements) : v = Constant(left, x).value
<1>1. /\ IsField(extractPath[left])
      /\ createSQLInList(left, elements).expr = InList(column, literals)
  BY DEF createSQLInList, Refused, Built
<1>2. \A x \in Range(elements) :
        ColumnLiterals(column, x) = {Literal(column.type, Constant(left, x).value)}
  BY <1>1, LiteralOfColumn
<1>3. \A l \in literals :
        l.type = column.type /\ \E x \in Range(elements) : l.value = Constant(left, x).value
  BY <1>2 DEF Literal
<1>4. \A x \in Range(elements) : \E l \in literals : l.value = Constant(left, x).value
  <2>1. TAKE x \in Range(elements)
  <2>2. Literal(column.type, Constant(left, x).value) \in literals
    BY <1>2
  <2>. QED BY <2>2 DEF Literal
<1>5. values = {value} \ {Null}
  BY <1>1 DEF FieldValues
<1>6. SqlInList(InList(column, literals), row)
        = IF value = Null THEN "null" ELSE Truth(\E l \in literals : l.value = value)
  BY <1>3 DEF SqlInList, InList, Comparable
<1>7. CelInList(left, elements, row)
        = IF values = {} THEN "error" ELSE Truth(\A v \in values : Is(v))
  BY DEF CelInList
<1>8. InList(column, literals).sql = "in"
  BY DEF InList
<1>9. CASE value = Null
  <2>1. values = {}
    BY <1>5, <1>9
  <2>. QED BY <1>1, <1>6, <1>7, <1>8, <1>9, <2>1 DEF Agree
<1>10. CASE value # Null
  <2>1. values = {value}
    BY <1>5, <1>10
  <2>2. (\A v \in values : Is(v)) <=> (\E l \in literals : l.value = value)
    BY <1>3, <1>4, <2>1
  <2>3. values # {}
    BY <2>1
  <2>. HIDE DEF Is, literals
  <2>. QED BY <1>1, <1>6, <1>7, <1>8, <1>10, <2>2, <2>3 DEF Agree, Truth
<1>. QED BY <1>9, <1>10

(* A query of plain texts is read as an object with the one key and, in    *)
(* its list, the one value.                                                *)
LEMMA PlainQueryIsReadBack ==
  ASSUME NEW key, NEW literal, IsPlain(jsonQuery(key, literal))
  PROVE  \E q : /\ ReadAsObject(jsonQuery(key, literal)) = {q}
                /\ DOMAIN q = {key}
                /\ q[key].type = "list"
                /\ q[key].value = {[type |-> JsonType(literal), value |-> literal.value]}
<1>. DEFINE query == jsonQuery(key, literal)
            list == [type |-> "list",
                     value |-> {[type |-> JsonType(literal), value |-> literal.value]}]
            q == [k \in {key} |-> list]
<1>1. query.key = key /\ query.literal = literal
  BY DEF jsonQuery
<1>2. ReadAsObject(query) = {q}
  BY <1>1 DEF ReadAsObject
<1>3. DOMAIN q = {key} /\ q[key] = list
  OBVIOUS
<1>. HIDE DEF q
<1>. QED BY <1>2, <1>3

(* The membership of a constant in a list under a key, both of which JSON  *)
(* has as they are.                                                        *)
LEMMA ContainsAgrees ==
  ASSUME NEW left, NEW right, NEW row,
         IsField(BasePath(right)), FieldMap[BasePath(right)].type = "jsonb",
         right.field \in PlainTexts,
         IsConst(left) /\ left.type = "string" => left.value \in PlainTexts,
         createJSONContains(right, left).outcome = "built"
  PROVE  LET c == createJSONContains(right, left).expr
         IN  c.sql = "contains" /\ Agree(SqlContains(c, row), CelContains(left, right, row))
<1>. DEFINE column == FieldMap[BasePath(right)]
            object == row[column.name]
            Found == \E v \in Elements(object[right.field]) :
                       v.type = left.type /\ v.value = left.value
<1>1. IsConst(left) /\ constToExpr(left) # {}
  BY DEF createJSONContains, Refused, Panicked
<1>2. PICK literal : /\ constToExpr(left) = {literal}
                     /\ literal.value = left.value
                     /\ \/ literal.type = "text" /\ left.type = "string"
                        \/ literal.type = "numeric" /\ left.type = "int"
                        \/ literal.type = "boolean" /\ left.type = "bool"
  BY <1>1 DEF constToExpr, Literal
<1>. DEFINE query == jsonQuery(right.field, literal)
            c == HasElements(column, right.field, literal)
            value == [type |-> left.type, value |-> left.value]
<1>3. createJSONContains(right, left).expr = c
  BY <1>1, <1>2 DEF createJSONContains, Built
<1>4. JsonType(literal) = left.type
  BY <1>2 DEF JsonType
<1>5. IsPlain(query)
  BY <1>1, <1>2 DEF IsPlain, jsonQuery
<1>6. PICK q : /\ ReadAsObject(query) = {q}
               /\ DOMAIN q = {right.field}
               /\ q[right.field].type = "list"
               /\ q[right.field].value = {value}
  <2>1. [type |-> JsonType(literal), value |-> literal.value] = value
    BY <1>2, <1>4
  <2>2. \E q : /\ ReadAsObject(query) = {q}
               /\ DOMAIN q = {right.field}
               /\ q[right.field].type = "list"
               /\ q[right.field].value = {[type |-> JsonType(literal), value |-> literal.value]}
    BY ONLY <1>5, PlainQueryIsReadBack, Zenon
  <2>. HIDE DEF value, query
  <2>. QED BY ONLY <2>1, <2>2, Zenon
<1>7. ContainsJson(object[right.field], q[right.field]) <=> Found
  BY <1>6 DEF ContainsJson, SameJson
<1>8. SqlContains(c, row) = Truth(right.field \in DOMAIN object /\ Found)
  <2>1. (\A x \in {q} : \A key \in DOMAIN x :
           key \in DOMAIN object /\ ContainsJson(object[key], x[key]))
          <=> (right.field \in DOMAIN object /\ Found)
    BY <1>6, <1>7
  <2>2. c.column = column /\ c.query = query
    BY DEF HasElements
  <2>. HIDE DEF Found, c, query
  <2>. QED BY <1>6, <2>1, <2>2 DEF SqlContains, Truth
<1>9. CelContains(left, right, row)
        = IF right.field \notin DOMAIN object THEN "error" ELSE Truth(Found)
  BY DEF CelContains
<1>10. c.sql = "contains"
  BY DEF HasElements
<1>. HIDE DEF Found, c
<1>. QED BY <1>3, <1>8, <1>9, <1>10 DEF Agree, Truth

(* One comparison or membership is translated rightly.                     *)
LEMMA SimpleAgrees ==
  ASSUME NEW e, NEW row \in Rows, parseCall(e).outcome = "built",
         WellTyped(e, row), IsPlainMembership(e)
  PROVE  Agree(SqlTruth(parseCall(e).expr, row), CelSimple(e, row))
<1>. DEFINE left == e.args[1]
            right == e.args[2]
            path == extractPath[left]
<1>. USE DEF Comparisons, Equalities, Orderings
<1>1. CASE e.function \in Comparisons
  <2>1. Fits(left, right, row) /\ IsConst(right)
    BY <1>1 DEF WellTyped, Fits
  <2>2. parseCall(e) = createComparison(e.function, left, right)
    BY <1>1 DEF parseCall, WellTyped
  <2>3. CelSimple(e, row) = CelComparison(e.function, left, right, row)
    BY <1>1 DEF CelSimple
  <2>4. CASE IsField(path)
    <3>1. parseCall(e) = mapColumnComparison(e.function, FieldMap[path], right)
      BY <2>1, <2>2, <2>4 DEF createComparison
    <3>2. /\ parseCall(e).expr.sql = "compare"
          /\ Agree(SqlComparison(parseCall(e).expr, row), CelSimple(e, row))
      BY <1>1, <2>1, <2>3, <2>4, <3>1, ColumnComparisonAgrees
    <3>. QED BY <3>2 DEF SqlTruth
  <2>5. CASE ~IsField(path)
    <3>1. parseCall(e)
            = createJSONComparison(e.function, FieldMap[BasePath(left)], left.field, right)
      BY <2>1, <2>2, <2>5 DEF createComparison, Fits
    <3>2. /\ parseCall(e).expr.sql = "json"
          /\ Agree(SqlJson(parseCall(e).expr, row), CelSimple(e, row))
      BY <1>1, <2>1, <2>3, <2>5, <3>1, JsonComparisonAgrees
    <3>. QED BY <3>2 DEF SqlTruth
  <2>. QED BY <2>4, <2>5
<1>2. CASE e.function = "@in" /\ right.kind = "list"
  <2>1. \A x \in Range(right.elements) : Fits(left, x, row)
    BY <1>2 DEF WellTyped
  <2>2. parseCall(e) = createSQLInList(left, right.elements)
    <3>1. parseCall(e) = parseInOperator(left, right)
      BY <1>2 DEF parseCall, WellTyped
    <3>. QED BY <1>2, <3>1 DEF parseInOperator
  <2>3. CelSimple(e, row) = CelInList(left, right.elements, row)
    BY <1>2 DEF CelSimple
  <2>4. /\ parseCall(e).expr.sql = "in"
        /\ Agree(SqlInList(parseCall(e).expr, row), CelSimple(e, row))
    BY <2>1, <2>2, <2>3, InListAgrees
  <2>. QED BY <2>4 DEF SqlTruth
<1>3. CASE e.function = "@in" /\ right.kind = "select"
  <2>1. /\ IsField(BasePath(right)) /\ FieldMap[BasePath(right)].type = "jsonb"
        /\ right.field \in PlainTexts
        /\ IsConst(left) /\ left.type = "string" => left.value \in PlainTexts
    BY <1>3 DEF WellTyped, IsPlainMembership
  <2>2. parseCall(e) = createJSONContains(right, left)
    <3>1. parseCall(e) = parseInOperator(left, right)
      BY <1>3 DEF parseCall, WellTyped
    <3>. QED BY <1>3, <3>1 DEF parseInOperator
  <2>3. CelSimple(e, row) = CelContains(left, right, row)
    BY <1>3 DEF CelSimple
  <2>4. /\ parseCall(e).expr.sql = "contains"
        /\ Agree(SqlContains(parseCall(e).expr, row), CelSimple(e, row))
    BY <2>1, <2>2, <2>3, ContainsAgrees
  <2>. QED BY <2>4 DEF SqlTruth
<1>. QED BY <1>1, <1>2, <1>3 DEF WellTyped

-----------------------------------------------------------------------------
(* Filters.                                                                *)
CelValues == {"true", "false", "error", "unclaimed"}

(* CEL has an answer to one comparison or membership.                      *)
LEMMA CelSimpleType == ASSUME NEW e, NEW row PROVE CelSimple(e, row) \in CelValues \ {"unclaimed"}
<1>1. \A b : Truth(b) \in {"true", "false"}
  BY DEF Truth
<1>. QED BY <1>1 DEF CelSimple, CelComparison, CelInList, CelContains, CelValues

(* NULL does to AND and OR what an error does to && and ||.                *)
LEMMA CombinedAgree ==
  ASSUME NEW decides \in {"true", "false"},
         NEW l, NEW r, NEW a \in CelValues, NEW b \in CelValues,
         Agree(l, a), Agree(r, b), CelCombined(decides, a, b) # "unclaimed"
  PROVE  \E t : Combined(decides, l, r) = {t} /\ Agree(t, CelCombined(decides, a, b))
<1>1. a # "unclaimed" /\ b # "unclaimed"
  BY DEF CelCombined
<1>2. CASE decides = "true"
  BY <1>1, <1>2 DEF CelCombined, Combined, Agree, CelValues
<1>3. CASE decides = "false"
  BY <1>1, <1>3 DEF CelCombined, Combined, Agree, CelValues
<1>. QED BY <1>2, <1>3

\* PostgreSQL and CEL agree on the filter e in every row.
IsTranslatedRightly(e) ==
  \A row \in Rows :
    /\ CelTruth[e][row] \in CelValues
    /\ walkAST[e].outcome = "built" /\ CelTruth[e][row] # "unclaimed" =>
         \E t : SqlTruths[walkAST[e].expr][row] = {t} /\ Agree(t, CelTruth[e][row])

(* A comparison or membership by itself.                                   *)
LEMMA SimpleIsTranslatedRightly ==
  ASSUME NEW e \in Expressions, ~IsLogical(e)
  PROVE  IsTranslatedRightly(e)
<1>. SUFFICES ASSUME NEW row \in Rows
     PROVE  /\ CelTruth[e][row] \in CelValues
            /\ walkAST[e].outcome = "built" /\ CelTruth[e][row] # "unclaimed" =>
                 \E t : SqlTruths[walkAST[e].expr][row] = {t} /\ Agree(t, CelTruth[e][row])
  BY DEF IsTranslatedRightly
<1>1. CelTruth[e][row] = IF WellTyped(e, row) /\ IsPlainMembership(e)
                         THEN CelSimple(e, row) ELSE "unclaimed"
  BY CelIsDefined DEF CelStep
<1>2. walkAST[e] = parseCall(e)
  BY WalkIsDefined DEF WalkStep
<1>3. CelTruth[e][row] \in CelValues
  BY <1>1, CelSimpleType DEF CelValues
<1>. DEFINE c == walkAST[e].expr
<1>4. ASSUME walkAST[e].outcome = "built", CelTruth[e][row] # "unclaimed"
      PROVE  \E t : SqlTruths[c][row] = {t} /\ Agree(t, CelTruth[e][row])
  <2>1. c \in Conditions
    BY <1>4 DEF Conditions
  <2>2. ~IsJunction(c)
    BY <1>2, <1>4, SimpleIsNoJunction
  <2>3. SqlTruths[c][row] = {SqlTruth(c, row)}
    BY <2>1, <2>2, SqlIsDefined DEF SqlStep
  <2>4. Agree(SqlTruth(c, row), CelTruth[e][row])
    BY <1>1, <1>2, <1>4, SimpleAgrees
  <2>. QED BY <2>3, <2>4
<1>. QED BY <1>3, <1>4

(* A logical operator between filters that are.                            *)
LEMMA LogicalIsTranslatedRightly ==
  ASSUME NEW e \in Expressions, IsLogical(e),
         IsTranslatedRightly(e.args[1]), IsTranslatedRightly(e.args[2])
  PROVE  IsTranslatedRightly(e)
<1>. SUFFICES ASSUME NEW row \in Rows
     PROVE  /\ CelTruth[e][row] \in CelValues
            /\ walkAST[e].outcome = "built" /\ CelTruth[e][row] # "unclaimed" =>
                 \E t : SqlTruths[walkAST[e].expr][row] = {t} /\ Agree(t, CelTruth[e][row])
  BY DEF IsTranslatedRightly
<1>. DEFINE decides == IF e.function = "_&&_" THEN "false" ELSE "true"
            a == CelTruth[e.args[1]][row]
            b == CelTruth[e.args[2]][row]
            left == walkAST[e.args[1]].expr
            right == walkAST[e.args[2]].expr
            c == walkAST[e].expr
<1>1. CelTruth[e][row] = CelCombined(decides, a, b)
  BY CelIsDefined DEF CelStep
<1>2. a \in CelValues /\ b \in CelValues
  BY DEF IsTranslatedRightly
<1>3. CelTruth[e][row] \in CelValues
  BY <1>1, <1>2 DEF CelCombined, CelValues
<1>4. ASSUME walkAST[e].outcome = "built", CelTruth[e][row] # "unclaimed"
      PROVE  \E t : SqlTruths[c][row] = {t} /\ Agree(t, CelTruth[e][row])
  <2>1. walkAST[e] = parseLogical(e.function, walkAST[e.args[1]], walkAST[e.args[2]])
    BY WalkIsDefined DEF WalkStep
  <2>2. walkAST[e.args[1]].outcome = "built" /\ walkAST[e.args[2]].outcome = "built"
    BY <1>4, <2>1 DEF parseLogical
  <2>3. c = IF e.function = "_&&_" THEN And(left, right) ELSE Or(left, right)
    BY <2>1, <2>2 DEF parseLogical, Built
  <2>4. /\ IsJunction(c) /\ c.left = left /\ c.right = right
        /\ (c.sql = "and") <=> (e.function = "_&&_")
    BY <2>3 DEF And, Or, IsJunction
  <2>5. c \in Conditions
    BY <1>4 DEF Conditions
  <2>6. SqlTruths[c][row] = JunctionTruths(c, SqlTruths[left][row], SqlTruths[right][row])
    <3>. HIDE DEF c, left, right
    <3>1. SqlTruths[c] = SqlStep(SqlTruths, c)
      BY <2>5, SqlIsDefined
    <3>. QED BY <2>4, <3>1 DEF SqlStep
  <2>7. a # "unclaimed" /\ b # "unclaimed"
    BY <1>1, <1>4 DEF CelCombined
  <2>8. PICK l : SqlTruths[left][row] = {l} /\ Agree(l, a)
    BY <2>2, <2>7 DEF IsTranslatedRightly
  <2>9. PICK r : SqlTruths[right][row] = {r} /\ Agree(r, b)
    BY <2>2, <2>7 DEF IsTranslatedRightly
  <2>10. JunctionTruths(c, {l}, {r}) = Combined(decides, l, r)
    BY <2>4 DEF JunctionTruths
  <2>11. \E t : Combined(decides, l, r) = {t} /\ Agree(t, CelCombined(decides, a, b))
    <3>. HIDE DEF a, b
    <3>. QED BY <1>1, <1>2, <1>4, <2>8, <2>9, CombinedAgree
  <2>. QED BY <1>1, <2>6, <2>8, <2>9, <2>10, <2>11
<1>. QED BY <1>3, <1>4

(* Every filter, however deep: where it is built and compares values of    *)
(* one type, the statement does not fail, and the row is selected just     *)
(* when the filter is true of it (walkAST).                                *)
THEOREM FiltersAreTranslatedRightly == \A e \in Expressions : IsTranslatedRightly(e)
<1>. DEFINE T == {e \in Expressions : IsTranslatedRightly(e)}
<1>1. ASSUME NEW e \in Expressions, \A x \in Expressions : Depth[x] < Depth[e] => x \in T
      PROVE  e \in T
  <2>1. CASE IsLogical(e)
    <3>1. IsTranslatedRightly(e.args[1]) /\ IsTranslatedRightly(e.args[2])
      BY <1>1, <2>1, Sides
    <3>. QED BY <2>1, <3>1, LogicalIsTranslatedRightly
  <2>2. CASE ~IsLogical(e)
    BY <2>2, SimpleIsTranslatedRightly
  <2>. QED BY <2>1, <2>2
<1>2. Expressions \subseteq T
  <2>. HIDE DEF T
  <2>. QED BY <1>1, SyntaxTrees, Walk!Induction
<1>. QED BY <1>2

=============================================================================
