-------------------------- MODULE MigrationProofs --------------------------
(***************************************************************************)
(* The safety of migrations for any number of migrators: there is all of   *)
(* the schema or nothing, and its version is recorded once.  That Migrate  *)
(* returns is left to TLC.                                                 *)
(*                                                                         *)
(* The argument: whoever creates the first table finds no schema (else the *)
(* statement is refused), so the objects before it are its own; as what    *)
(* one transaction has made no other can have, nobody else gets to COMMIT  *)
(* before it has ended; so whoever gets there has everything, and nobody   *)
(* else is in the gap before the record.                                   *)
(***************************************************************************)
EXTENDS Migration, TLAPS

-----------------------------------------------------------------------------
(* The statements by their numbers.                                        *)

LEMMA StatementsByNumber ==
  /\ DOMAIN Statements = 1..9
  /\ Statements[1] = "BEGIN" /\ Statements[2] = "extensions" /\ Statements[3] = "schema"
  /\ Statements[4] = "function" /\ Statements[5] = "publishers" /\ Statements[6] = "documents"
  /\ Statements[7] = "artifact_types" /\ Statements[8] = "artifacts" /\ Statements[9] = "COMMIT"
  BY DEF Statements

LEMMA RunsByNumber ==
  ASSUME NEW m, next[m] \in 1..9, NEW statement, Runs(m, statement)
  PROVE  /\ statement = "BEGIN" => next[m] = 1
         /\ statement = "extensions" => next[m] = 2
         /\ statement = "schema" => next[m] = 3
         /\ statement = "function" => next[m] = 4
         /\ statement = "publishers" => next[m] = 5
         /\ statement = "documents" => next[m] = 6
         /\ statement = "artifact_types" => next[m] = 7
         /\ statement = "artifacts" => next[m] = 8
         /\ statement = "COMMIT" => next[m] = 9
<1>1. next[m] = 1 \/ next[m] = 2 \/ next[m] = 3 \/ next[m] = 4 \/ next[m] = 5
      \/ next[m] = 6 \/ next[m] = 7 \/ next[m] = 8 \/ next[m] = 9
  OBVIOUS
<1> QED
  BY <1>1, StatementsByNumber DEF Runs

\* What TransactionsAreComplete says of a migrator.
Complete(m) ==
  /\ next[m] > 2 => "extensions" \in Visible(m)
  /\ next[m] > 5 => {"schema", "function", "publishers"} \subseteq own[m]
  /\ next[m] > 6 => "documents" \in own[m]
  /\ next[m] > 7 => "artifact_types" \in own[m]
  /\ next[m] > 8 => "artifacts" \in own[m]

LEMMA PastByNumber ==
  ASSUME NEW m, next[m] \in 1..9
  PROVE  /\ Past(m, "extensions") <=> next[m] > 2
         /\ Past(m, "schema") <=> next[m] > 3
         /\ Past(m, "function") <=> next[m] > 4
         /\ Past(m, "publishers") <=> next[m] > 5
         /\ Past(m, "documents") <=> next[m] > 6
         /\ Past(m, "artifact_types") <=> next[m] > 7
         /\ Past(m, "artifacts") <=> next[m] > 8
<1>1. \A i \in 1..9 : i = 1 \/ i = 2 \/ i = 3 \/ i = 4 \/ i = 5 \/ i = 6 \/ i = 7 \/ i = 8 \/ i = 9
  OBVIOUS
<1>2. \A i \in 1..next[m] - 1 : i \in 1..9 /\ i < next[m]
  OBVIOUS
<1>3. \A i \in 1..9 : i < next[m] => i \in 1..next[m] - 1
  OBVIOUS
<1>4. Past(m, "extensions") <=> next[m] > 2
  BY <1>1, <1>2, <1>3, StatementsByNumber DEF Past
<1>5. Past(m, "schema") <=> next[m] > 3
  BY <1>1, <1>2, <1>3, StatementsByNumber DEF Past
<1>6. Past(m, "function") <=> next[m] > 4
  BY <1>1, <1>2, <1>3, StatementsByNumber DEF Past
<1>7. Past(m, "publishers") <=> next[m] > 5
  BY <1>1, <1>2, <1>3, StatementsByNumber DEF Past
<1>8. Past(m, "documents") <=> next[m] > 6
  BY <1>1, <1>2, <1>3, StatementsByNumber DEF Past
<1>9. Past(m, "artifact_types") <=> next[m] > 7
  BY <1>1, <1>2, <1>3, StatementsByNumber DEF Past
<1>10. Past(m, "artifacts") <=> next[m] > 8
  BY <1>1, <1>2, <1>3, StatementsByNumber DEF Past
<1> QED
  BY <1>4, <1>5, <1>6, <1>7, <1>8, <1>9, <1>10

InBounds == \A m \in Migrators : next[m] \in 1..9
AllComplete == \A m \in Migrators : Complete(m)

LEMMA CompleteByNumber == InBounds => (TransactionsAreComplete <=> AllComplete)
<1> SUFFICES ASSUME InBounds, NEW m \in Migrators
             PROVE  /\ Past(m, "extensions") => "extensions" \in Visible(m)
                    /\ (\E table \in Tables : Past(m, table)) =>
                         \A object \in Dropped : Past(m, object) => object \in own[m]
                    <=> Complete(m)
  BY DEF TransactionsAreComplete, AllComplete
<1> USE DEF InBounds
<1>1. (\E table \in Tables : Past(m, table)) <=> next[m] > 5
  BY PastByNumber DEF Tables
<1>2. Dropped = {"schema", "function", "publishers", "documents", "artifact_types", "artifacts"}
  BY DEF Dropped, Objects, Tables
<1> QED
  BY <1>1, <1>2, PastByNumber DEF Complete

-----------------------------------------------------------------------------
(* The steps of a migrator.                                                *)

\* What is there, without what a single step says about the numbers.
LEMMA Numbered ==
  ASSUME Invariant
  PROVE  /\ \A m \in Migrators : next[m] \in 1..9
         /\ \A m \in Migrators : Complete(m)
<1>1. InBounds
  BY StatementsByNumber DEF InBounds, Invariant, TypeOK
<1> QED
  BY <1>1, CompleteByNumber DEF InBounds, AllComplete, Invariant

\* A step within the bounds of the transaction: the database stays as it is.
LEMMA QuietStepsKeepInvariant ==
  ASSUME Invariant, NEW m \in Migrators, NEW s \in Stages \ {"recording"},
         stage[m] # "recording",
         Becomes(m, s),
         UNCHANGED <<objects, recorded, orphaned, resets>>,
         versionTable' \in BOOLEAN,
         \/ s = "running" /\ stage[m] = "running" /\ UNCHANGED own
              /\ next' = [next EXCEPT ![m] = @ + 1] /\ next[m] \in 1..8 /\ Complete(m)'
         \/ stage[m] # "running" /\ UNCHANGED <<own, next>>
         \/ Ends(m)
  PROVE  Invariant'
<1> USE DEF Invariant
<1>1. \A n \in Migrators : next[n] \in 1..9 /\ Complete(n)
  BY Numbered
<1>2. stage' = [stage EXCEPT ![m] = s] /\ stage' \in [Migrators -> Stages]
  BY DEF Becomes, TypeOK
<1>3. next' \in [Migrators -> 1..9]
  BY <1>1, StatementsByNumber DEF Ends, TypeOK
<1>4. /\ own' \in [Migrators -> SUBSET Objects]
      /\ \A n \in Migrators : own'[n] \subseteq own[n]
  BY DEF Ends, TypeOK
<1>5. \A n \in Migrators : stage'[n] # "running" => own'[n] = {} /\ next'[n] = 1
  BY <1>2 DEF Ends, TypeOK
<1>6. TypeOK'
  BY <1>2, <1>3, <1>4, <1>5, StatementsByNumber DEF TypeOK
<1>7. SchemaIsWhole' /\ VersionImpliesSchema'
  BY DEF SchemaIsWhole, VersionImpliesSchema
<1>8. UnrecordedSchemaIsExplained'
  BY <1>2 DEF UnrecordedSchemaIsExplained, TypeOK
<1>9. TransactionsAreApart'
  BY <1>4 DEF TransactionsAreApart
<1>10. \A n \in Migrators : Complete(n)'
  <2> SUFFICES ASSUME NEW n \in Migrators
               PROVE  Complete(n)'
    OBVIOUS
  <2>1. CASE n # m
    <3>1. next'[n] = next[n] /\ own'[n] = own[n]
      BY <2>1 DEF Ends, TypeOK
    <3> QED
      BY <1>1, <3>1 DEF Complete, Visible
  <2>2. CASE n = m /\ Ends(m)
    <3>1. next'[n] = 1
      BY <2>2 DEF Ends, TypeOK
    <3> QED
      BY <3>1 DEF Complete
  <2>3. CASE n = m /\ UNCHANGED <<own, next>>
    BY <1>1, <2>3 DEF Complete, Visible
  <2> QED
    BY <2>1, <2>2, <2>3
<1>11. TransactionsAreComplete'
  <2>1. InBounds' /\ AllComplete'
    BY <1>3, <1>10 DEF InBounds, AllComplete
  <2> QED
    BY <2>1, CompleteByNumber, PTL
<1>12. OneInTheGap'
  BY <1>2 DEF OneInTheGap, TypeOK
<1> QED
  BY <1>6, <1>7, <1>8, <1>9, <1>11, <1>12

LEMMA EarlyStepsKeepInvariant ==
  ASSUME Invariant, NEW m \in Migrators,
         Call(m) \/ EnsureDBVersion(m) \/ ListVersions(m) \/ Return(m)
  PROVE  Invariant'
<1>1. CASE Call(m)
  BY <1>1, QuietStepsKeepInvariant DEF Call, database, Stages, Invariant, TypeOK
<1>2. CASE EnsureDBVersion(m)
  BY <1>2, QuietStepsKeepInvariant DEF EnsureDBVersion, Stages
<1>3. CASE ListVersions(m)
  BY <1>3, QuietStepsKeepInvariant DEF ListVersions, database, Stages, Invariant, TypeOK
<1>4. CASE Return(m)
  BY <1>4, QuietStepsKeepInvariant DEF Return, database, Stages, Invariant, TypeOK
<1> QED
  BY <1>1, <1>2, <1>3, <1>4

LEMMA BeginKeepsInvariant ==
  ASSUME Invariant, NEW m \in Migrators, Begin(m)
  PROVE  Invariant'
<1>1. next[m] = 1
  BY Numbered, RunsByNumber DEF Begin
<1>2. Complete(m)'
  BY <1>1 DEF Complete, Begin, Goes, Invariant, TypeOK
<1>3. Becomes(m, "running") /\ stage[m] = "running"
  BY DEF Begin, Becomes, Runs, Invariant, TypeOK
<1>4. next' = [next EXCEPT ![m] = @ + 1] /\ next[m] \in 1..8
      /\ UNCHANGED <<own, objects, versionTable, recorded, orphaned, resets>>
  BY <1>1 DEF Begin, Goes, database
<1>5. versionTable' \in BOOLEAN
  BY <1>4 DEF Invariant, TypeOK
<1>6. "running" \in Stages \ {"recording"}
  BY DEF Stages
<1> QED
  BY <1>2, <1>3, <1>4, <1>5, <1>6, QuietStepsKeepInvariant

\* Who creates a table that is not there has made the schema it stands in.
LEMMA CreatedIsOwned ==
  ASSUME Invariant, NEW m \in Migrators, NEW object \in Tables,
         Requires(object) \subseteq Visible(m), object \notin objects
  PROVE  {"schema", "function"} \subseteq own[m]
<1>1. object \in Dropped
  BY DEF Dropped, Objects, Tables
<1>2. objects \cap Dropped = {}
  BY <1>1 DEF Invariant, SchemaIsWhole
<1>3. {"schema", "function"} \subseteq Requires(object)
  BY DEF Requires, Tables
<1> QED
  BY <1>2, <1>3 DEF Visible, Dropped, Objects

LEMMA CreateKeepsInvariant ==
  ASSUME Invariant, NEW m \in Migrators, Create(m)
  PROVE  Invariant'
<1> USE DEF Invariant
<1>1. PICK object \in Objects :
        /\ Runs(m, object)
        /\ Requires(object) \subseteq Visible(m)
        /\ \A other \in Migrators \ {m} : object \notin own[other]
        /\ \/ /\ object \notin objects \/ object = "function"
              /\ own' = [own EXCEPT ![m] = @ \cup {object}]
           \/ /\ object \in (objects \cap Repeatable) \ {"function"}
              /\ UNCHANGED own
  BY DEF Create
<1>2. next' = [next EXCEPT ![m] = @ + 1]
      /\ UNCHANGED <<stage, objects, versionTable, recorded, orphaned, resets>>
  BY DEF Create, Goes, database
<1>3. \A n \in Migrators : next[n] \in 1..9 /\ Complete(n)
  BY Numbered
<1>4. next[m] \in 2..8
  BY <1>1, <1>3, RunsByNumber DEF Objects, Tables
<1>5. next' \in [Migrators -> 1..9] /\ next'[m] = next[m] + 1
      /\ \A n \in Migrators \ {m} : next'[n] = next[n]
  BY <1>2, <1>3, <1>4, StatementsByNumber DEF TypeOK
<1>6. /\ own' \in [Migrators -> SUBSET Objects]
      /\ \A n \in Migrators \ {m} : own'[n] = own[n]
      /\ own[m] \subseteq own'[m] /\ own'[m] \subseteq own[m] \cup {object}
      /\ object \in objects \cup own'[m]
      /\ object \in Tables => own'[m] = own[m] \cup {object} /\ object \notin objects
  BY <1>1 DEF TypeOK, Repeatable, Tables
<1>7. TypeOK'
  <2>1. stage[m] = "running"
    BY <1>1 DEF Runs
  <2> QED
    BY <1>2, <1>5, <1>6, <2>1, StatementsByNumber DEF TypeOK
<1>8. SchemaIsWhole' /\ VersionImpliesSchema' /\ UnrecordedSchemaIsExplained' /\ OneInTheGap'
  BY <1>2 DEF SchemaIsWhole, VersionImpliesSchema, UnrecordedSchemaIsExplained, OneInTheGap
<1>9. TransactionsAreApart'
  <2>1. own'[m] \cap objects \subseteq {"function"}
    BY <1>1 DEF TransactionsAreApart, TypeOK
  <2>2. \A n \in Migrators \ {m} : own'[m] \cap own'[n] = {}
    BY <1>1, <1>6 DEF TransactionsAreApart
  <2> QED
    BY <1>2, <1>6, <2>1, <2>2 DEF TransactionsAreApart
<1>10. Complete(m)'
  <2>1. next'[m] > 2 => "extensions" \in Visible(m)'
    BY <1>1, <1>2, <1>3, <1>4, <1>5, <1>6, RunsByNumber DEF Complete, Visible, Objects, Tables
  <2>2. next'[m] > 5 => {"schema", "function", "publishers"} \subseteq own'[m]
    <3>1. CASE next[m] = 5
      <4>1. object = "publishers"
        BY <1>1, <1>3, <3>1, RunsByNumber DEF Objects, Tables
      <4>2. {"schema", "function"} \subseteq own[m]
        BY <1>1, <1>6, <4>1, CreatedIsOwned DEF Tables
      <4> QED
        BY <1>6, <4>1, <4>2 DEF Tables
    <3>2. CASE next[m] # 5
      BY <1>3, <1>4, <1>5, <1>6, <3>2 DEF Complete
    <3> QED
      BY <3>1, <3>2
  <2>3. next'[m] > 6 => "documents" \in own'[m]
    BY <1>1, <1>3, <1>4, <1>5, <1>6, RunsByNumber DEF Complete, Objects, Tables
  <2>4. next'[m] > 7 => "artifact_types" \in own'[m]
    BY <1>1, <1>3, <1>4, <1>5, <1>6, RunsByNumber DEF Complete, Objects, Tables
  <2>5. next'[m] > 8 => "artifacts" \in own'[m]
    BY <1>1, <1>3, <1>4, <1>5, <1>6, RunsByNumber DEF Complete, Objects, Tables
  <2> QED
    BY <2>1, <2>2, <2>3, <2>4, <2>5 DEF Complete
<1>11. TransactionsAreComplete'
  <2>1. InBounds'
    BY <1>5 DEF InBounds
  <2>2. \A n \in Migrators \ {m} : Complete(n)'
    BY <1>2, <1>3, <1>5, <1>6 DEF Complete, Visible
  <2>3. AllComplete'
    BY <1>10, <2>2 DEF AllComplete
  <2> QED
    BY <2>1, <2>3, CompleteByNumber, PTL
<1> QED
  BY <1>7, <1>8, <1>9, <1>11

LEMMA CommitFileKeepsInvariant ==
  ASSUME Invariant, NEW m \in Migrators, CommitFile(m)
  PROVE  Invariant'
<1> USE DEF Invariant
<1>1. /\ objects' = objects \cup own[m]
      /\ own' = [own EXCEPT ![m] = {}]
      /\ next' = [next EXCEPT ![m] = 1]
      /\ stage' = [stage EXCEPT ![m] = "recording"]
      /\ UNCHANGED <<versionTable, recorded, orphaned, resets>>
      /\ next[m] = 9
  BY Numbered, RunsByNumber DEF CommitFile, Ends, Becomes
<1>2. \A n \in Migrators : next[n] \in 1..9 /\ Complete(n)
  BY Numbered
<1>3. Dropped \subseteq own[m] /\ "extensions" \in objects \cup own[m]
  <2>1. Complete(m)
    BY <1>2
  <2> QED
    BY <1>1, <2>1 DEF Complete, Visible, Dropped, Objects, Tables
<1>4. objects' = Objects
  BY <1>1, <1>3 DEF TypeOK, Dropped
<1>5. objects \cap Dropped = {}
  <2>1. "publishers" \in own[m] /\ "publishers" \in Dropped
    BY <1>3 DEF Dropped, Objects, Tables
  <2>2. "publishers" \notin objects
    BY <2>1 DEF TransactionsAreApart
  <2> QED
    BY <2>1, <2>2 DEF SchemaIsWhole
<1>6. objects # Objects
  BY <1>5 DEF Dropped, Objects, Tables
<1>7. recorded = 0
  BY <1>6 DEF VersionImpliesSchema, TypeOK
<1>8. \A n \in Migrators : stage[n] # "recording"
  BY <1>6 DEF OneInTheGap
<1>9. /\ own' \in [Migrators -> SUBSET Objects] /\ own'[m] = {}
      /\ next' \in [Migrators -> 1..9] /\ next'[m] = 1
      /\ stage' \in [Migrators -> Stages] /\ stage'[m] = "recording"
      /\ \A n \in Migrators \ {m} :
           own'[n] = own[n] /\ next'[n] = next[n] /\ stage'[n] = stage[n]
  BY <1>1, StatementsByNumber DEF TypeOK, Stages
<1>10. TypeOK'
  BY <1>1, <1>4, <1>9, StatementsByNumber DEF TypeOK
<1>11. SchemaIsWhole' /\ VersionImpliesSchema' /\ UnrecordedSchemaIsExplained'
  BY <1>1, <1>4, <1>7, <1>9
     DEF SchemaIsWhole, VersionImpliesSchema, UnrecordedSchemaIsExplained, Dropped
<1>12. TransactionsAreApart'
  <2>1. \A n \in Migrators \ {m} : own[n] \cap (objects \cup own[m]) \subseteq {"function"}
    BY DEF TransactionsAreApart
  <2> QED
    BY <1>1, <1>9, <2>1 DEF TransactionsAreApart
<1>13. TransactionsAreComplete'
  <2>1. InBounds'
    BY <1>9 DEF InBounds
  <2>2. \A n \in Migrators \ {m} : Complete(n)'
    BY <1>1, <1>2, <1>9 DEF Complete, Visible
  <2>3. Complete(m)'
    BY <1>9 DEF Complete
  <2>4. AllComplete'
    BY <2>2, <2>3 DEF AllComplete
  <2> QED
    BY <2>1, <2>4, CompleteByNumber, PTL
<1>14. OneInTheGap'
  BY <1>1, <1>4, <1>7, <1>8, <1>9 DEF OneInTheGap
<1> QED
  BY <1>10, <1>11, <1>12, <1>13, <1>14

\* In the gap, and out of it: nobody's transaction is touched.
LEMMA GapStepsKeepInvariant ==
  ASSUME Invariant, NEW m \in Migrators, stage[m] = "recording",
         NEW s \in {"listing", "failed", "idle"}, Becomes(m, s),
         UNCHANGED <<own, next, objects, versionTable, resets>>,
         \/ recorded' = 1 /\ UNCHANGED orphaned
         \/ orphaned' = TRUE /\ UNCHANGED recorded
  PROVE  Invariant'
<1> USE DEF Invariant
<1>1. stage' \in [Migrators -> Stages]
      /\ \A n \in Migrators : stage'[n] = IF n = m THEN s ELSE stage[n]
  BY DEF Becomes, TypeOK, Stages
<1>2. objects = Objects /\ recorded = 0 /\ \A n \in Migrators \ {m} : stage[n] # "recording"
  BY DEF OneInTheGap
<1>3. TypeOK'
  <2>1. recorded' \in Nat
    <3>1. recorded' = 0 \/ recorded' = 1
      BY <1>2
    <3> QED
      BY <3>1
  <2>2. orphaned' \in BOOLEAN
    BY DEF TypeOK
  <2>3. \A n \in Migrators : stage'[n] # "running" => own[n] = {} /\ next[n] = 1
    BY <1>1 DEF TypeOK
  <2> QED
    BY <1>1, <2>1, <2>2, <2>3 DEF TypeOK
<1>4. SchemaIsWhole' /\ VersionImpliesSchema' /\ UnrecordedSchemaIsExplained'
  BY <1>2 DEF SchemaIsWhole, VersionImpliesSchema, UnrecordedSchemaIsExplained
<1>5. TransactionsAreApart'
  BY DEF TransactionsAreApart
<1>6. TransactionsAreComplete'
  BY DEF TransactionsAreComplete, Past, Visible
<1>7. OneInTheGap'
  BY <1>1, <1>2 DEF OneInTheGap
<1> QED
  BY <1>3, <1>4, <1>5, <1>6, <1>7

LEMMA RecordVersionKeepsInvariant ==
  ASSUME Invariant, NEW m \in Migrators, RecordVersion(m)
  PROVE  Invariant'
<1>1. recorded = 0
  BY DEF RecordVersion, Invariant, OneInTheGap
<1> QED
  BY <1>1, GapStepsKeepInvariant DEF RecordVersion

\* A migrator that ends with an error or with its process.
LEMMA EndsKeepInvariant ==
  ASSUME Invariant, NEW m \in Migrators, NEW s \in {"failed", "idle"},
         Becomes(m, s), Ends(m), Orphans(m),
         UNCHANGED <<objects, versionTable, recorded, resets>>
  PROVE  Invariant'
<1>1. CASE stage[m] = "recording"
  <2>1. UNCHANGED <<own, next>>
    BY <1>1 DEF Ends, Invariant, TypeOK
  <2> QED
    BY <1>1, <2>1, GapStepsKeepInvariant DEF Orphans
<1>2. CASE stage[m] # "recording"
  <2>1. UNCHANGED orphaned /\ versionTable' \in BOOLEAN
    BY <1>2 DEF Orphans, Invariant, TypeOK
  <2>2. s \in Stages \ {"recording"}
    BY DEF Stages
  <2> QED
    BY <1>2, <2>1, <2>2, QuietStepsKeepInvariant
<1> QED
  BY <1>1, <1>2

LEMMA FailKeepsInvariant ==
  ASSUME Invariant, NEW m \in Migrators, Fail(m)
  PROVE  Invariant'
<1>1. stage[m] # "recording"
  BY DEF Fail, Refused, Runs
<1>2. Orphans(m)
  BY <1>1 DEF Fail, database, Orphans, Invariant, TypeOK
<1> QED
  BY <1>2, EndsKeepInvariant DEF Fail, database

LEMMA ResetKeepsInvariant ==
  ASSUME Invariant, Reset
  PROVE  Invariant'
<1> USE DEF Invariant
<1>1. recorded = 1 /\ objects = Objects
  BY DEF Reset, VersionImpliesSchema, TypeOK
<1>2. \A m \in Migrators : stage[m] # "recording"
  <2>1. recorded # 0
    BY <1>1
  <2> QED
    BY <2>1 DEF OneInTheGap
<1>3. objects' = {"extensions"} /\ recorded' = 0 /\ UNCHANGED <<stage, next, own, versionTable, orphaned>>
  BY <1>1 DEF Reset, Dropped, Objects, Tables
<1>4. TypeOK'
  BY <1>3, MigrationAssumption DEF TypeOK, Reset, Objects
<1>5. objects' \cap Dropped = {} /\ Dropped # {}
  BY <1>3 DEF Dropped, Objects, Tables
<1>6. SchemaIsWhole' /\ VersionImpliesSchema' /\ UnrecordedSchemaIsExplained'
  BY <1>3, <1>5 DEF SchemaIsWhole, VersionImpliesSchema, UnrecordedSchemaIsExplained
<1>7. TransactionsAreApart'
  BY <1>1, <1>3 DEF TransactionsAreApart, Objects
<1>8. TransactionsAreComplete'
  BY <1>3 DEF TransactionsAreComplete, Past, Visible
<1>9. OneInTheGap'
  BY <1>2, <1>3 DEF OneInTheGap
<1> QED
  BY <1>4, <1>6, <1>7, <1>8, <1>9

-----------------------------------------------------------------------------
(* The theorems.                                                           *)

LEMMA InitEstablishesInvariant ==
  ASSUME Init
  PROVE  Invariant
<1>1. TypeOK
  <2>1. 1 \in DOMAIN Statements
    BY StatementsByNumber
  <2>2. resets \in 0..MaxResets /\ recorded \in Nat
    BY MigrationAssumption DEF Init
  <2>3. next \in [Migrators -> DOMAIN Statements] /\ stage \in [Migrators -> Stages]
    BY <2>1 DEF Init, Stages
  <2> QED
    BY <2>2, <2>3 DEF Init, TypeOK
<1>2. SchemaIsWhole /\ VersionImpliesSchema /\ UnrecordedSchemaIsExplained
  BY DEF Init, SchemaIsWhole, VersionImpliesSchema, UnrecordedSchemaIsExplained, Dropped,
         Objects, Tables
<1>3. TransactionsAreApart /\ OneInTheGap
  BY DEF Init, TransactionsAreApart, OneInTheGap
<1>4. TransactionsAreComplete
  <2>1. \A m \in Migrators : next[m] = 1
    BY DEF Init
  <2>2. ~ \E i \in 1..1 - 1 : TRUE
    OBVIOUS
  <2>3. \A m \in Migrators : \A object : ~ Past(m, object)
    BY <2>1, <2>2 DEF Past
  <2> QED
    BY <2>3 DEF TransactionsAreComplete
<1> QED
  BY <1>1, <1>2, <1>3, <1>4 DEF Invariant

LEMMA StepsKeepInvariant ==
  ASSUME Invariant, [Next]_vars
  PROVE  Invariant'
<1>1. CASE UNCHANGED vars
  BY <1>1 DEF vars, Invariant, TypeOK, SchemaIsWhole, VersionImpliesSchema,
     UnrecordedSchemaIsExplained, TransactionsAreApart, TransactionsAreComplete, Past, Visible,
     OneInTheGap
<1>2. ASSUME NEW m \in Migrators, Step(m)
      PROVE  Invariant'
  BY <1>2, EarlyStepsKeepInvariant, BeginKeepsInvariant, CreateKeepsInvariant,
     CommitFileKeepsInvariant, RecordVersionKeepsInvariant, FailKeepsInvariant DEF Step
<1>3. ASSUME NEW m \in Migrators, Break(m) \/ Crash(m)
      PROVE  Invariant'
  BY <1>3, EndsKeepInvariant DEF Break, Crash
<1> QED
  BY <1>1, <1>2, <1>3, EarlyStepsKeepInvariant, ResetKeepsInvariant DEF Next

(* Open transactions stay apart and hold what they have created, and at    *)
(* most one migrator is between its COMMIT and the record of the version.  *)
THEOREM InvariantHolds == Spec => []Invariant
<1>1. Init => Invariant
  BY InitEstablishesInvariant
<1>2. Invariant /\ [Next]_vars => Invariant'
  BY StepsKeepInvariant
<1> QED
  BY <1>1, <1>2, PTL DEF Spec

(* The variables have their types, and no transaction outlives its run.    *)
THEOREM TypeCorrect == Spec => []TypeOK
<1>1. Invariant => TypeOK
  BY DEF Invariant
<1> QED
  BY <1>1, InvariantHolds, PTL

(* There is all of the schema or nothing.                                  *)
THEOREM SchemaStaysWhole == Spec => []SchemaIsWhole
<1>1. Invariant => SchemaIsWhole
  BY DEF Invariant
<1> QED
  BY <1>1, InvariantHolds, PTL

(* The version is recorded once, and only when the schema is there.        *)
THEOREM VersionsAreTrue == Spec => []VersionImpliesSchema
<1>1. Invariant => VersionImpliesSchema
  BY DEF Invariant
<1> QED
  BY <1>1, InvariantHolds, PTL

(* A schema without its version comes from the gap between the commits.    *)
THEOREM UnrecordedIsExplained == Spec => []UnrecordedSchemaIsExplained
<1>1. Invariant => UnrecordedSchemaIsExplained
  BY DEF Invariant
<1> QED
  BY <1>1, InvariantHolds, PTL

-----------------------------------------------------------------------------
(* Waiting.                                                                *)

\* What m has created are statements it has run.
OwnIsPast == \A m \in Migrators : \A object \in own[m] : Past(m, object)

\* No statement stands in the file twice.
LEMMA StatementsDiffer ==
  ASSUME NEW i \in DOMAIN Statements, NEW j \in DOMAIN Statements,
         Statements[i] = Statements[j]
  PROVE  i = j
BY StatementsByNumber

LEMMA StepsKeepOwnIsPast ==
  ASSUME Invariant, OwnIsPast, [Next]_vars
  PROVE  OwnIsPast'
<1>1. CASE UNCHANGED <<own, next>>
  BY <1>1 DEF OwnIsPast, Past
<1>2. ASSUME NEW m \in Migrators, Ends(m)
      PROVE  OwnIsPast'
  <2>1. \A n \in Migrators :
          /\ own'[n] = IF n = m THEN {} ELSE own[n]
          /\ n # m => next'[n] = next[n]
    BY <1>2 DEF Ends, Invariant, TypeOK
  <2>. QED BY <2>1 DEF OwnIsPast, Past
<1>3. ASSUME NEW m \in Migrators, Begin(m) \/ Create(m)
      PROVE  OwnIsPast'
  <2>1. next' = [next EXCEPT ![m] = @ + 1] /\ next[m] \in 1..9
    BY <1>3, Numbered DEF Begin, Create, Goes
  <2>2. next'[m] = next[m] + 1 /\ \A n \in Migrators \ {m} : next'[n] = next[n]
    BY <2>1 DEF Invariant, TypeOK
  <2>3. own' = own \/ \E object : own' = [own EXCEPT ![m] = @ \cup {object}]
                                  /\ Statements[next[m]] = object
    BY <1>3 DEF Begin, Create, Runs
  <2>4. \A n \in Migrators : \A object \in own'[n] :
          object \in own[n] \/ (n = m /\ Statements[next[m]] = object)
    BY <2>3 DEF Invariant, TypeOK
  <2>5. \A object : Past(m, object) \/ Statements[next[m]] = object => Past(m, object)'
    <3>1. \A i \in 1..next[m] - 1 : i \in 1..next'[m] - 1
      BY <2>1, <2>2
    <3>2. next[m] \in 1..next'[m] - 1
      BY <2>1, <2>2
    <3>. QED BY <3>1, <3>2 DEF Past
  <2>6. \A n \in Migrators \ {m} : \A object : Past(n, object) => Past(n, object)'
    BY <2>2 DEF Past
  <2>. QED BY <2>4, <2>5, <2>6 DEF OwnIsPast
<1>4. ASSUME NEW m \in Migrators,
             Call(m) \/ Step(m) \/ Break(m) \/ Crash(m) \/ Return(m)
      PROVE  OwnIsPast'
  BY <1>1, <1>2, <1>3, <1>4
     DEF Call, Step, EnsureDBVersion, ListVersions, CommitFile, RecordVersion, Fail, Break,
         Crash, Return
<1>. QED BY <1>1, <1>4 DEF Next, vars, Reset

(* Whoever waits, waits for a migrator that is under way and further on.   *)
THEOREM WaitsAreOrderedHolds == Spec => []WaitsAreOrdered
<1>1. Init => OwnIsPast
  BY DEF Init, OwnIsPast
<1>2. Invariant /\ OwnIsPast /\ [Next]_vars => OwnIsPast'
  BY StepsKeepOwnIsPast
<1>3. Invariant /\ OwnIsPast => WaitsAreOrdered
  <2>1. SUFFICES ASSUME Invariant, OwnIsPast, NEW m \in Migrators, NEW other \in Migrators,
                        NEW object \in own[other], Runs(m, object)
                 PROVE  stage[other] = "running" /\ next[m] < next[other]
    BY DEF WaitsAreOrdered, WaitsFor
  <2>2. PICK i \in 1..next[other] - 1 : Statements[i] = object
    BY <2>1 DEF OwnIsPast, Past
  <2>3. next[m] \in 1..9 /\ next[other] \in 1..9 /\ i \in 1..9
    BY <2>1, <2>2, Numbered
  <2>4. i = next[m]
    BY <2>1, <2>2, <2>3, StatementsDiffer, StatementsByNumber DEF Runs
  <2>5. stage[other] = "running"
    BY <2>1 DEF Invariant, TypeOK
  <2>. QED BY <2>2, <2>3, <2>4, <2>5
<1>. QED BY <1>1, <1>2, <1>3, InvariantHolds, PTL DEF Spec

-----------------------------------------------------------------------------
(* The refinement: of all steps, three are seen in the database.            *)

LEMMA SchemaIsSeenWhole ==
  ASSUME objects = Objects
  PROVE  Schema = "whole"
BY DEF Schema, Dropped, Objects, Tables

LEMMA SchemaIsSeenGone ==
  ASSUME objects \cap Dropped = {}
  PROVE  Schema = "none"
<1>1. ~ Dropped \subseteq objects
  <2>1. "schema" \in Dropped
    BY DEF Dropped, Objects, Tables
  <2>. QED BY <2>1
<1>. QED BY <1>1 DEF Schema

LEMMA CommitFileApplies ==
  ASSUME Invariant, NEW m \in Migrators, CommitFile(m)
  PROVE  Versioned!Apply
<1>1. Invariant'
  BY CommitFileKeepsInvariant
<1>2. stage' = [stage EXCEPT ![m] = "recording"] /\ recorded' = recorded
      /\ objects' = objects \cup own[m] /\ next[m] = 9
  BY Numbered, RunsByNumber DEF CommitFile, Becomes, Invariant
<1>3. objects' = Objects
  <2>1. stage'[m] = "recording"
    BY <1>2 DEF Invariant, TypeOK
  <2>. QED BY <1>1, <2>1 DEF Invariant, OneInTheGap
<1>4. Schema' = "whole"
  BY <1>3 DEF Schema, Dropped, Objects, Tables
<1>5. Schema = "none"
  <2>1. "publishers" \in own[m]
    <3>1. next[m] > 5
      BY <1>2
    <3>. QED BY <3>1, Numbered DEF Complete, Invariant
  <2>2. "publishers" \notin objects
    BY <2>1 DEF Invariant, TransactionsAreApart
  <2>. QED BY <2>2 DEF Invariant, SchemaIsWhole, Schema, Dropped, Objects, Tables
<1>. QED BY <1>2, <1>4, <1>5 DEF Versioned!Apply

LEMMA RecordVersionRecords ==
  ASSUME Invariant, NEW m \in Migrators, RecordVersion(m)
  PROVE  Versioned!Record
<1>1. objects = Objects /\ recorded = 0
  BY DEF RecordVersion, Invariant, OneInTheGap
<1>2. objects' = objects /\ recorded' = 1
  BY <1>1 DEF RecordVersion
<1>3. Schema = "whole" /\ Schema' = Schema
  BY <1>1, <1>2, SchemaIsSeenWhole DEF Schema
<1>. QED BY <1>1, <1>2, <1>3 DEF Versioned!Record

LEMMA ResetTakesBack ==
  ASSUME Invariant, Reset
  PROVE  Versioned!TakeBack
<1>1. recorded = 1
  BY DEF Reset, Invariant, TypeOK, VersionImpliesSchema
<1>2. objects' \cap Dropped = {}
  BY DEF Reset
<1>3. Schema' = "none"
  <2>1. "schema" \in Dropped
    BY DEF Dropped, Objects, Tables
  <2>2. ~ Dropped \subseteq objects'
    BY <1>2, <2>1
  <2>. QED BY <1>2, <2>2 DEF Schema
<1>. QED BY <1>1, <1>3 DEF Reset, Versioned!TakeBack

LEMMA OtherStepsAreNotSeen ==
  ASSUME NEW m \in Migrators,
         \/ Call(m) \/ EnsureDBVersion(m) \/ ListVersions(m) \/ Begin(m) \/ Create(m)
         \/ Fail(m) \/ Break(m) \/ Crash(m) \/ Return(m)
  PROVE  UNCHANGED <<Schema, recorded>>
<1>1. UNCHANGED <<objects, recorded>>
  BY DEF Call, EnsureDBVersion, ListVersions, Begin, Create, Fail, Break, Crash, Return, database
<1>. QED BY <1>1 DEF Schema

(* For any number of migrators, failing anywhere, the database goes        *)
(* through the steps of VersionedSchema: the schema comes as a whole with  *)
(* a COMMIT of the file, is recorded once, and goes with its version.      *)
THEOREM Implementation == Spec => ImplementsVersionedSchema
<1>1. Init => Versioned!Init
  BY SchemaIsSeenGone DEF Init, Versioned!Init
<1>2. Invariant /\ [Next]_vars => [Versioned!Next]_<<Schema, recorded>>
  <2>. SUFFICES ASSUME Invariant, [Next]_vars
                PROVE  Versioned!Next \/ UNCHANGED <<Schema, recorded>>
    OBVIOUS
  <2>1. CASE UNCHANGED vars
    BY <2>1 DEF vars, Schema
  <2>2. CASE Reset
    BY <2>2, ResetTakesBack DEF Versioned!Next
  <2>3. CASE \E m \in Migrators : Call(m) \/ Step(m) \/ Break(m) \/ Crash(m) \/ Return(m)
    BY <2>3, CommitFileApplies, RecordVersionRecords, OtherStepsAreNotSeen
       DEF Step, Versioned!Next
  <2>. QED BY <2>1, <2>2, <2>3 DEF Next
<1>. QED BY InvariantHolds, <1>1, <1>2, PTL DEF Spec, ImplementsVersionedSchema, Versioned!Spec

=============================================================================
