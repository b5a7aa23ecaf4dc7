----------------------------- MODULE Migration -----------------------------
(***************************************************************************)
(* pkg.Migrate: goose brings the schema of database/migrations into the    *)
(* database.  Several migrators may run at once, and each may die anywhere; *)
(* an operator's CLI may take the schema back.                             *)
(*                                                                         *)
(* goose runs the statements of the file in a transaction of its own and   *)
(* records the version in it.  But the file has a COMMIT as well, so that  *)
(* the transaction is over before the version is recorded.  Nothing locks  *)
(* the migrators out: they meet at the objects they create.                *)
(***************************************************************************)
EXTENDS Naturals, Sequences

CONSTANTS
  Migrators,  \* the running calls of Migrate
  MaxResets   \* bound: how often the schema is taken back

ASSUME MigrationAssumption == MaxResets \in Nat

VARIABLES
  stage,        \* where each migrator is
  next,         \* the statement it runs next, 1 when it runs none
  own,          \* what its open transaction has created
  objects,      \* what is committed
  versionTable, \* goose_db_version exists
  recorded,     \* how many rows it has for this version
  orphaned,     \* history: a migrator ended between its COMMIT and the record
  resets        \* how often the schema has been taken back

vars == <<stage, next, own, objects, versionTable, recorded, orphaned, resets>>
database == <<objects, versionTable, recorded, orphaned, resets>>

-----------------------------------------------------------------------------
(* The file.                                                               *)

Tables == {"publishers", "documents", "artifact_types", "artifacts"}

\* "extensions" are pg_jsonschema, pg_partman and the latter's schema.
Objects == Tables \cup {"extensions", "schema", "function"}

\* The COMMIT stands before the last table.
Statements_CommitsEarly ==
  <<"BEGIN", "extensions", "schema", "function", "publishers", "documents",
    "artifact_types", "COMMIT", "artifacts">>

\* An object stands for the statement that creates it.  The BEGIN is in a
\* transaction already and does nothing.
Statements ==
  <<"BEGIN", "extensions", "schema", "function", "publishers", "documents",
    "artifact_types", "artifacts", "COMMIT">>

\* IF NOT EXISTS for the tables, too.
Repeatable_Tables == Objects

\* IF NOT EXISTS, OR REPLACE.
Repeatable == {"extensions", "schema", "function"}

\* What a statement mentions.
Requires(object) ==
  CASE object \in {"extensions", "schema"} -> {}
    [] object = "function" -> {"schema"}
    [] object \in {"publishers", "artifact_types"} -> {"schema", "function"}
    [] object = "documents" -> {"schema", "function", "publishers"}
    [] object = "artifacts" -> {"schema", "function", "artifact_types", "documents"}

\* What the Down part drops, in a transaction together with the version.
Dropped == Objects \ {"extensions"}

-----------------------------------------------------------------------------
Init ==
  /\ stage = [m \in Migrators |-> "idle"]
  /\ next = [m \in Migrators |-> 1]
  /\ own = [m \in Migrators |-> {}]
  /\ objects = {}
  /\ versionTable = FALSE
  /\ recorded = 0
  /\ orphaned = FALSE
  /\ resets = 0

-----------------------------------------------------------------------------
Becomes(m, s) == stage' = [stage EXCEPT ![m] = s]
Goes(m) == next' = [next EXCEPT ![m] = @ + 1]

\* Migrate is called, and looks for the table of versions.
Call(m) ==
  /\ stage[m] = "idle"
  /\ Becomes(m, IF versionTable THEN "listing" ELSE "creating")
  /\ UNCHANGED <<next, own, database>>

\* EnsureDBVersion: another migrator may have been faster.
EnsureDBVersion(m) ==
  /\ stage[m] = "creating"
  /\ versionTable' = TRUE
  /\ Becomes(m, IF versionTable THEN "failed" ELSE "listing")
  /\ UNCHANGED <<next, own, objects, recorded, orphaned, resets>>

\* Up's loop: what the database has, and whether a migration follows it.
ListVersions(m) ==
  /\ stage[m] = "listing"
  /\ Becomes(m, IF recorded > 0 THEN "done" ELSE "running")
  /\ UNCHANGED <<next, own, database>>

-----------------------------------------------------------------------------
(* The statements of the file.                                             *)

Runs(m, statement) ==
  /\ stage[m] = "running"
  /\ Statements[next[m]] = statement

Visible(m) == objects \cup own[m]

Begin(m) ==
  /\ Runs(m, "BEGIN")
  /\ Goes(m)
  /\ UNCHANGED <<stage, own, database>>

\* Where another open transaction has made the object, the statement waits
\* for the end of that transaction.
Create(m) ==
  \E object \in Objects :
    /\ Runs(m, object)
    /\ Requires(object) \subseteq Visible(m)
    /\ \A other \in Migrators \ {m} : object \notin own[other]
    /\ \/ /\ object \notin objects \/ object = "function"
          /\ own' = [own EXCEPT ![m] = @ \cup {object}]
       \/ /\ object \in (objects \cap Repeatable) \ {"function"}
          /\ UNCHANGED own
    /\ Goes(m)
    /\ UNCHANGED <<stage, database>>

\* The transaction of m is over.
Ends(m) ==
  /\ own' = [own EXCEPT ![m] = {}]
  /\ next' = [next EXCEPT ![m] = 1]

\* The version is recorded before the file has run to its end.
CommitFile_Records(m) ==
  /\ Runs(m, "COMMIT")
  /\ objects' = objects \cup own[m]
  /\ recorded' = recorded + 1
  /\ Ends(m)
  /\ Becomes(m, "recording")
  /\ UNCHANGED <<versionTable, orphaned, resets>>

\* The file's COMMIT ends goose's transaction.
CommitFile(m) ==
  /\ Runs(m, "COMMIT")
  /\ objects' = objects \cup own[m]
  /\ Ends(m)
  /\ Becomes(m, "recording")
  /\ UNCHANGED <<versionTable, recorded, orphaned, resets>>

\* An error of InsertVersion is dropped.
RecordVersion_IgnoresError(m) ==
  /\ stage[m] = "recording"
  /\ recorded' \in {recorded, recorded + 1}
  /\ Becomes(m, "listing")
  /\ UNCHANGED <<next, own, objects, versionTable, orphaned, resets>>

\* InsertVersion.  goose's own Commit finds no transaction and warns; then Up
\* looks again.
RecordVersion(m) ==
  /\ stage[m] = "recording"
  /\ recorded' = recorded + 1
  /\ Becomes(m, "listing")
  /\ UNCHANGED <<next, own, objects, versionTable, orphaned, resets>>

-----------------------------------------------------------------------------
(* Ends.                                                                   *)

Orphans(m) == orphaned' = (orphaned \/ stage[m] = "recording")

\* A statement refers to what is not there, or creates what is.
Refused(m) ==
  \E object \in Objects :
    /\ Runs(m, object)
    /\ \/ ~ Requires(object) \subseteq Visible(m)
       \/ object \in objects \ Repeatable

\* The transaction stays open in a connection nobody closes.
Fail_KeepsTransaction(m) ==
  /\ Refused(m)
  /\ Becomes(m, "failed")
  /\ UNCHANGED <<next, own, database>>

\* goose rolls back, and Migrate closes its database.
Fail(m) ==
  /\ Refused(m)
  /\ Ends(m)
  /\ Becomes(m, "failed")
  /\ UNCHANGED database

\* Any statement may fail for a reason of its own (a right, a disk, a
\* conflict, the connection).
Break(m) ==
  /\ stage[m] \in {"creating", "listing", "running", "recording"}
  /\ Ends(m)
  /\ Orphans(m)
  /\ Becomes(m, "failed")
  /\ UNCHANGED <<objects, versionTable, recorded, resets>>

\* The process dies, and PostgreSQL rolls back.
Crash(m) ==
  /\ stage[m] # "idle"
  /\ Ends(m)
  /\ Orphans(m)
  /\ Becomes(m, "idle")
  /\ UNCHANGED <<objects, versionTable, recorded, resets>>

\* Migrate has returned, and may be called again.
Return(m) ==
  /\ stage[m] \in {"done", "failed"}
  /\ Becomes(m, "idle")
  /\ UNCHANGED <<next, own, database>>

\* `goose reset`: the Down part of a recorded migration, which waits for who
\* holds what it drops.
Reset ==
  /\ recorded > 0
  /\ resets < MaxResets
  /\ Dropped \subseteq objects
  /\ \A m \in Migrators : own[m] \cap Dropped = {}
  /\ objects' = objects \ Dropped
  /\ recorded' = 0
  /\ resets' = resets + 1
  /\ UNCHANGED <<stage, next, own, versionTable, orphaned>>

-----------------------------------------------------------------------------
Step(m) ==
  \/ EnsureDBVersion(m) \/ ListVersions(m) \/ Begin(m) \/ Create(m) \/ CommitFile(m)
  \/ RecordVersion(m) \/ Fail(m)

Next ==
  \/ \E m \in Migrators : Call(m) \/ Step(m) \/ Break(m) \/ Crash(m) \/ Return(m)
  \/ Reset

(***************************************************************************)
(* A migrator that has begun goes on.  PostgreSQL wakes whoever waits for  *)
(* a transaction when that ends, before another one has connected and come *)
(* so far; so a statement that can run again and again does run.  Nobody   *)
(* has to call Migrate, and nothing has to break.                          *)
(***************************************************************************)
Fairness == \A m \in Migrators : WF_vars(Step(m)) /\ SF_vars(Create(m))

Spec == Init /\ [][Next]_vars /\ Fairness

-----------------------------------------------------------------------------
(* Properties.                                                             *)

Stages == {"idle", "creating", "listing", "running", "recording", "done", "failed"}

(* Types; a transaction is open only while the file runs.                  *)
TypeOK ==
  /\ stage \in [Migrators -> Stages]
  /\ next \in [Migrators -> DOMAIN Statements]
  /\ own \in [Migrators -> SUBSET Objects]
  /\ \A m \in Migrators : stage[m] # "running" => own[m] = {} /\ next[m] = 1
  /\ objects \in SUBSET Objects
  /\ versionTable \in BOOLEAN
  /\ recorded \in Nat
  /\ orphaned \in BOOLEAN
  /\ resets \in 0..MaxResets

(* Nobody sees a part of the schema: with several migrators, failures and  *)
(* crashes anywhere in the file, there is all of it or nothing.            *)
SchemaIsWhole == objects \cap Dropped \in {{}, Dropped}

(* The version is recorded once at most, and only with the schema there,   *)
(* although the two are committed one after the other.                     *)
VersionImpliesSchema ==
  /\ recorded <= 1
  /\ recorded = 1 => objects = Objects

(* A schema without its version, on which every further Up fails, comes    *)
(* from the one gap between the two commits: some migrator is in it, or    *)
(* has ended in it.                                                        *)
UnrecordedSchemaIsExplained ==
  Dropped \subseteq objects /\ recorded = 0 =>
    orphaned \/ \E m \in Migrators : stage[m] = "recording"

\* What whoever looks at the database finds of the schema.
Schema ==
  CASE objects \cap Dropped = {} -> "none"
    [] Dropped \subseteq objects -> "whole"
    [] OTHER -> "torn"

Versioned == INSTANCE VersionedSchema WITH schema <- Schema, versions <- recorded

(* Whatever the migrators do to each other, the database goes through the  *)
(* three steps of VersionedSchema only: a COMMIT of the file applies all   *)
(* of it, InsertVersion records it once, Down takes both back, and nothing *)
(* else changes what is seen of them (database/migrations, goose's Up).    *)
ImplementsVersionedSchema == Versioned!Spec

\* The next statement of m makes what the open transaction of other has made.
WaitsFor(m, other) == \E object \in own[other] : Runs(m, object)

(* Whoever waits for a transaction waits for one that is under way and     *)
(* further on in the file, so that no migrators wait for each other in a   *)
(* circle: all run the same statements in the same order, and one that     *)
(* fails lets go of what it has made (Migrate, goose's Up).                *)
WaitsAreOrdered ==
  \A m, other \in Migrators : m # other /\ WaitsFor(m, other) =>
    stage[other] = "running" /\ next[m] < next[other]

Busy(m) == stage[m] \in {"creating", "listing", "running", "recording"}

(* Migrate returns (or its process dies), also when another migrator holds *)
(* what it waits for.                                                      *)
MigrateReturns == \A m \in Migrators : Busy(m) ~> ~ Busy(m)

-----------------------------------------------------------------------------
(* The inductive invariant.                                                *)

\* The migrator has run the statement that creates the object.
Past(m, object) == \E i \in 1..next[m] - 1 : Statements[i] = object

\* Open transactions keep apart, and hold nothing that is committed, but for
\* the function, which may be replaced.
TransactionsAreApart ==
  /\ \A m \in Migrators : own[m] \cap objects \subseteq {"function"}
  /\ \A m, other \in Migrators : m # other => own[m] \cap own[other] = {}

\* Whoever has created a table has created all that the file creates up to
\* there; before that, a Reset may have taken away what was there already.
TransactionsAreComplete ==
  \A m \in Migrators :
    /\ Past(m, "extensions") => "extensions" \in Visible(m)
    /\ (\E table \in Tables : Past(m, table)) =>
         \A object \in Dropped : Past(m, object) => object \in own[m]

\* At most one migrator is in the gap, and nothing happens to the schema then.
OneInTheGap ==
  \A m \in Migrators : stage[m] = "recording" =>
    /\ objects = Objects
    /\ recorded = 0
    /\ \A other \in Migrators \ {m} : stage[other] # "recording"

Invariant ==
  /\ TypeOK
  /\ SchemaIsWhole
  /\ VersionImpliesSchema
  /\ UnrecordedSchemaIsExplained
  /\ TransactionsAreApart
  /\ TransactionsAreComplete
  /\ OneInTheGap

=============================================================================
