---------------------------- MODULE MCMigration ----------------------------
(***************************************************************************)
(* Three migrators, so that two can wait for one, and two resets.           *)
(***************************************************************************)
EXTENDS Migration
=============================================================================
