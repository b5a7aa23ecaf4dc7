--------------------------- MODULE VersionedSchema ---------------------------
(***************************************************************************)
(* What a schema that goose migrates promises whoever looks at the          *)
(* database: the schema comes as a whole, its version is recorded           *)
(* afterwards and once, and both are taken back together.  In between the   *)
(* schema is there without its version, perhaps for good.  Migration        *)
(* implements this module with statements, transactions and migrators.      *)
(***************************************************************************)
EXTENDS Naturals

VARIABLES
  schema,    \* "none" or "whole" for whoever looks at the database
  versions   \* how many rows record its version

Init == schema = "none" /\ versions = 0

Apply ==
  /\ schema = "none"
  /\ schema' = "whole"
  /\ UNCHANGED versions

Record ==
  /\ schema = "whole"
  /\ versions = 0
  /\ versions' = 1
  /\ UNCHANGED schema

TakeBack ==
  /\ versions = 1
  /\ schema' = "none"
  /\ versions' = 0

Next == Apply \/ Record \/ TakeBack

Spec == Init /\ [][Next]_<<schema, versions>>

=============================================================================
