----------------------------- MODULE MCRequests -----------------------------
(***************************************************************************)
(* Two calls, two documents of one publisher, and three tables of          *)
(* permissions: the one of roles.go, one that does not let the caller      *)
(* write, and one that does not know its role.                             *)
(***************************************************************************)
EXTENDS Requests, TLC

CONSTANTS a, b, d1, d2, p1

MCCalls == {a, b}
MCDocumentIDs == {d1, d2}
MCPublisherIDs == {p1}

MCRolePermissionTables ==
  {[unauthenticated |-> Permissions],
   [unauthenticated |-> {"documents.read"}],
   [operator |-> Permissions]}

Symmetry == Permutations(MCCalls) \cup Permutations(MCDocumentIDs)
=============================================================================
