------------------------------ MODULE MCAuditLog ------------------------------
(* A small instance of AuditLog for TLC. *)
EXTENDS AuditLog, TLC

CONSTANTS w1, w2, c1, c2

\* Writers are alike, contents are alike.
Alike == Permutations({w1, w2}) \cup Permutations({c1, c2})
=============================================================================
