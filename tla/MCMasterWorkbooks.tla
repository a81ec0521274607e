--------------------------- MODULE MCMasterWorkbooks ---------------------------
(* A small instance of MasterWorkbooks for TLC. *)
EXTENDS MasterWorkbooks, TLC

CONSTANTS r1, r2
Activators == Permutations({r1, r2})
=============================================================================
