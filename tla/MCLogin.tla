-------------------------------- MODULE MCLogin --------------------------------
(* A small instance of Login for TLC. *)
EXTENDS Login, TLC

CONSTANTS q1, q2, c1
Alike == Permutations({q1, q2})
=============================================================================
