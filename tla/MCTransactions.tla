---------------------------- MODULE MCTransactions ----------------------------
(* A small instance of Transactions for TLC. *)
EXTENDS Transactions, TLC

CONSTANTS w1, w2, f1, f2

MCContent == {"upload", "retry", "delete", "finish", "view"} \X (1..2)
\* Writers are alike, files are alike.
Interchangeable == Permutations({w1, w2}) \cup Permutations({f1, f2})
=============================================================================
