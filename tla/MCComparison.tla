----------------------------- MODULE MCComparison -----------------------------
(* A small instance of Comparison for TLC. *)
EXTENDS Comparison, TLC

CONSTANTS n1, n2, m1

\* Every readable extraction matches a row of the workbook: one row, or two.
MCInSheet == m1 :> (n1 :> {"approved"})
MCInSheets == m1 :> (n1 :> {"approved"} @@ n2 :> {"approved"})
=============================================================================
