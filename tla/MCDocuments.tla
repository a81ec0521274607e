----------------------------- MODULE MCDocuments -----------------------------
(* Small instances of Documents for TLC. *)
EXTENDS DocumentsQueue, TLC

CONSTANTS n1, n2, m1, w1, w2, t1, t2

\* Readings of the first number match its row, or differ in some field; the
\* second number is not in the workbook.
MCOutcome == m1 :> (n1 :> {"approved", "failed"} @@ n2 :> {"failed"})
\* The only number is not in the workbook: every reading of it may be retried.
MCNotInSheet == m1 :> (n1 :> {"failed"})

Workers == Permutations({w1, w2})
=============================================================================
