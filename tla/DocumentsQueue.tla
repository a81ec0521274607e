---------------------------- MODULE DocumentsQueue ----------------------------
(***************************************************************************)
(* The passport records seen as a queue.  While the requeue script is not  *)
(* run, whatever uploads, workers, crashes, expiries, corrections,         *)
(* deletions and re-verifications do is what an ExtractionQueue may do.    *)
(***************************************************************************)
EXTENDS Documents

StageOf(status) ==
    CASE status = "absent" -> "absent"
      [] status = "queued" -> "waiting"
      [] status = "processing" -> "taken"
      [] status = "deleted" -> "removed"
      [] OTHER -> "ended"

\* Whose turn it is: who works under the lease the row carries.
Holders(d) == {w \in Worker : worker[w].doc = d /\ HoldsLease(w)}

Queue == INSTANCE ExtractionQueue WITH
    NItems <- NDocs, TurnLimit <- RetryLimit,
    stage <- [d \in DocId |-> StageOf(doc[d].status)],
    turns <- [d \in DocId |-> doc[d].attempts],
    holders <- [d \in DocId |-> Holders(d)],
    answered <- [d \in DocId |-> doc[d].payload.by # "none"]

\* The records and their writers implement the queue: no lease that expires,
\* no retry, late result, crash or re-verification lets two workers hold one
\* turn, gives a fourth one, answers out of turn, jumps the queue or removes
\* a record under a worker (worker.py 17-53, views.py 157-192).
QueueKept == Queue!QueueSpec
=============================================================================
