------------------------------ MODULE Comparison ------------------------------
(***************************************************************************)
(* Comparing a row of a spreadsheet with the passport records              *)
(* (comparison.py), while workers, the owner and re-verifications go on    *)
(* writing them: the steps of Documents and those of comparisons.          *)
(*                                                                         *)
(* A comparison reads in one READ COMMITTED transaction, but with two      *)
(* queries, each of which sees what was committed when it began: the first *)
(* locks the candidates, those found under the row's passport number, the  *)
(* second asks whether any record is unresolved.                           *)
(***************************************************************************)
EXTENDS Documents

CONSTANT Comparer   \* requests that compare, each one row, no country mapped

VARIABLE compare    \* per comparison: what it has read

(***************************** Types ***************************************)

Candidate == [doc: DocId, status: Status, payload: Payload]
RowStatus == {"Needs Review", "Not Found", "Match", "Mismatch"}
Comparing == [pc: {"idle", "locked", "done"}, want: Number \cup {NoNumber},
              found: SUBSET Candidate, report: RowStatus]
NotComparing == [pc |-> "idle", want |-> NoNumber, found |-> {},
                 report |-> "Needs Review"]

CompareTypeOK == compare \in [Comparer -> Comparing]

(**************************** Comparing a row ******************************)

Candidates(n) == {d \in DocId : Exists(d) /\ doc[d].index = n}
Held_None == {}
Held == {x.doc : x \in UNION {compare[c].found :
                                 c \in {k \in Comparer : compare[k].pc = "locked"}}}

\* FOR UPDATE waits for a worker that is committing to a candidate.
LockCandidates(c, n) ==
    /\ compare[c].pc = "idle"
    /\ \A d \in Candidates(n) : ~Locked(d) /\ d \notin Held
    /\ compare' = [compare EXCEPT ![c] =
           [NotComparing EXCEPT !.pc = "locked", !.want = n,
            !.found = {[doc |-> d, status |-> doc[d].status,
                        payload |-> doc[d].payload] : d \in Candidates(n)}]]
    /\ UNCHANGED vars

Pending ==
    \E d \in DocId : doc[d].status \in {"queued", "processing", "failed", "review"}

\* What a row may be reported as against one approved record: whether the
\* other fields agree is left open, a missing one asks for review.
AgainstOne_FieldStatus(n, p) == {"Missing value", "Match", "Mismatch"}
AgainstOne_ByIndex(n, p) == {"Needs Review", "Mismatch", "Match"}
AgainstOne(n, p) ==
    {"Needs Review"} \cup (IF p.num # NoNumber THEN {"Mismatch"} ELSE {})
                     \cup (IF p.num = n THEN {"Match"} ELSE {})

RowReport(n, found, pending) ==
    IF found = {} THEN IF pending THEN {"Needs Review"} ELSE {"Not Found"}
    ELSE IF Cardinality(found) > 1 THEN {"Needs Review"}
    ELSE UNION {IF x.status = "approved" THEN AgainstOne(n, x.payload)
                ELSE {"Needs Review"} : x \in found}

Report(c) ==
    /\ compare[c].pc = "locked"
    /\ \E r \in RowReport(compare[c].want, compare[c].found, Pending) :
           compare' = [compare EXCEPT ![c].pc = "done", ![c].report = r]
    /\ UNCHANGED vars

\* The next request.
Again(c) ==
    /\ compare[c].pc = "done"
    /\ compare' = [compare EXCEPT ![c] = NotComparing]
    /\ UNCHANGED vars

(*************** The other writers, around the locks held ******************)

\* A writer waits for the rows it locks or updates while a comparison holds
\* them.  Time, reads and new records wait for nobody.
Free(d) == d \notin Held

BrowserWaits ==
    \/ \E d \in DocId : Upload(d) \/ (Free(d) /\ Retry(d))
    \/ \E t \in Tab, d \in DocId : OpenRecord(t, d)
    \/ \E t \in Tab, n \in Number : Free(tab[t].doc) /\ Review(t, n)
    \/ \E ds \in (SUBSET (DocId \ Held)) \ {{}} : BulkDelete(ds)

\* SKIP LOCKED: a worker passes over queued records that are held.
ClaimFree(w) ==
    /\ worker[w].pc = "claim"
    /\ \E d \in DocId \ Held :
        /\ doc[d].status = "queued" /\ doc[d].attempts < MaxClaims
        /\ \A e \in 1..(d - 1) : doc[e].status = "queued" => e \in Held
        /\ doc' = [doc EXCEPT ![d] = Claimed(doc[d])]
        /\ worker' = [worker EXCEPT ![w] = [NoJob EXCEPT
               !.pc = "ocr", !.doc = d, !.lease = Claimed(doc[d]).lease]]
    /\ UNCHANGED <<history, active, reverify, script, tab>>

FindNoneFree(w) ==
    /\ worker[w].pc = "claim"
    /\ {d \in DocId : doc[d].status = "queued"} \subseteq Held
    /\ worker' = [worker EXCEPT ![w] = NoJob]
    /\ UNCHANGED <<doc, history, active, reverify, script, tab>>

\* The sweep is one UPDATE of all expired records; that of a failure waits only
\* if it finds the row under its lease.
WorkerWaits(w) ==
    LET mine == worker[w].doc IN
    \/ Expired \cap Held = {} /\ Sweep(w)
    \/ ClaimFree(w) \/ FindNoneFree(w)
    \/ Free(mine) /\ (Discard(w) \/ \E p \in Extraction : Extracted(w, p))
    \/ /\ RecordFailure(w)
       /\ Exists(mine) /\ doc[mine].lease = worker[w].lease => Free(mine)
    \/ Commit(w) \/ RollBack(w) \/ Crash(w)

ReverifyWaits(r) ==
    \/ Free(reverify[r].doc) /\ SaveVerdict(r)
    \/ \E m \in Master : Activate(r, m)
    \/ RunReverifyAll(r) \/ ReadRecords(r) \/ EndReverify(r)
    \/ \E item \in reverify[r].todo : VerifyNext(r, item)

ScriptWaits(s) ==
    \/ \E d \in DocId : Free(d) /\ ScriptRequeue(s, d)
    \/ ScriptRead(s) \/ ScriptEnds(s)

OtherStep ==
    \/ BrowserWaits
    \/ \E w \in Worker : WorkerWaits(w)
    \/ \E d \in DocId : LeaseExpires(d)
    \/ \E r \in Reverifier : ReverifyWaits(r)
    \/ \E s \in Script : ScriptWaits(s)
    \/ ExpireMaster

CompareStep(c) ==
    \/ \E n \in Number : LockCandidates(c, n)
    \/ Report(c) \/ Again(c)

CompareInit == Init /\ compare = [c \in Comparer |-> NotComparing]
CompareNext ==
    \/ \E c \in Comparer : CompareStep(c)
    \/ OtherStep /\ UNCHANGED compare
CompareSpec == CompareInit /\ [][CompareNext]_<<vars, compare>>

(**************************** Properties ***********************************)

\* Only the one record found under the row's number, approved, makes a row a
\* Match or a Mismatch; a Match stores that number, although the index it was
\* found by may be stale.
MatchIsOfOneApproved ==
    \A c \in Comparer : compare[c].report \in {"Match", "Mismatch"} =>
        \E x \in compare[c].found :
            /\ compare[c].found = {x} /\ x.status = "approved"
            /\ compare[c].report = "Match" => x.payload.num = compare[c].want

\* A Match is true when the row is reported, which is after the record was
\* read: an approved record is then found under the number and stores it.  No
\* worker, correction, re-verification, retry or deletion gets between reading
\* and reporting, nor does a comparison read what a worker is about to replace
\* (comparison.py 31-64).
MatchIsTrue ==
    [][\A c \in Comparer :
        /\ compare[c].pc = "locked" /\ compare'[c].pc = "done"
        /\ compare'[c].report = "Match"
        => \E d \in Candidates(compare[c].want) :
            doc[d].status = "approved" /\ doc[d].payload.num = compare[c].want
      ]_<<vars, compare>>

\* README_FIRST.txt 59: "Not Found is held as Needs Review while unresolved
\* uploads could hide a match"; when a row is reported Not Found, no record
\* carries its number.
NotFoundIsTrue ==
    [][\A c \in Comparer :
        compare[c].pc = "locked" /\ compare'[c].report = "Not Found"
        => Candidates(compare[c].want) = {}]_<<vars, compare>>
=============================================================================
