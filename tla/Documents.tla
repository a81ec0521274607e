------------------------------ MODULE Documents ------------------------------
(***************************************************************************)
(* The passport records of PassportVault and everything that writes them:  *)
(* the OCR workers (worker.py), the owner's browser requests (views.py),   *)
(* the re-verification loop (views.activate_master, reverify_all.py) and   *)
(* the operator's requeue script (retry_interrupted.py).                   *)
(*                                                                         *)
(* The granularity is the database's.  A transaction that holds its row    *)
(* lock from its first read of the row to its commit is one action.  An    *)
(* unlocked read and the write that uses it are two actions.  The worker's *)
(* committing transaction is two actions with the row lock held between    *)
(* them, because it reads another row (the active master) on the way.      *)
(***************************************************************************)
EXTENDS Naturals, FiniteSets

CONSTANTS
    NDocs,        \* records ever uploaded (bound)
    Worker,       \* OCR worker processes
    Reverifier,   \* web requests or scripts that re-verify every record
    Script,       \* runs of retry_interrupted.py
    Tab,          \* open detail views in the owner's browser
    Number,       \* normalized passport numbers
    NoNumber,     \* the number could not be read; also the empty index
    Master,       \* uploaded workbooks that may be activated
    NoMaster,     \* no workbook is active
    Outcome,      \* Outcome[m][n]: verdicts on readings of n against master m
    QueueCap,     \* 100 in views.py
    MaxRevision,  \* bound on corrections of one record
    MaxClaims     \* bound on claims of one record (inert below the script)

DocId == 1..NDocs            \* in order of creation
RetryLimit == 3
Verdict == {"approved", "review", "failed"}
Status == Verdict \cup {"absent", "queued", "processing", "deleted"}
Error == {"", "WORKER_INTERRUPTED", "OCR_FAILED"}
Payload == [by: {"none", "ocr", "human"}, num: Number \cup {NoNumber},
            multi: BOOLEAN]
NoPayload == [by |-> "none", num |-> NoNumber, multi |-> FALSE]
Extraction == [by: {"ocr"}, num: Number \cup {NoNumber}, multi: BOOLEAN]

ASSUME BoundsAssumption ==
    /\ NDocs \in Nat \ {0} /\ QueueCap \in Nat \ {0}
    /\ MaxRevision \in Nat /\ MaxClaims \in Nat /\ MaxClaims >= RetryLimit
ASSUME NamesAssumption == NoNumber \notin Number /\ NoMaster \notin Master
ASSUME OutcomeAssumption ==
    Outcome \in [Master -> [Number -> (SUBSET Verdict) \ {{}}]]

VARIABLES
    doc,      \* the Document rows
    history,  \* the Revision rows of each document
    active,   \* the active master workbook
    worker,   \* per worker: where it is and the claim it works on
    reverify, \* per re-verifier: the records it read and has yet to save
    script,   \* per script run: the records it read and has yet to requeue
    tab       \* per browser tab: the record as it was opened

vars == <<doc, history, active, worker, reverify, script, tab>>

(***************************** Types ***************************************)

\* A lease is a fresh uuid4 per claim.  The number of the claim names it.
NoLease == 0
Row == [status: Status, payload: Payload, index: Number \cup {NoNumber},
        revision: Nat, attempts: Nat, lease: Nat, late: BOOLEAN, error: Error]
NewRow == [status |-> "absent", payload |-> NoPayload, index |-> NoNumber,
           revision |-> 0, attempts |-> 0, lease |-> NoLease, late |-> FALSE,
           error |-> ""]
Job == [pc: {"sweep", "claim", "ocr", "commit", "failing"}, doc: Nat,
        lease: Nat, result: Payload, verdict: Verdict]
NoJob == [pc |-> "sweep", doc |-> 0, lease |-> NoLease, result |-> NoPayload,
          verdict |-> "review"]
Read == [doc: DocId, payload: Payload]
Loop == [pc: {"idle", "read", "loop", "save"}, todo: SUBSET Read,
         doc: Nat, payload: Payload, verdict: Verdict]
NoLoop == [pc |-> "idle", todo |-> {}, doc |-> 0, payload |-> NoPayload,
           verdict |-> "review"]
View == [doc: Nat, revision: Nat, payload: Payload]
NoView == [doc |-> 0, revision |-> 0, payload |-> NoPayload]

TypeOK ==
    /\ doc \in [DocId -> Row]
    /\ history \in [DocId -> SUBSET [version: Nat, payload: Payload]]
    /\ active \in Master \cup {NoMaster}
    /\ worker \in [Worker -> Job]
    /\ reverify \in [Reverifier -> Loop]
    /\ script \in [Script -> SUBSET DocId]
    /\ tab \in [Tab -> View]

(******* What each writer saves in a row, and mutants that save less *******)

\* A mutant is a definition with a plausible bug, named after the one it
\* changes; no specification uses it.  It shows what a property would catch.

\* worker.py 20
Interrupted_Swapped(row) ==
    [row EXCEPT !.status = "WORKER_INTERRUPTED", !.lease = NoLease,
                !.late = FALSE, !.error = "failed"]
Interrupted_KeepsLease(row) ==
    [row EXCEPT !.status = "failed", !.late = FALSE,
                !.error = "WORKER_INTERRUPTED"]
Interrupted(row) ==
    [row EXCEPT !.status = "failed", !.lease = NoLease, !.late = FALSE,
                !.error = "WORKER_INTERRUPTED"]

\* worker.py 24
Claimed_OneLease(row) ==
    [row EXCEPT !.status = "processing", !.attempts = row.attempts + 1,
                !.lease = 1, !.late = FALSE]
Claimed(row) ==
    [row EXCEPT !.status = "processing", !.attempts = row.attempts + 1,
                !.lease = row.attempts + 1, !.late = FALSE]

\* worker.py 41-45
Stored(row, job) ==
    [row EXCEPT !.payload = job.result, !.status = job.verdict,
                !.lease = NoLease, !.late = FALSE, !.error = "",
                !.index = job.result.num]

\* worker.py 52
Failed_NoCode(row) ==
    [row EXCEPT !.status = "failed", !.lease = NoLease, !.late = FALSE]
Failed(row) ==
    [row EXCEPT !.status = "failed", !.lease = NoLease, !.late = FALSE,
                !.error = "OCR_FAILED"]

\* views.py 147 and 150: which records may be corrected
MayCorrect_AnyIdentity(row) == row.status \in {"review", "approved"}
MayCorrect(row) == row.status \in {"review", "approved"} /\ ~row.payload.multi

\* views.py 151
Archived_Next(row) == [version |-> row.revision + 1, payload |-> row.payload]
Archived(row) == [version |-> row.revision, payload |-> row.payload]

\* views.py 152-153
Corrected_SameRevision(row, n) ==
    [row EXCEPT !.payload = [row.payload EXCEPT !.by = "human", !.num = n],
                !.index = n, !.status = "approved"]
Corrected_KeepsIndex(row, n) ==
    [row EXCEPT !.payload = [row.payload EXCEPT !.by = "human", !.num = n],
                !.revision = row.revision + 1, !.status = "approved"]
Corrected(row, n) ==
    [row EXCEPT !.payload = [row.payload EXCEPT !.by = "human", !.num = n],
                !.index = n, !.revision = row.revision + 1,
                !.status = "approved"]

\* views.py 160-161
MayRetry_AnyVerdict(row) == row.status \in Verdict /\ row.attempts < RetryLimit
MayRetry_OnceMore(row) == row.status = "failed" /\ row.attempts <= RetryLimit
MayRetry(row) == row.status = "failed" /\ row.attempts < RetryLimit

\* views.py 162
Requeued_KeepsError(row) == [row EXCEPT !.status = "queued"]
Requeued(row) == [row EXCEPT !.status = "queued", !.error = ""]

\* views.py 228-229
Reverified(row, loop) ==
    [row EXCEPT !.payload = loop.payload, !.status = loop.verdict,
                !.late = FALSE]

(***************************************************************************)

Exists(d) == doc[d].status \notin {"absent", "deleted"}
\* A worker's committing transaction holds the row: other writers wait.
Locked_Not(d) == FALSE
Locked(d) == \E w \in Worker : worker[w].pc = "commit" /\ worker[w].doc = d
Outstanding == {d \in DocId : doc[d].status \in {"queued", "processing"}}

\* auto_verify.verify_document.  What the sheet and the OCR evidence say of a
\* readable number, given the other fields, is left to Outcome (Verification).
Verdicts(m, p) ==
    IF m = NoMaster \/ p.multi \/ p.num = NoNumber
    THEN {"review"} ELSE Outcome[m][p.num]

\* No record yet; a master may have been activated before the first one.
Init ==
    /\ doc = [d \in DocId |-> NewRow]
    /\ history = [d \in DocId |-> {}]
    /\ active \in Master \cup {NoMaster}
    /\ worker = [w \in Worker |-> NoJob]
    /\ reverify = [r \in Reverifier |-> NoLoop]
    /\ script = [s \in Script |-> {}]
    /\ tab = [t \in Tab |-> NoView]

(************************* Browser requests ********************************)

Upload(d) ==
    /\ doc[d].status = "absent" /\ \A e \in 1..(d - 1) : doc[e].status # "absent"
    /\ Cardinality(Outstanding) < QueueCap
    /\ doc' = [doc EXCEPT ![d].status = "queued"]
    /\ UNCHANGED <<history, active, worker, reverify, script, tab>>

OpenRecord(t, d) ==
    /\ Exists(d)
    /\ tab' = [tab EXCEPT ![t] = [doc |-> d, revision |-> doc[d].revision,
                                  payload |-> doc[d].payload]]
    /\ UNCHANGED <<doc, history, active, worker, reverify, script>>

\* The owner saves the record a tab shows, as number n.  A refused request
\* (status, revision, several identities) changes nothing.
Review(t, n) ==
    LET d == tab[t].doc IN
    /\ d \in DocId /\ ~Locked(d)
    /\ MayCorrect(doc[d])
    /\ doc[d].revision = tab[t].revision
    /\ doc[d].revision < MaxRevision
    /\ history' = [history EXCEPT ![d] = @ \cup {Archived(doc[d])}]
    /\ doc' = [doc EXCEPT ![d] = Corrected(doc[d], n)]
    /\ tab' = [tab EXCEPT ![t] = NoView]
    /\ UNCHANGED <<active, worker, reverify, script>>

Retry(d) ==
    /\ MayRetry(doc[d]) /\ ~Locked(d)
    /\ doc' = [doc EXCEPT ![d] = Requeued(doc[d])]
    /\ UNCHANGED <<history, active, worker, reverify, script, tab>>

\* delete_document is the case of one record.
BulkDelete(ds) ==
    /\ \A d \in ds : Exists(d) /\ doc[d].status # "processing" /\ ~Locked(d)
    /\ doc' = [d \in DocId |->
           IF d \in ds THEN [NewRow EXCEPT !.status = "deleted"] ELSE doc[d]]
    /\ history' = [d \in DocId |-> IF d \in ds THEN {} ELSE history[d]]
    /\ UNCHANGED <<active, worker, reverify, script, tab>>

(******************************* Workers ***********************************)

\* Lease time passes.  lease_until is read only while the row is processing,
\* so late is kept only then.
LeaseExpires(d) ==
    /\ doc[d].status = "processing" /\ ~doc[d].late
    /\ doc' = [doc EXCEPT ![d].late = TRUE]
    /\ UNCHANGED <<history, active, worker, reverify, script, tab>>

Expired_Retryable ==
    {d \in DocId : /\ doc[d].status = "processing" /\ doc[d].late
                   /\ doc[d].attempts < RetryLimit}
Expired == {d \in DocId : doc[d].status = "processing" /\ doc[d].late}

Sweep(w) ==
    /\ worker[w].pc = "sweep" /\ \A d \in Expired : ~Locked(d)
    /\ doc' = [d \in DocId |->
           IF d \in Expired THEN Interrupted(doc[d]) ELSE doc[d]]
    /\ worker' = [worker EXCEPT ![w].pc = "claim"]
    /\ UNCHANGED <<history, active, reverify, script, tab>>

Oldest_Unleased(d) ==
    /\ doc[d].status = "queued" /\ doc[d].lease = NoLease
    /\ \A e \in 1..(d - 1) : doc[e].status # "queued"
Oldest_Any(d) == doc[d].status = "queued"
Oldest(d) == doc[d].status = "queued" /\ \A e \in 1..(d - 1) : doc[e].status # "queued"

Claim(w) ==
    /\ worker[w].pc = "claim"
    /\ \E d \in DocId :
        /\ Oldest(d) /\ doc[d].attempts < MaxClaims
        /\ doc' = [doc EXCEPT ![d] = Claimed(doc[d])]
        /\ worker' = [worker EXCEPT ![w] = [NoJob EXCEPT
               !.pc = "ocr", !.doc = d, !.lease = Claimed(doc[d]).lease]]
    /\ UNCHANGED <<history, active, reverify, script, tab>>

FindNothing(w) ==
    /\ worker[w].pc = "claim" /\ \A d \in DocId : doc[d].status # "queued"
    /\ worker' = [worker EXCEPT ![w] = NoJob]
    /\ UNCHANGED <<doc, history, active, reverify, script, tab>>

HoldsLease(w) ==
    /\ doc[worker[w].doc].lease = worker[w].lease
    /\ doc[worker[w].doc].status = "processing"

\* The OCR child returned: lock the row, check the lease, read the master.
Extracted(w, p) ==
    /\ worker[w].pc = "ocr" /\ ~Locked(worker[w].doc) /\ HoldsLease(w)
    /\ \E v \in Verdicts(active, p) :
           worker' = [worker EXCEPT ![w] = [worker[w] EXCEPT
                          !.pc = "commit", !.result = p, !.verdict = v]]
    /\ UNCHANGED <<doc, history, active, reverify, script, tab>>

\* The row is no longer this claim's: the result is dropped.
Discard(w) ==
    /\ worker[w].pc = "ocr" /\ ~Locked(worker[w].doc)
    /\ Exists(worker[w].doc) /\ ~HoldsLease(w)
    /\ worker' = [worker EXCEPT ![w] = NoJob]
    /\ UNCHANGED <<doc, history, active, reverify, script, tab>>

Commit(w) ==
    /\ worker[w].pc = "commit"
    /\ doc' = [doc EXCEPT ![worker[w].doc] =
                   Stored(doc[worker[w].doc], worker[w])]
    /\ worker' = [worker EXCEPT ![w] = NoJob]
    /\ UNCHANGED <<history, active, reverify, script, tab>>

\* The committing transaction raised: it is rolled back, the lock released.
RollBack(w) ==
    /\ worker[w].pc = "commit"
    /\ worker' = [worker EXCEPT ![w] = [worker[w] EXCEPT !.pc = "failing",
                      !.result = NoPayload, !.verdict = "review"]]
    /\ UNCHANGED <<doc, history, active, reverify, script, tab>>

\* The except branch.  filter(pk, lease) matches the lease and not the status;
\* a row that was deleted or claimed anew is not matched.
RecordFailure(w) ==
    LET d == worker[w].doc
        matches == Exists(d) /\ doc[d].lease = worker[w].lease IN
    /\ worker[w].pc \in {"ocr", "failing"}
    /\ matches => ~Locked(d)
    /\ doc' = IF matches THEN [doc EXCEPT ![d] = Failed(doc[d])] ELSE doc
    /\ worker' = [worker EXCEPT ![w] = NoJob]
    /\ UNCHANGED <<history, active, reverify, script, tab>>

\* The container dies with its claim and is started again.
Crash(w) ==
    /\ worker[w].pc \in {"ocr", "commit", "failing"}
    /\ worker' = [worker EXCEPT ![w] = NoJob]
    /\ UNCHANGED <<doc, history, active, reverify, script, tab>>

(**************************** Re-verification ******************************)

\* activate_master commits the new master before it re-verifies.
Activate(r, m) ==
    /\ reverify[r].pc = "idle"
    /\ active' = m
    /\ reverify' = [reverify EXCEPT ![r].pc = "read"]
    /\ UNCHANGED <<doc, history, worker, script, tab>>

\* reverify_all.py: the same loop with no new master.
RunReverifyAll(r) ==
    /\ reverify[r].pc = "idle"
    /\ reverify' = [reverify EXCEPT ![r].pc = "read"]
    /\ UNCHANGED <<doc, history, active, worker, script, tab>>

\* maintenance removes workbooks older than a day, the active one included.
ExpireMaster ==
    /\ active # NoMaster
    /\ active' = NoMaster
    /\ UNCHANGED <<doc, history, worker, reverify, script, tab>>

\* One unlocked query reads every extracted record.
ReadRecords(r) ==
    /\ reverify[r].pc = "read"
    /\ reverify' = [reverify EXCEPT ![r] = [NoLoop EXCEPT !.pc = "loop",
           !.todo = {[doc |-> d, payload |-> doc[d].payload] : d \in
               {e \in DocId : /\ doc[e].status \in Verdict
                              /\ doc[e].error = ""
                              /\ doc[e].payload.by # "none"}}]]
    /\ UNCHANGED <<doc, history, active, worker, script, tab>>

VerifyNext(r, item) ==
    /\ reverify[r].pc = "loop" /\ item \in reverify[r].todo
    /\ \E v \in Verdicts(active, item.payload) :
           reverify' = [reverify EXCEPT ![r] =
               [pc |-> "save", todo |-> reverify[r].todo \ {item},
                doc |-> item.doc, payload |-> item.payload, verdict |-> v]]
    /\ UNCHANGED <<doc, history, active, worker, script, tab>>

\* save(update_fields=['payload','status','updated']): no lock, no condition.
SaveVerdict(r) ==
    LET d == reverify[r].doc IN
    /\ reverify[r].pc = "save" /\ ~Locked(d) /\ Exists(d)
    /\ doc' = [doc EXCEPT ![d] = Reverified(doc[d], reverify[r])]
    /\ reverify' = [reverify EXCEPT ![r] = [NoLoop EXCEPT
                        !.pc = "loop", !.todo = reverify[r].todo]]
    /\ UNCHANGED <<history, active, worker, script, tab>>

\* The loop ends: nothing is left, the record to save is gone (DatabaseError),
\* or the web worker is killed (its 180 s timeout, a restart).
EndReverify(r) ==
    /\ reverify[r].pc # "idle"
    /\ reverify' = [reverify EXCEPT ![r] = NoLoop]
    /\ UNCHANGED <<doc, history, active, worker, script, tab>>

(************************* The requeue script ******************************)

ScriptRead(s) ==
    /\ script[s] = {}
    /\ script' = [script EXCEPT ![s] = {d \in DocId :
           /\ doc[d].status = "failed" /\ doc[d].error = "WORKER_INTERRUPTED"
           /\ doc[d].attempts < RetryLimit}]
    /\ UNCHANGED <<doc, history, active, worker, reverify, tab>>

ScriptRequeue(s, d) ==
    /\ d \in script[s] /\ ~Locked(d) /\ Exists(d)
    /\ doc' = [doc EXCEPT ![d] =
                   [Requeued(doc[d]) EXCEPT !.lease = NoLease, !.late = FALSE]]
    /\ script' = [script EXCEPT ![s] = @ \ {d}]
    /\ UNCHANGED <<history, active, worker, reverify, tab>>

\* A record that is gone raises DatabaseError; or the script is interrupted.
ScriptEnds(s) ==
    /\ script[s] # {}
    /\ script' = [script EXCEPT ![s] = {}]
    /\ UNCHANGED <<doc, history, active, worker, reverify, tab>>

(***************************************************************************)

BrowserStep ==
    \/ \E d \in DocId : Upload(d) \/ Retry(d)
    \/ \E t \in Tab, d \in DocId : OpenRecord(t, d)
    \/ \E t \in Tab, n \in Number : Review(t, n)
    \/ \E ds \in (SUBSET DocId) \ {{}} : BulkDelete(ds)

WorkerStep(w) ==
    \/ Sweep(w) \/ Claim(w) \/ FindNothing(w)
    \/ \E p \in Extraction : Extracted(w, p)
    \/ Discard(w) \/ Commit(w) \/ RollBack(w) \/ RecordFailure(w)

ReverifyStep(r) ==
    \/ \E m \in Master : Activate(r, m)
    \/ RunReverifyAll(r) \/ ReadRecords(r)
    \/ \E item \in reverify[r].todo : VerifyNext(r, item)
    \/ SaveVerdict(r) \/ EndReverify(r)

ScriptStep(s) ==
    \/ ScriptRead(s) \/ ScriptEnds(s)
    \/ \E d \in DocId : ScriptRequeue(s, d)

Next ==
    \/ BrowserStep
    \/ \E w \in Worker : WorkerStep(w) \/ Crash(w)
    \/ \E d \in DocId : LeaseExpires(d)
    \/ \E r \in Reverifier : ReverifyStep(r)
    \/ \E s \in Script : ScriptStep(s)
    \/ ExpireMaster

\* A worker process is restarted by the container runtime and its OCR child is
\* killed after 1200 s, so it always takes its next step; time passes.
Fairness ==
    /\ \A w \in Worker : WF_vars(WorkerStep(w))
    /\ \A d \in DocId : WF_vars(LeaseExpires(d))

Spec == Init /\ [][Next]_vars
FairSpec == Spec /\ Fairness

(***************** What holds whatever runs at the same time ***************)

\* A worker that passed the lease check commits to a row that still carries
\* its lease and is still processing, and no other worker is committing to
\* that row (worker.py 34-45): an expired sweep, a re-verification or a
\* second worker cannot get between the check and the save.
ResultsUnderCurrentLease ==
    \A v \in Worker : worker[v].pc = "commit" =>
        /\ HoldsLease(v)
        /\ \A w \in Worker \ {v} :
               worker[w].pc = "commit" => worker[w].doc # worker[v].doc

\* Two workers never work under the same claim of a record, however often it
\* expired and was retried (worker.py 21-25).
ClaimsDistinct ==
    \A v, w \in Worker :
        /\ v # w /\ worker[v].doc = worker[w].doc /\ worker[v].doc # 0
        => worker[v].lease # worker[w].lease

\* Pages with several MRZ identities never become an approved record: not by
\* the verdict, not by a correction, not by a later re-verification.
MultiNeverApproved ==
    \A d \in DocId : doc[d].payload.multi => doc[d].status # "approved"

\* A record carries a verdict only once an extraction was stored: a failure
\* without an error code is a verdict, every other failure has its code.
VerdictNeedsExtraction ==
    \A d \in DocId :
        \/ doc[d].status \in {"review", "approved"}
        \/ doc[d].status = "failed" /\ doc[d].error = ""
        => doc[d].payload.by # "none"

\* The correction history of a record is complete: one entry per revision
\* number it has left behind, whatever else rewrote the record in between.
HistoryComplete ==
    \A d \in DocId :
        /\ {h.version : h \in history[d]} = 0..(doc[d].revision - 1)
        /\ Cardinality(history[d]) = doc[d].revision

(************* What holds while the requeue script is not run **************)

\* "A failed job can be manually retried up to three attempts" (README.md
\* 40-41): no record is claimed a fourth time, although the limit is tested
\* when the owner asks for the retry and the count grows when a worker claims.
AttemptsBounded == \A d \in DocId : doc[d].attempts <= RetryLimit

\* Every upload is answered: a queued record is claimed although others wait,
\* and an extraction that expired or crashed is finished or swept.
OutstandingEnds == \A d \in DocId : d \in Outstanding ~> d \notin Outstanding

(********** What holds while nothing is re-verified or requeued ************)

\* A record carries a lease exactly while it is processing, so the refusal to
\* delete a processing record protects every worker's claim.
LeaseIffProcessing ==
    \A d \in DocId :
        doc[d].lease # NoLease <=> doc[d].status = "processing"

\* The lookup index of a record is that of the passport number it stores.
IndexMatchesPayload == \A d \in DocId : doc[d].index = doc[d].payload.num

\* Fields approved by the owner stay approved, until the owner corrects or
\* deletes the record: no retry and no worker replaces them.
HumanApprovalStands ==
    \A d \in DocId : doc[d].payload.by = "human" => doc[d].status = "approved"

\* The revision check keeps the owner's tabs apart: a correction is saved over
\* an earlier one only from a tab that showed that one (views.py 148).
CorrectionsSeen ==
    [][\A d \in DocId, t \in Tab :
        /\ tab[t].doc = d /\ tab'[t] = NoView /\ doc[d].payload.by = "human"
        => tab[t].payload = doc[d].payload]_vars

\* An error code is the code of a failure in progress: a record that is
\* queued, processed or judged carries none, so that re-verification, which
\* skips records with a code, never skips an extracted one.
ErrorOnlyOnFailed ==
    \A d \in DocId : doc[d].error # "" => doc[d].status = "failed"

\* The columns of a row agree with each other, whichever of the uploads,
\* workers, sweeps, retries and corrections wrote which of them last.
RowAgrees ==
    LeaseIffProcessing /\ IndexMatchesPayload /\ HumanApprovalStands /\ ErrorOnlyOnFailed

(******************* The inductive invariant of claims *********************)

Busy(w) == worker[w].pc \in {"ocr", "commit", "failing"}

\* A busy worker's record was uploaded; unless it was deleted since, the claim
\* is one that the record has counted; a committing worker holds its lease.
Owned(w) ==
    /\ ~Busy(w) => worker[w].doc = 0
    /\ Busy(w) => /\ worker[w].doc \in DocId /\ worker[w].lease # NoLease
                  /\ doc[worker[w].doc].status # "absent"
                  /\ Exists(worker[w].doc)
                     => worker[w].lease <= doc[worker[w].doc].attempts
    /\ worker[w].pc = "commit" => HoldsLease(w)

ClaimInv == (\A w \in Worker : Owned(w)) /\ ClaimsDistinct

(********************* What the documents say ******************************)

\* reverify_all.py 15-16: re-verified are documents that "are not currently
\* queued/processing".
ReverifySkipsBusyRecords ==
    [][\A r \in Reverifier :
        reverify[r].pc = "save" /\ reverify'[r].pc = "loop"
        => reverify[r].doc \notin Outstanding]_vars

\* README.md 43: reviews commit "with optimistic revision checks"; a save over
\* data the tab did not show is answered "Record changed. Reopen it before
\* saving." (views.py 148).
ReviewSawCurrentData ==
    [][\A d \in DocId, t \in Tab :
        tab[t].doc = d /\ tab'[t] = NoView /\ tab[t].payload.by # "none"
        => tab[t].payload = doc[d].payload]_vars

\* OPERATIONS.md 81-82: raw extraction is kept "separate from human-approved
\* fields": what the owner approved is replaced only by another correction,
\* or remains in the history.
HumanFieldsKept ==
    [][\A d \in DocId :
        /\ doc[d].payload.by = "human" /\ doc'[d].payload # doc[d].payload
        => doc'[d].status = "deleted" \/
           \E h \in history'[d] : h.payload = doc[d].payload]_vars

\* README.md 51: "Max 100 outstanding queued/processing groups".
QueueWithinCap == Cardinality(Outstanding) <= QueueCap

=============================================================================
