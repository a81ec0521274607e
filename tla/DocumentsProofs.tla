--------------------------- MODULE DocumentsProofs ---------------------------
(* Theorems about Documents, for every number of records, workers,          *)
(* re-verifiers, script runs and tabs: typing, claims, and what holds of    *)
(* each record.  The lemma RowSteps lists the ways one row can change in    *)
(* one step; an invariant of rows is then preserved if each of those ways   *)
(* preserves it.  What a re-verification or the requeue script breaks,      *)
(* since they write back a row they read without a lock, is proved of       *)
(* systems without them.                                                    *)
EXTENDS Documents, DocumentsQueue, FiniteSetTheorems, TLAPS

(***************************** Typing **************************************)

\* The constants the code assigns are of the types of their columns.
LEMMA LiteralsTyped ==
    /\ Verdict \subseteq Status
    /\ {"absent", "queued", "processing", "deleted", "failed", "approved"}
           \subseteq Status
    /\ {"", "WORKER_INTERRUPTED", "OCR_FAILED"} \subseteq Error
    /\ NoLease \in Nat
  BY DEF Verdict, Status, Error, NoLease

\* What the code stores in a row are rows, in a worker's claim claims.
LEMMA NullsTyped ==
    /\ NewRow \in Row /\ NoPayload \in Payload /\ NoJob \in Job
    /\ NoLoop \in Loop /\ NoView \in View /\ Extraction \subseteq Payload
  BY DEF NewRow, Row, NoPayload, Payload, NoJob, Job, NoLoop, Loop, NoView,
         View, Extraction, Status, Verdict, Error, NoLease

\* Every writer saves a well typed row.
LEMMA RowsTyped ==
    ASSUME NEW row \in Row
    PROVE  /\ Interrupted(row) \in Row /\ Failed(row) \in Row
           /\ Requeued(row) \in Row
           /\ [Requeued(row) EXCEPT !.lease = NoLease, !.late = FALSE] \in Row
           /\ Claimed(row) \in Row /\ Claimed(row).lease \in Nat
<1>1. Interrupted(row) \in Row /\ Failed(row) \in Row
  BY LiteralsTyped DEF Interrupted, Failed, Row
<1>2. Requeued(row) \in Row
  BY LiteralsTyped DEF Requeued, Row
<1>3. [Requeued(row) EXCEPT !.lease = NoLease, !.late = FALSE] \in Row
  BY <1>2, LiteralsTyped DEF Row
<1>4. Claimed(row) \in Row /\ Claimed(row).lease \in Nat
  <2> DEFINE n == row.attempts + 1
  <2>1. n \in Nat
    BY DEF Row
  <2> HIDE DEF n
  <2>2. [row EXCEPT !.status = "processing", !.attempts = n, !.lease = n,
                    !.late = FALSE] \in Row
    BY <2>1, LiteralsTyped DEF Row
  <2> QED
    BY <2>1, <2>2 DEF Claimed, n, Row
<1> QED
  BY <1>1, <1>2, <1>3, <1>4

LEMMA CorrectedTyped ==
    ASSUME NEW row \in Row, NEW n \in Number PROVE Corrected(row, n) \in Row
<1> DEFINE fields == [row.payload EXCEPT !.by = "human", !.num = n]
           next == row.revision + 1
<1>1. fields \in Payload
  BY DEF Row, Payload
<1>2. next \in Nat
  BY DEF Row
<1> HIDE DEF fields, next
<1>3. [row EXCEPT !.payload = fields, !.index = n, !.revision = next,
                  !.status = "approved"] \in Row
  BY <1>1, <1>2, LiteralsTyped DEF Row
<1> QED
  BY <1>3 DEF Corrected, fields, next

LEMMA StoredTyped ==
    ASSUME NEW row \in Row, NEW job \in Job PROVE Stored(row, job) \in Row
<1>1. /\ job.result \in Payload /\ job.verdict \in Status
      /\ job.result.num \in Number \cup {NoNumber}
  BY LiteralsTyped DEF Job, Payload
<1> QED
  BY <1>1, LiteralsTyped DEF Stored, Row

LEMMA ReverifiedTyped ==
    ASSUME NEW row \in Row, NEW loop \in Loop
    PROVE  Reverified(row, loop) \in Row
<1>1. loop.payload \in Payload /\ loop.verdict \in Status
  BY LiteralsTyped DEF Loop
<1> QED
  BY <1>1 DEF Reverified, Row

\* verify_document returns one of the three verdicts.
LEMMA VerifyTyped ==
    ASSUME NEW m \in Master \cup {NoMaster}, NEW p \in Payload,
           NEW v \in Verdicts(m, p)
    PROVE  v \in Verdict
<1>1. CASE m = NoMaster \/ p.multi \/ p.num = NoNumber
  BY <1>1 DEF Verdicts, Verdict
<1>2. CASE ~(m = NoMaster \/ p.multi \/ p.num = NoNumber)
  <2>1. m \in Master /\ p.num \in Number
    BY <1>2 DEF Payload
  <2>2. Outcome[m][p.num] \in SUBSET Verdict
    BY <2>1, OutcomeAssumption
  <2> QED
    BY <1>2, <2>2 DEF Verdicts
<1> QED
  BY <1>1, <1>2

LEMMA BrowserTyped == TypeOK /\ BrowserStep => TypeOK'
<1> SUFFICES ASSUME TypeOK, BrowserStep PROVE TypeOK'
  OBVIOUS
<1> USE DEF TypeOK
<1>1. ASSUME NEW d \in DocId, Upload(d) PROVE TypeOK'
  BY <1>1, LiteralsTyped DEF Upload, Row
<1>2. ASSUME NEW d \in DocId, Retry(d) PROVE TypeOK'
  BY <1>2, RowsTyped DEF Retry
<1>3. ASSUME NEW t \in Tab, NEW d \in DocId, OpenRecord(t, d) PROVE TypeOK'
  <2>1. /\ d \in Nat /\ doc[d].revision \in Nat
        /\ doc[d].payload \in Payload
    BY DEF DocId, Row
  <2> QED
    BY <1>3, <2>1 DEF OpenRecord, View
<1>4. ASSUME NEW t \in Tab, NEW n \in Number, Review(t, n) PROVE TypeOK'
  <2> DEFINE d == tab[t].doc
  <2>1. d \in DocId /\ doc[d] \in Row
    BY <1>4 DEF Review
  <2>2. doc' \in [DocId -> Row]
    BY <1>4, <2>1, CorrectedTyped DEF Review
  <2>3. history' \in [DocId -> SUBSET [version: Nat, payload: Payload]]
    <3>1. Archived(doc[d]) \in [version: Nat, payload: Payload]
      BY <2>1 DEF Archived, Row
    <3> QED
      BY <1>4, <2>1, <3>1 DEF Review
  <2>4. tab' \in [Tab -> View]
    BY <1>4, NullsTyped DEF Review
  <2> QED
    BY <1>4, <2>2, <2>3, <2>4 DEF Review
<1>5. ASSUME NEW ds \in (SUBSET DocId) \ {{}}, BulkDelete(ds) PROVE TypeOK'
  <2>1. [NewRow EXCEPT !.status = "deleted"] \in Row
    BY NullsTyped DEF Row, Status
  <2> QED
    BY <1>5, <2>1 DEF BulkDelete
<1> QED
  BY <1>1, <1>2, <1>3, <1>4, <1>5 DEF BrowserStep

LEMMA WorkerTyped ==
    ASSUME NEW w \in Worker, TypeOK, WorkerStep(w) \/ Crash(w) PROVE TypeOK'
<1> USE NullsTyped DEF TypeOK
<1>1. CASE Sweep(w)
  <2>2. doc' \in [DocId -> Row]
    BY <1>1, RowsTyped DEF Sweep
  <2>3. worker' \in [Worker -> Job]
    BY <1>1 DEF Sweep, Job
  <2> QED
    BY <1>1, <2>2, <2>3 DEF Sweep
<1>2. CASE Claim(w)
  <2> PICK d \in DocId :
        /\ doc' = [doc EXCEPT ![d] = Claimed(doc[d])]
        /\ worker' = [worker EXCEPT ![w] = [NoJob EXCEPT
               !.pc = "ocr", !.doc = d, !.lease = Claimed(doc[d]).lease]]
    BY <1>2 DEF Claim
  <2>1. doc' \in [DocId -> Row]
    BY RowsTyped
  <2>2. worker' \in [Worker -> Job]
    <3> doc[d] \in Row
      OBVIOUS
    <3>1. Claimed(doc[d]).lease \in Nat
      BY RowsTyped
    <3> d \in Nat
      BY DEF DocId
    <3>2. [NoJob EXCEPT !.pc = "ocr", !.doc = d,
               !.lease = Claimed(doc[d]).lease] \in Job
      BY <3>1 DEF Job
    <3> QED
      BY <3>2
  <2> QED
    BY <1>2, <2>1, <2>2 DEF Claim
<1>3. CASE FindNothing(w)
  BY <1>3 DEF FindNothing
<1>4. ASSUME NEW p \in Extraction, Extracted(w, p) PROVE TypeOK'
  <2>1. p \in Payload
    BY DEF Extraction, Payload
  <2>2. PICK v \in Verdicts(active, p) :
            worker' = [worker EXCEPT ![w] = [worker[w] EXCEPT
                           !.pc = "commit", !.result = p, !.verdict = v]]
    BY <1>4 DEF Extracted
  <2>3. v \in Verdict
    BY <2>1, VerifyTyped
  <2> QED
    BY <1>4, <2>1, <2>2, <2>3 DEF Extracted, Job
<1>5. CASE Discard(w)
  BY <1>5 DEF Discard
<1>6. CASE Commit(w)
  <2>1. doc' \in [DocId -> Row]
    BY <1>6, StoredTyped DEF Commit
  <2> QED
    BY <1>6, <2>1 DEF Commit
<1>7. CASE RollBack(w)
  BY <1>7 DEF RollBack, Job, Verdict
<1>8. CASE RecordFailure(w)
  <2>1. doc' \in [DocId -> Row]
    BY <1>8, RowsTyped DEF RecordFailure
  <2> QED
    BY <1>8, <2>1 DEF RecordFailure
<1>9. CASE Crash(w)
  BY <1>9 DEF Crash
<1> QED
  BY <1>1, <1>2, <1>3, <1>4, <1>5, <1>6, <1>7, <1>8, <1>9 DEF WorkerStep

LEMMA ReverifyTyped ==
    ASSUME NEW r \in Reverifier, TypeOK, ReverifyStep(r) PROVE TypeOK'
<1> USE NullsTyped DEF TypeOK
<1>1. ASSUME NEW m \in Master, Activate(r, m) PROVE TypeOK'
  BY <1>1 DEF Activate, Loop
<1>2. CASE RunReverifyAll(r)
  BY <1>2 DEF RunReverifyAll, Loop
<1>3. CASE ReadRecords(r)
  <2> DEFINE read == {[doc |-> d, payload |-> doc[d].payload] : d \in
                 {e \in DocId : /\ doc[e].status \in Verdict
                                /\ doc[e].error = ""
                                /\ doc[e].payload.by # "none"}}
  <2>1. read \in SUBSET Read
    <3> SUFFICES ASSUME NEW d \in DocId
                 PROVE  [doc |-> d, payload |-> doc[d].payload] \in Read
      OBVIOUS
    <3>1. doc[d].payload \in Payload
      BY DEF Row
    <3> QED
      BY <3>1 DEF Read
  <2>2. reverify' = [reverify EXCEPT ![r] =
                        [NoLoop EXCEPT !.pc = "loop", !.todo = read]]
    BY <1>3 DEF ReadRecords
  <2>3. reverify' \in [Reverifier -> Loop]
    BY <2>1, <2>2 DEF Loop
  <2> QED
    BY <1>3, <2>3 DEF ReadRecords
<1>4. ASSUME NEW item \in reverify[r].todo, VerifyNext(r, item) PROVE TypeOK'
  <2>1. item \in Read
    BY DEF Loop
  <2>2. item.doc \in Nat /\ item.payload \in Payload
    BY <2>1 DEF Read, DocId
  <2>3. PICK v \in Verdicts(active, item.payload) :
            reverify' = [reverify EXCEPT ![r] =
               [pc |-> "save", todo |-> reverify[r].todo \ {item},
                doc |-> item.doc, payload |-> item.payload, verdict |-> v]]
    BY <1>4 DEF VerifyNext
  <2>4. v \in Verdict
    BY <2>2, VerifyTyped
  <2>5. [pc |-> "save", todo |-> reverify[r].todo \ {item}, doc |-> item.doc,
         payload |-> item.payload, verdict |-> v] \in Loop
    BY <2>2, <2>4 DEF Loop
  <2> QED
    BY <1>4, <2>3, <2>5 DEF VerifyNext
<1>5. CASE SaveVerdict(r)
  <2>1. doc' \in [DocId -> Row]
    BY <1>5, ReverifiedTyped DEF SaveVerdict
  <2>2. reverify' \in [Reverifier -> Loop]
    BY <1>5 DEF SaveVerdict, Loop
  <2> QED
    BY <1>5, <2>1, <2>2 DEF SaveVerdict
<1>6. CASE EndReverify(r)
  BY <1>6 DEF EndReverify
<1> QED
  BY <1>1, <1>2, <1>3, <1>4, <1>5, <1>6 DEF ReverifyStep

LEMMA ScriptTyped ==
    ASSUME NEW s \in Script, TypeOK, ScriptStep(s) PROVE TypeOK'
<1> USE DEF TypeOK
<1>1. CASE ScriptRead(s)
  BY <1>1 DEF ScriptRead
<1>2. ASSUME NEW d \in DocId, ScriptRequeue(s, d) PROVE TypeOK'
  BY <1>2, RowsTyped DEF ScriptRequeue
<1>3. CASE ScriptEnds(s)
  BY <1>3 DEF ScriptEnds
<1> QED
  BY <1>1, <1>2, <1>3 DEF ScriptStep

LEMMA NextTyped == ASSUME TypeOK, [Next]_vars PROVE TypeOK'
<1>1. CASE BrowserStep
  BY <1>1, BrowserTyped
<1>2. ASSUME NEW w \in Worker, WorkerStep(w) \/ Crash(w) PROVE TypeOK'
  BY <1>2, WorkerTyped
<1>3. ASSUME NEW d \in DocId, LeaseExpires(d) PROVE TypeOK'
  BY <1>3 DEF LeaseExpires, TypeOK, Row
<1>4. ASSUME NEW r \in Reverifier, ReverifyStep(r) PROVE TypeOK'
  BY <1>4, ReverifyTyped
<1>5. ASSUME NEW s \in Script, ScriptStep(s) PROVE TypeOK'
  BY <1>5, ScriptTyped
<1>6. CASE ExpireMaster
  BY <1>6 DEF ExpireMaster, TypeOK
<1>7. CASE UNCHANGED vars
  BY <1>7 DEF vars, TypeOK
<1> QED
  BY <1>1, <1>2, <1>3, <1>4, <1>5, <1>6, <1>7 DEF Next

\* Every reachable state is well typed: records, claims, read lists and tabs
\* hold only what the code can store in them.
THEOREM TypeCorrect == Spec => []TypeOK
<1>1. Init => TypeOK
  BY NullsTyped DEF Init, TypeOK
<1>2. TypeOK /\ [Next]_vars => TypeOK'
  BY NextTyped
<1> QED
  BY <1>1, <1>2, PTL DEF Spec

(***************************** Claims **************************************)

\* What a step of anyone else may do to the record d under worker v's claim:
\* count more claims of it, delete it, or, unless v is committing, rewrite it.
RecordKept(v, d) ==
    /\ doc[d].status # "absent" => doc'[d].status # "absent"
    /\ doc[d].status # "absent" /\ Exists(d)'
       => Exists(d) /\ doc[d].attempts <= doc'[d].attempts
    /\ worker[v].pc = "commit" /\ worker[v].doc = d
       => doc'[d].lease = doc[d].lease /\ doc'[d].status = doc[d].status

LEMMA OwnedKept ==
    ASSUME NEW v \in Worker, TypeOK, TypeOK', Owned(v),
           worker'[v] = worker[v], \A d \in DocId : RecordKept(v, d)
    PROVE  Owned(v)'
<1> USE DEF Owned, Busy, RecordKept, HoldsLease
<1>1. CASE ~Busy(v)
  BY <1>1
<1>2. CASE Busy(v)
  <2> DEFINE d == worker[v].doc
  <2>1. /\ d \in DocId /\ doc[d].status # "absent"
        /\ RecordKept(v, d)
    BY <1>2
  <2>2. Exists(d)' => worker[v].lease <= doc'[d].attempts
    <3>1. /\ doc[d].attempts \in Nat /\ doc'[d].attempts \in Nat
          /\ worker[v].lease \in Nat
      BY <2>1 DEF TypeOK, Row, Job
    <3> QED
      BY <1>2, <2>1, <3>1
  <2> QED
    BY <1>2, <2>1, <2>2
<1> QED
  BY <1>1, <1>2

\* A step that moves no worker preserves the claims if it keeps the records.
LEMMA RecordsKept ==
    ASSUME TypeOK, TypeOK', ClaimInv, worker' = worker,
           \A v \in Worker, d \in DocId : RecordKept(v, d)
    PROVE  ClaimInv'
<1>1. ASSUME NEW v \in Worker PROVE Owned(v)'
  BY OwnedKept DEF ClaimInv
<1> QED
  BY <1>1 DEF ClaimInv, ClaimsDistinct

\* A worker that ends its claim, or keeps it, preserves those of the others.
LEMMA OneWorkerMoves ==
    ASSUME TypeOK, TypeOK', ClaimInv, NEW w \in Worker,
           \A v \in Worker \ {w} : worker'[v] = worker[v],
           \A v \in Worker \ {w}, d \in DocId : RecordKept(v, d),
           Owned(w)',
           \/ worker'[w].doc = 0
           \/ /\ worker'[w].doc = worker[w].doc
              /\ worker'[w].lease = worker[w].lease
    PROVE  ClaimInv'
<1>1. ASSUME NEW v \in Worker PROVE Owned(v)'
  <2>1. CASE v = w
    BY <2>1
  <2>2. CASE v # w
    BY <2>2, OwnedKept DEF ClaimInv
  <2> QED
    BY <2>1, <2>2
<1> QED
  BY <1>1 DEF ClaimInv, ClaimsDistinct

LEMMA BrowserKeepsClaims ==
    ASSUME TypeOK, TypeOK', ClaimInv, BrowserStep PROVE ClaimInv'
<1> USE DEF RecordKept, Exists, Locked
<1>1. ASSUME NEW d \in DocId, Upload(d) PROVE ClaimInv'
  <2>1. \A v \in Worker, e \in DocId : RecordKept(v, e)
    BY <1>1 DEF Upload, TypeOK, Row, ClaimInv, Owned, HoldsLease
  <2> QED
    BY <1>1, <2>1, RecordsKept DEF Upload
<1>2. ASSUME NEW d \in DocId, Retry(d) PROVE ClaimInv'
  <2>1. \A v \in Worker, e \in DocId : RecordKept(v, e)
    <3>1. /\ doc'[d].status = "queued" /\ doc'[d].attempts = doc[d].attempts
          /\ \A e \in DocId \ {d} : doc'[e] = doc[e]
          /\ doc[d].status = "failed" /\ ~Locked(d)
      BY <1>2 DEF Retry, MayRetry, Requeued, TypeOK, Row
    <3> QED
      BY <3>1 DEF TypeOK, Row
  <2> QED
    BY <1>2, <2>1, RecordsKept DEF Retry
<1>3. ASSUME NEW t \in Tab, NEW d \in DocId, OpenRecord(t, d) PROVE ClaimInv'
  <2>1. \A v \in Worker, e \in DocId : RecordKept(v, e)
    BY <1>3 DEF OpenRecord, TypeOK, Row
  <2> QED
    BY <1>3, <2>1, RecordsKept DEF OpenRecord
<1>4. ASSUME NEW t \in Tab, NEW n \in Number, Review(t, n) PROVE ClaimInv'
  <2>1. \A v \in Worker, e \in DocId : RecordKept(v, e)
    BY <1>4 DEF Review, MayCorrect, Corrected, TypeOK, Row
  <2> QED
    BY <1>4, <2>1, RecordsKept DEF Review
<1>5. ASSUME NEW ds \in (SUBSET DocId) \ {{}}, BulkDelete(ds) PROVE ClaimInv'
  <2>1. \A v \in Worker, e \in DocId : RecordKept(v, e)
    <3> SUFFICES ASSUME NEW v \in Worker, NEW e \in DocId
                 PROVE  RecordKept(v, e)
      OBVIOUS
    <3>1. CASE e \in ds
      <4>1. doc'[e].status = "deleted"
        BY <1>5, <3>1 DEF BulkDelete, NewRow
      <4>2. ~Locked(e) /\ Exists(e)
        BY <1>5, <3>1 DEF BulkDelete
      <4> QED
        BY <4>1, <4>2
    <3>2. CASE e \notin ds
      <4>1. doc'[e] = doc[e]
        BY <1>5, <3>2 DEF BulkDelete
      <4> QED
        BY <4>1 DEF TypeOK, Row
    <3> QED
      BY <3>1, <3>2
  <2> QED
    BY <1>5, <2>1, RecordsKept DEF BulkDelete
<1> QED
  BY <1>1, <1>2, <1>3, <1>4, <1>5 DEF BrowserStep

LEMMA WorkerKeepsClaims ==
    ASSUME TypeOK, TypeOK', ClaimInv,
           NEW w \in Worker, WorkerStep(w) \/ Crash(w)
    PROVE  ClaimInv'
<1> USE DEF TypeOK
<1>1. CASE Sweep(w)
  <2>1. \A v \in Worker, e \in DocId : RecordKept(v, e)
    <3> SUFFICES ASSUME NEW v \in Worker, NEW e \in DocId
                 PROVE  RecordKept(v, e)
      OBVIOUS
    <3>1. CASE e \in Expired
      <4>1. /\ doc'[e].status = "failed" /\ doc'[e].attempts = doc[e].attempts
            /\ doc[e].status = "processing" /\ ~Locked(e)
        BY <1>1, <3>1 DEF Sweep, Expired, Interrupted, Row
      <4> QED
        BY <4>1 DEF RecordKept, Exists, Locked, Row
    <3>2. CASE e \notin Expired
      <4>1. doc'[e] = doc[e]
        BY <1>1, <3>2 DEF Sweep
      <4> QED
        BY <4>1 DEF RecordKept, Exists, Row
    <3> QED
      BY <3>1, <3>2
  <2>2. worker' = [worker EXCEPT ![w].pc = "claim"] /\ worker[w].pc = "sweep"
    BY <1>1 DEF Sweep
  <2>3. Owned(w)'
    BY <2>2 DEF ClaimInv, Owned, Busy, Job
  <2> QED
    BY <2>1, <2>2, <2>3, OneWorkerMoves DEF Job
<1>2. CASE Claim(w)
  <2> PICK d \in DocId :
        /\ doc[d].status = "queued"
        /\ doc' = [doc EXCEPT ![d] = Claimed(doc[d])]
        /\ worker' = [worker EXCEPT ![w] = [NoJob EXCEPT
               !.pc = "ocr", !.doc = d, !.lease = Claimed(doc[d]).lease]]
    BY <1>2 DEF Claim, Oldest
  <2>1. doc[d].attempts \in Nat /\ doc'[d].attempts = doc[d].attempts + 1
        /\ doc'[d].status = "processing"
        /\ Claimed(doc[d]).lease = doc[d].attempts + 1
        /\ \A e \in DocId \ {d} : doc'[e] = doc[e]
    BY DEF Claimed, Row
  <2>2. /\ worker'[w].pc = "ocr" /\ worker'[w].doc = d
        /\ worker'[w].lease = doc[d].attempts + 1
        /\ \A v \in Worker \ {w} : worker'[v] = worker[v]
    BY <2>1 DEF NoJob
  <2>3. Owned(w)'
    BY <2>1, <2>2 DEF Owned, Busy, Exists, NoLease
  <2>4. \A v \in Worker : worker[v].pc = "commit" => worker[v].doc # d
    BY DEF ClaimInv, Owned, HoldsLease
  <2>5. \A v \in Worker \ {w}, e \in DocId : RecordKept(v, e)
    BY <2>1, <2>4 DEF RecordKept, Exists, Row
  <2>6. \A v \in Worker \ {w} : Owned(v)'
    BY <2>2, <2>5, OwnedKept DEF ClaimInv
  <2>7. \A v \in Worker \ {w} :
            worker[v].doc = d => worker[v].lease <= doc[d].attempts
    <3> SUFFICES ASSUME NEW v \in Worker \ {w}, worker[v].doc = d
                 PROVE  worker[v].lease <= doc[d].attempts
      OBVIOUS
    <3>1. d # 0
      BY DEF DocId
    <3> QED
      BY <3>1 DEF ClaimInv, Owned, Exists
  <2>8. ClaimsDistinct'
    <3> SUFFICES ASSUME NEW u \in Worker, NEW v \in Worker, u # v,
                        worker'[u].doc = worker'[v].doc, worker'[u].doc # 0
                 PROVE  worker'[u].lease # worker'[v].lease
      BY DEF ClaimsDistinct
    <3>1. CASE u # w /\ v # w
      BY <2>2, <3>1 DEF ClaimInv, ClaimsDistinct
    <3>2. CASE u = w \/ v = w
      <4>1. \A x \in Worker : worker[x].lease \in Nat
        BY DEF Job
      <4> QED
        BY <2>1, <2>2, <2>7, <3>2, <4>1
    <3> QED
      BY <3>1, <3>2
  <2> QED
    BY <2>3, <2>6, <2>8 DEF ClaimInv
<1>3. CASE FindNothing(w) \/ Discard(w) \/ Crash(w)
  <2>1. doc' = doc /\ worker' = [worker EXCEPT ![w] = NoJob]
    BY <1>3 DEF FindNothing, Discard, Crash
  <2>2. \A v \in Worker, e \in DocId : RecordKept(v, e)
    BY <2>1 DEF RecordKept, Exists, Row
  <2>3. worker'[w].doc = 0 /\ Owned(w)'
    BY <2>1 DEF Owned, Busy, NoJob
  <2> QED
    BY <2>1, <2>2, <2>3, OneWorkerMoves
<1>4. ASSUME NEW p \in Extraction, Extracted(w, p) PROVE ClaimInv'
  <2>1. /\ doc' = doc /\ HoldsLease(w) /\ worker[w].pc = "ocr"
        /\ worker'[w].pc = "commit" /\ worker'[w].doc = worker[w].doc
        /\ worker'[w].lease = worker[w].lease
        /\ \A v \in Worker \ {w} : worker'[v] = worker[v]
    BY <1>4 DEF Extracted, Job
  <2>2. \A v \in Worker, e \in DocId : RecordKept(v, e)
    BY <2>1 DEF RecordKept, Exists, Row
  <2>3. Owned(w)'
    BY <2>1 DEF ClaimInv, Owned, Busy, HoldsLease, Exists
  <2> QED
    BY <2>1, <2>2, <2>3, OneWorkerMoves
<1>5. CASE Commit(w)
  <2>1. worker[w].doc \in DocId /\ HoldsLease(w)
    BY <1>5 DEF Commit, ClaimInv, Owned, Busy
  <2>2. \A v \in Worker \ {w} :
            worker[v].pc = "commit" => worker[v].doc # worker[w].doc
    BY <1>5, <2>1 DEF Commit, ClaimInv, ClaimsDistinct, Owned, HoldsLease, DocId
  <2>3. /\ doc'[worker[w].doc].attempts = doc[worker[w].doc].attempts
        /\ doc'[worker[w].doc].status \in Verdict
        /\ \A e \in DocId \ {worker[w].doc} : doc'[e] = doc[e]
    BY <1>5, <2>1 DEF Commit, Stored, Row, Job
  <2>4. \A v \in Worker \ {w}, e \in DocId : RecordKept(v, e)
    BY <2>1, <2>2, <2>3 DEF RecordKept, Exists, HoldsLease, Verdict, Row
  <2>5. /\ worker' = [worker EXCEPT ![w] = NoJob]
        /\ worker'[w].doc = 0 /\ Owned(w)'
    BY <1>5 DEF Commit, Owned, Busy, NoJob
  <2> QED
    BY <2>4, <2>5, OneWorkerMoves
<1>6. CASE RollBack(w)
  <2>1. /\ doc' = doc /\ worker[w].pc = "commit"
        /\ worker'[w].pc = "failing" /\ worker'[w].doc = worker[w].doc
        /\ worker'[w].lease = worker[w].lease
        /\ \A v \in Worker \ {w} : worker'[v] = worker[v]
    BY <1>6 DEF RollBack, Job
  <2>2. \A v \in Worker, e \in DocId : RecordKept(v, e)
    BY <2>1 DEF RecordKept, Exists, Row
  <2>3. Owned(w)'
    BY <2>1 DEF ClaimInv, Owned, Busy, Exists
  <2> QED
    BY <2>1, <2>2, <2>3, OneWorkerMoves
<1>7. CASE RecordFailure(w)
  <2> DEFINE d == worker[w].doc
  <2>1. d \in DocId /\ worker[w].pc # "commit"
        /\ doc[d].status # "absent" /\ worker[w].lease # NoLease
    BY <1>7 DEF RecordFailure, ClaimInv, Owned, Busy
  <2>2. worker' = [worker EXCEPT ![w] = NoJob]
    BY <1>7 DEF RecordFailure
  <2>3. worker'[w].doc = 0 /\ Owned(w)'
    BY <2>2 DEF Owned, Busy, NoJob
  <2>4. \A v \in Worker \ {w}, e \in DocId : RecordKept(v, e)
    <3>1. CASE Exists(d) /\ doc[d].lease = worker[w].lease
      <4>1. /\ doc'[d].attempts = doc[d].attempts
            /\ doc'[d].status = "failed" /\ ~Locked(d)
            /\ \A e \in DocId \ {d} : doc'[e] = doc[e]
        BY <1>7, <2>1, <3>1 DEF RecordFailure, Failed, Row
      <4> QED
        BY <2>1, <3>1, <4>1 DEF RecordKept, Exists, Locked, Row
    <3>2. CASE ~(Exists(d) /\ doc[d].lease = worker[w].lease)
      <4>1. doc' = doc
        BY <1>7, <3>2 DEF RecordFailure
      <4> QED
        BY <4>1 DEF RecordKept, Exists, Row
    <3> QED
      BY <3>1, <3>2
  <2> QED
    BY <2>2, <2>3, <2>4, OneWorkerMoves
<1> QED
  BY <1>1, <1>2, <1>3, <1>4, <1>5, <1>6, <1>7 DEF WorkerStep

LEMMA ReverifyKeepsClaims ==
    ASSUME TypeOK, TypeOK', ClaimInv, NEW r \in Reverifier, ReverifyStep(r)
    PROVE  ClaimInv'
<1>1. CASE SaveVerdict(r)
  <2>1. reverify[r].verdict \in Verdict
    BY DEF TypeOK, Loop
  <2>2. ASSUME NEW v \in Worker, NEW e \in DocId PROVE RecordKept(v, e)
    <3>1. CASE e = reverify[r].doc
      <4>1. /\ doc'[e].status \in Verdict /\ doc'[e].attempts = doc[e].attempts
            /\ ~Locked(e) /\ Exists(e)
        BY <1>1, <2>1, <3>1 DEF SaveVerdict, Reverified, TypeOK, Row
      <4> QED
        BY <4>1 DEF RecordKept, Exists, Locked, Verdict, TypeOK, Row
    <3>2. CASE e # reverify[r].doc
      <4>1. doc'[e] = doc[e]
        BY <1>1, <3>2 DEF SaveVerdict, TypeOK
      <4> QED
        BY <4>1 DEF RecordKept, Exists, TypeOK, Row
    <3> QED
      BY <3>1, <3>2
  <2> QED
    BY <1>1, <2>2, RecordsKept DEF SaveVerdict
<1>2. CASE ~SaveVerdict(r)
  <2>1. doc' = doc /\ worker' = worker
    BY <1>2 DEF ReverifyStep, Activate, RunReverifyAll, ReadRecords,
                VerifyNext, EndReverify
  <2>2. \A v \in Worker, e \in DocId : RecordKept(v, e)
    BY <2>1 DEF RecordKept, Exists, TypeOK, Row
  <2> QED
    BY <2>1, <2>2, RecordsKept
<1> QED
  BY <1>1, <1>2

LEMMA ScriptKeepsClaims ==
    ASSUME TypeOK, TypeOK', ClaimInv, NEW s \in Script, ScriptStep(s)
    PROVE  ClaimInv'
<1>1. ASSUME NEW d \in DocId, ScriptRequeue(s, d) PROVE ClaimInv'
  <2>1. /\ doc'[d].status = "queued" /\ doc'[d].attempts = doc[d].attempts
        /\ ~Locked(d) /\ Exists(d)
        /\ \A e \in DocId \ {d} : doc'[e] = doc[e]
    BY <1>1 DEF ScriptRequeue, Requeued, TypeOK, Row
  <2>2. \A v \in Worker, e \in DocId : RecordKept(v, e)
    BY <2>1 DEF RecordKept, Exists, Locked, TypeOK, Row
  <2> QED
    BY <1>1, <2>2, RecordsKept DEF ScriptRequeue
<1>2. CASE ScriptRead(s) \/ ScriptEnds(s)
  <2>1. doc' = doc /\ worker' = worker
    BY <1>2 DEF ScriptRead, ScriptEnds
  <2>2. \A v \in Worker, e \in DocId : RecordKept(v, e)
    BY <2>1 DEF RecordKept, Exists, TypeOK, Row
  <2> QED
    BY <2>1, <2>2, RecordsKept
<1> QED
  BY <1>1, <1>2 DEF ScriptStep

LEMMA NextKeepsClaims ==
    ASSUME TypeOK, TypeOK', ClaimInv, [Next]_vars PROVE ClaimInv'
<1>1. CASE BrowserStep
  BY <1>1, BrowserKeepsClaims
<1>2. ASSUME NEW w \in Worker, WorkerStep(w) \/ Crash(w) PROVE ClaimInv'
  BY <1>2, WorkerKeepsClaims
<1>3. ASSUME NEW d \in DocId, LeaseExpires(d) PROVE ClaimInv'
  <2>1. /\ doc'[d].status = doc[d].status /\ doc'[d].attempts = doc[d].attempts
        /\ doc'[d].lease = doc[d].lease
        /\ \A e \in DocId \ {d} : doc'[e] = doc[e]
    BY <1>3 DEF LeaseExpires, TypeOK, Row
  <2>2. \A v \in Worker, e \in DocId : RecordKept(v, e)
    BY <2>1 DEF RecordKept, Exists, TypeOK, Row
  <2> QED
    BY <1>3, <2>2, RecordsKept DEF LeaseExpires
<1>4. ASSUME NEW r \in Reverifier, ReverifyStep(r) PROVE ClaimInv'
  BY <1>4, ReverifyKeepsClaims
<1>5. ASSUME NEW s \in Script, ScriptStep(s) PROVE ClaimInv'
  BY <1>5, ScriptKeepsClaims
<1>6. CASE ExpireMaster \/ UNCHANGED vars
  <2>1. doc' = doc /\ worker' = worker
    BY <1>6 DEF ExpireMaster, vars
  <2>2. \A v \in Worker, e \in DocId : RecordKept(v, e)
    BY <2>1 DEF RecordKept, Exists, TypeOK, Row
  <2> QED
    BY <2>1, <2>2, RecordsKept
<1> QED
  BY <1>1, <1>2, <1>3, <1>4, <1>5, <1>6 DEF Next

\* The inductive invariant of claims (worker.py 20-37).
THEOREM ClaimsInvariant == Spec => []ClaimInv
<1>1. Init => ClaimInv
  BY DEF Init, ClaimInv, ClaimsDistinct, Owned, Busy, NoJob
<1>2. TypeOK /\ TypeOK' /\ ClaimInv /\ [Next]_vars => ClaimInv'
  BY NextKeepsClaims
<1> QED
  BY <1>1, <1>2, TypeCorrect, PTL DEF Spec

\* No two workers ever work under the same claim of a record (worker.py 20-26).
THEOREM ClaimsAreDistinct == Spec => []ClaimsDistinct
<1>1. ClaimInv => ClaimsDistinct
  BY DEF ClaimInv
<1> QED
  BY <1>1, ClaimsInvariant, PTL

\* A worker that passed the check of worker.py 36 commits to a record that is still
\* its own, whatever else runs.
THEOREM CommitsUnderLease == Spec => []ResultsUnderCurrentLease
<1>1. ClaimInv => ResultsUnderCurrentLease
  BY DEF ClaimInv, ClaimsDistinct, ResultsUnderCurrentLease, Owned, Busy,
         HoldsLease, DocId
<1> QED
  BY <1>1, ClaimsInvariant, PTL

(*********************** How a row may change ******************************)

UploadedRow(d) ==
    doc[d].status = "absent" /\ doc'[d] = [doc[d] EXCEPT !.status = "queued"]
CorrectedRow(d) ==
    MayCorrect(doc[d]) /\ \E n \in Number : doc'[d] = Corrected(doc[d], n)
RetriedRow(d) == MayRetry(doc[d]) /\ doc'[d] = Requeued(doc[d])
DeletedRow(d) == doc'[d] = [NewRow EXCEPT !.status = "deleted"]
LateRow(d) ==
    doc[d].status = "processing" /\ doc'[d] = [doc[d] EXCEPT !.late = TRUE]
InterruptedRow(d) ==
    doc[d].status = "processing" /\ doc'[d] = Interrupted(doc[d])
ClaimedRow(d) == doc[d].status = "queued" /\ doc'[d] = Claimed(doc[d])
StoredRow(d) ==
    \E w \in Worker : /\ worker[w].pc = "commit" /\ worker[w].doc = d
                      /\ doc[d].status = "processing"
                      /\ doc'[d] = Stored(doc[d], worker[w])
FailedRow(d) ==
    \E w \in Worker : /\ worker[w].doc = d /\ worker[w].lease # NoLease
                      /\ doc[d].lease = worker[w].lease /\ Exists(d)
                      /\ doc'[d] = Failed(doc[d])
ReverifiedRow(d) ==
    \E r \in Reverifier : /\ reverify[r].pc = "save" /\ Exists(d)
                          /\ doc'[d] = Reverified(doc[d], reverify[r])
ScriptedRow(d) ==
    /\ Script # {} /\ Exists(d)
    /\ doc'[d] = [Requeued(doc[d]) EXCEPT !.lease = NoLease, !.late = FALSE]

RowStep(d) ==
    \/ doc'[d] = doc[d] \/ UploadedRow(d) \/ CorrectedRow(d) \/ RetriedRow(d)
    \/ DeletedRow(d) \/ LateRow(d) \/ InterruptedRow(d) \/ ClaimedRow(d)
    \/ StoredRow(d) \/ FailedRow(d) \/ ReverifiedRow(d) \/ ScriptedRow(d)

LEMMA BrowserRowSteps ==
    ASSUME TypeOK, BrowserStep, NEW d \in DocId PROVE RowStep(d)
<1> USE DEF TypeOK, RowStep
<1>1. ASSUME NEW e \in DocId, Upload(e) PROVE RowStep(d)
  BY <1>1 DEF Upload, UploadedRow
<1>2. ASSUME NEW e \in DocId, Retry(e) PROVE RowStep(d)
  BY <1>2 DEF Retry, RetriedRow
<1>3. ASSUME NEW t \in Tab, NEW e \in DocId, OpenRecord(t, e) PROVE RowStep(d)
  BY <1>3 DEF OpenRecord
<1>4. ASSUME NEW t \in Tab, NEW n \in Number, Review(t, n) PROVE RowStep(d)
  BY <1>4 DEF Review, CorrectedRow
<1>5. ASSUME NEW ds \in (SUBSET DocId) \ {{}}, BulkDelete(ds) PROVE RowStep(d)
  BY <1>5 DEF BulkDelete, DeletedRow
<1> QED
  BY <1>1, <1>2, <1>3, <1>4, <1>5 DEF BrowserStep

LEMMA WorkerRowSteps ==
    ASSUME TypeOK, ClaimInv, NEW w \in Worker, WorkerStep(w) \/ Crash(w),
           NEW d \in DocId
    PROVE  RowStep(d)
<1> USE DEF TypeOK, RowStep
<1>1. CASE Sweep(w)
  BY <1>1 DEF Sweep, Expired, InterruptedRow
<1>2. CASE Claim(w)
  BY <1>2 DEF Claim, Oldest, ClaimedRow
<1>3. CASE FindNothing(w) \/ Discard(w) \/ RollBack(w) \/ Crash(w)
           \/ \E p \in Extraction : Extracted(w, p)
  BY <1>3 DEF FindNothing, Discard, RollBack, Crash, Extracted
<1>4. CASE Commit(w)
  <2>1. HoldsLease(w) /\ worker[w].pc = "commit"
    BY <1>4 DEF Commit, ClaimInv, Owned
  <2> QED
    BY <1>4, <2>1 DEF Commit, HoldsLease, StoredRow
<1>5. CASE RecordFailure(w)
  <2>1. worker[w].lease # NoLease
    BY <1>5 DEF RecordFailure, ClaimInv, Owned, Busy
  <2> QED
    BY <1>5, <2>1 DEF RecordFailure, FailedRow
<1> QED
  BY <1>1, <1>2, <1>3, <1>4, <1>5 DEF WorkerStep

\* Every step changes every row in one of these ways or not at all.
LEMMA RowSteps ==
    ASSUME TypeOK, ClaimInv, [Next]_vars, NEW d \in DocId PROVE RowStep(d)
<1>1. CASE BrowserStep
  BY <1>1, BrowserRowSteps
<1>2. ASSUME NEW w \in Worker, WorkerStep(w) \/ Crash(w) PROVE RowStep(d)
  BY <1>2, WorkerRowSteps
<1>3. ASSUME NEW e \in DocId, LeaseExpires(e) PROVE RowStep(d)
  BY <1>3 DEF LeaseExpires, TypeOK, RowStep, LateRow
<1>4. ASSUME NEW r \in Reverifier, ReverifyStep(r) PROVE RowStep(d)
  <2>1. CASE SaveVerdict(r)
    BY <2>1 DEF SaveVerdict, TypeOK, RowStep, ReverifiedRow
  <2>2. CASE ~SaveVerdict(r)
    BY <1>4, <2>2 DEF ReverifyStep, Activate, RunReverifyAll, ReadRecords,
                      VerifyNext, EndReverify, RowStep
  <2> QED
    BY <2>1, <2>2
<1>5. ASSUME NEW s \in Script, ScriptStep(s) PROVE RowStep(d)
  <2>1. ASSUME NEW e \in DocId, ScriptRequeue(s, e) PROVE RowStep(d)
    BY <2>1 DEF ScriptRequeue, TypeOK, RowStep, ScriptedRow
  <2> QED
    BY <1>5, <2>1 DEF ScriptStep, ScriptRead, ScriptEnds, RowStep
<1>6. CASE ExpireMaster \/ UNCHANGED vars
  BY <1>6 DEF ExpireMaster, vars, RowStep
<1> QED
  BY <1>1, <1>2, <1>3, <1>4, <1>5, <1>6 DEF Next

(********************** What the writers leave *****************************)

SameData(row, new) ==
    /\ new.payload = row.payload /\ new.index = row.index
    /\ new.revision = row.revision

LEMMA FailureEffects ==
    ASSUME NEW row \in Row
    PROVE  /\ SameData(row, Interrupted(row)) /\ SameData(row, Failed(row))
           /\ Interrupted(row).status = "failed" /\ Failed(row).status = "failed"
           /\ Interrupted(row).lease = NoLease /\ Failed(row).lease = NoLease
           /\ Interrupted(row).error # "" /\ Failed(row).error # ""
<1>1. /\ SameData(row, Interrupted(row)) /\ Interrupted(row).status = "failed"
      /\ Interrupted(row).lease = NoLease /\ Interrupted(row).error # ""
  BY DEF Interrupted, SameData, Row
<1>2. /\ SameData(row, Failed(row)) /\ Failed(row).status = "failed"
      /\ Failed(row).lease = NoLease /\ Failed(row).error # ""
  BY DEF Failed, SameData, Row
<1> QED
  BY <1>1, <1>2

LEMMA QueueEffects ==
    ASSUME NEW row \in Row,
           NEW new \in {Requeued(row), [row EXCEPT !.status = "queued"]}
    PROVE  /\ SameData(row, new) /\ new.status = "queued"
           /\ new.lease = row.lease /\ new.error \in {"", row.error}
<1>1. CASE new = Requeued(row)
  BY <1>1 DEF Requeued, SameData, Row
<1>2. CASE new = [row EXCEPT !.status = "queued"]
  BY <1>2 DEF SameData, Row
<1> QED
  BY <1>1, <1>2

LEMMA ScriptEffects ==
    ASSUME NEW row \in Row,
           NEW new, new = [Requeued(row) EXCEPT !.lease = NoLease, !.late = FALSE]
    PROVE  SameData(row, new) /\ new.status = "queued"
<1>1. Requeued(row) \in Row /\ SameData(row, Requeued(row))
  BY RowsTyped, QueueEffects
<1>2. Requeued(row).status = "queued"
  BY QueueEffects
<1> QED
  BY <1>1, <1>2 DEF SameData, Row

LEMMA ClaimEffects ==
    ASSUME NEW row \in Row
    PROVE  /\ SameData(row, Claimed(row)) /\ Claimed(row).status = "processing"
           /\ Claimed(row).lease # NoLease /\ Claimed(row).error = row.error
<1>1. /\ SameData(row, Claimed(row)) /\ Claimed(row).status = "processing"
      /\ Claimed(row).lease = row.attempts + 1 /\ Claimed(row).error = row.error
  BY DEF Claimed, SameData, Row
<1>2. row.attempts \in Nat
  BY DEF Row
<1> QED
  BY <1>1, <1>2 DEF NoLease

LEMMA LateEffects ==
    ASSUME NEW row \in Row, NEW new, new = [row EXCEPT !.late = TRUE]
    PROVE  /\ SameData(row, new) /\ new.status = row.status
           /\ new.lease = row.lease /\ new.error = row.error
  BY DEF SameData, Row

LEMMA CorrectionEffects ==
    ASSUME NEW row \in Row, NEW n \in Number
    PROVE  /\ Corrected(row, n).payload.multi = row.payload.multi
           /\ Corrected(row, n).payload.num = n
           /\ Corrected(row, n).payload.by = "human"
           /\ Corrected(row, n).index = n
           /\ Corrected(row, n).status = "approved"
           /\ Corrected(row, n).revision = row.revision + 1
           /\ Corrected(row, n).lease = row.lease
           /\ Corrected(row, n).error = row.error
<1> DEFINE fields == [row.payload EXCEPT !.by = "human", !.num = n]
           new == Corrected(row, n)
<1>1. row.payload \in Payload
  BY DEF Row
<1>2. /\ fields.multi = row.payload.multi /\ fields.num = n
      /\ fields.by = "human"
  BY <1>1 DEF Payload
<1>3. new.payload = fields
  BY DEF Corrected, Row
<1>4. /\ new.index = n /\ new.status = "approved"
      /\ new.revision = row.revision + 1
      /\ new.lease = row.lease /\ new.error = row.error
  BY DEF Corrected, Row
<1> QED
  BY <1>2, <1>3, <1>4

LEMMA StoreEffects ==
    ASSUME NEW row \in Row, NEW job, NEW new, new = Stored(row, job)
    PROVE  /\ new.payload = job.result /\ new.index = job.result.num
           /\ new.status = job.verdict /\ new.revision = row.revision
           /\ new.lease = NoLease /\ new.error = ""
  BY DEF Stored, Row

LEMMA ReverifyEffects ==
    ASSUME NEW row \in Row, NEW loop, NEW new, new = Reverified(row, loop)
    PROVE  /\ new.payload = loop.payload /\ new.status = loop.verdict
           /\ new.revision = row.revision
  BY DEF Reverified, Row

LEMMA DeleteEffects ==
    ASSUME NEW new, new = [NewRow EXCEPT !.status = "deleted"]
    PROVE  /\ new.payload = NoPayload /\ new.index = NoNumber
           /\ new.status = "deleted" /\ new.revision = 0
           /\ new.lease = NoLease /\ new.error = ""
  BY DEF NewRow

LEMMA InitialRows ==
    Init => \A d \in DocId : doc[d] = NewRow
  BY DEF Init

(************************* The limit of attempts ***************************)

\* A queued record has an attempt left: the limit tested at the retry is
\* still the limit when a worker claims.
AttemptInv ==
    \A d \in DocId : /\ doc[d].attempts <= RetryLimit
                     /\ doc[d].status \in {"absent", "queued"}
                        => doc[d].attempts < RetryLimit

LEMMA AttemptsInvariant == ASSUME Script = {} PROVE Spec => []AttemptInv
<1> USE DEF RetryLimit
<1>1. Init => AttemptInv
  <2>1. NewRow.attempts = 0
    BY DEF NewRow
  <2> QED
    BY <2>1, InitialRows DEF AttemptInv
<1>2. TypeOK /\ ClaimInv /\ AttemptInv /\ [Next]_vars => AttemptInv'
  <2> SUFFICES ASSUME TypeOK, ClaimInv, AttemptInv, [Next]_vars,
                      NEW d \in DocId
               PROVE  /\ doc'[d].attempts <= RetryLimit
                      /\ doc'[d].status \in {"absent", "queued"}
                         => doc'[d].attempts < RetryLimit
    BY DEF AttemptInv
  <2> DEFINE row == doc[d]
  <2>1. /\ row \in Row /\ row.attempts \in Nat /\ row.attempts <= RetryLimit
        /\ row.status \in {"absent", "queued"} => row.attempts < RetryLimit
    BY DEF AttemptInv, TypeOK, Row
  <2>2. CASE UploadedRow(d) \/ LateRow(d)
    BY <2>1, <2>2 DEF UploadedRow, LateRow, Row
  <2>3. CASE DeletedRow(d)
    <3>1. doc'[d].attempts = 0
      BY <2>3 DEF DeletedRow, NewRow
    <3>2. doc'[d].status = "deleted"
      BY <2>3 DEF DeletedRow, NewRow
    <3> QED
      BY <3>1, <3>2
  <2>4. CASE CorrectedRow(d)
    BY <2>1, <2>4 DEF CorrectedRow, Corrected, Row
  <2>5. CASE RetriedRow(d)
    BY <2>1, <2>5 DEF RetriedRow, MayRetry, Requeued, Row
  <2>6. CASE InterruptedRow(d) \/ FailedRow(d)
    BY <2>1, <2>6 DEF InterruptedRow, Interrupted, FailedRow, Failed, Row
  <2>7. CASE ClaimedRow(d)
    BY <2>1, <2>7 DEF ClaimedRow, Claimed, Row
  <2>8. CASE StoredRow(d)
    <3>1. \A w \in Worker : worker[w].verdict \in Verdict
      BY DEF TypeOK, Job
    <3> QED
      BY <2>1, <2>8, <3>1 DEF StoredRow, Stored, Verdict, Row
  <2>9. CASE ReverifiedRow(d)
    <3>1. \A r \in Reverifier : reverify[r].verdict \in Verdict
      BY DEF TypeOK, Loop
    <3> QED
      BY <2>1, <2>9, <3>1 DEF ReverifiedRow, Reverified, Verdict, Row
  <2>10. CASE doc'[d] = doc[d]
    BY <2>1, <2>10
  <2> QED
    BY RowSteps, <2>2, <2>3, <2>4, <2>5, <2>6, <2>7, <2>8, <2>9, <2>10
       DEF RowStep, ScriptedRow
<1> QED
  BY <1>1, <1>2, TypeCorrect, ClaimsInvariant, PTL DEF Spec

\* However uploads, retries, crashes, expiries and re-verifications
\* interleave, no record is ever claimed a fourth time, as long as the operator
\* does not run retry_interrupted.py.
THEOREM AttemptLimit == ASSUME Script = {} PROVE Spec => []AttemptsBounded
<1>1. AttemptInv => AttemptsBounded
  BY DEF AttemptInv, AttemptsBounded
<1> QED
  BY <1>1, AttemptsInvariant, PTL

(*************** Verdicts, identities and extractions **********************)

\* The verdict in hand, of a worker about to commit or of a re-verification
\* about to save, approves no multiple identities and is on an extraction.
VerdictInv ==
    /\ \A w \in Worker : worker[w].pc = "commit" =>
          /\ worker[w].result.by = "ocr"
          /\ worker[w].result.multi => worker[w].verdict # "approved"
    /\ \A r \in Reverifier :
          /\ \A item \in reverify[r].todo : item.payload.by # "none"
          /\ reverify[r].pc = "save" =>
                /\ reverify[r].payload.by # "none"
                /\ reverify[r].payload.multi => reverify[r].verdict # "approved"

LEMMA VerifyMulti ==
    ASSUME NEW m, NEW p \in Payload, p.multi, NEW v \in Verdicts(m, p)
    PROVE  v # "approved"
  BY DEF Verdicts

LEMMA NextKeepsVerdicts ==
    ASSUME TypeOK, TypeOK', VerdictInv, [Next]_vars PROVE VerdictInv'
<1>1. ASSUME NEW w \in Worker, WorkerStep(w) \/ Crash(w) PROVE VerdictInv'
  <2>1. ASSUME NEW p \in Extraction, Extracted(w, p) PROVE VerdictInv'
    <3>1. p \in Payload /\ p.by = "ocr"
      BY DEF Extraction, Payload
    <3>2. PICK v \in Verdicts(active, p) :
              worker' = [worker EXCEPT ![w] = [worker[w] EXCEPT
                             !.pc = "commit", !.result = p, !.verdict = v]]
      BY <2>1 DEF Extracted
    <3>3. p.multi => v # "approved"
      BY <3>1, VerifyMulti
    <3> QED
      BY <2>1, <3>1, <3>2, <3>3 DEF Extracted, VerdictInv, TypeOK, Job
  <2>2. CASE ~\E p \in Extraction : Extracted(w, p)
    <3>1. /\ reverify' = reverify
          /\ \A v \in Worker : worker'[v].pc = "commit" => worker'[v] = worker[v]
      <4>1. /\ reverify' = reverify
            /\ \A v \in Worker \ {w} : worker'[v] = worker[v]
        BY <1>1, <2>2 DEF WorkerStep, Sweep, Claim, FindNothing, Discard,
                          Commit, RollBack, RecordFailure, Crash, TypeOK
      <4>2. CASE Sweep(w)
        BY <4>1, <4>2 DEF Sweep, TypeOK, Job
      <4>3. CASE Claim(w)
        BY <4>1, <4>3 DEF Claim, NoJob, TypeOK
      <4>4. CASE RollBack(w)
        BY <4>1, <4>4 DEF RollBack, TypeOK, Job
      <4>5. CASE FindNothing(w) \/ Discard(w) \/ Commit(w)
                 \/ RecordFailure(w) \/ Crash(w)
        <5>1. worker'[w] = NoJob
          BY <4>5 DEF FindNothing, Discard, Commit, RecordFailure, Crash, TypeOK
        <5> QED
          BY <4>1, <5>1 DEF NoJob
      <4> QED
        BY <1>1, <2>2, <4>1, <4>2, <4>3, <4>4, <4>5 DEF WorkerStep
    <3> QED
      BY <3>1 DEF VerdictInv
  <2> QED
    BY <2>1, <2>2
<1>2. ASSUME NEW r \in Reverifier, ReverifyStep(r) PROVE VerdictInv'
  <2>0. worker' = worker /\ \A q \in Reverifier \ {r} : reverify'[q] = reverify[q]
    BY <1>2 DEF ReverifyStep, Activate, RunReverifyAll, ReadRecords,
                VerifyNext, SaveVerdict, EndReverify, TypeOK
  <2> SUFFICES
        /\ \A item \in reverify'[r].todo : item.payload.by # "none"
        /\ reverify'[r].pc = "save" =>
              /\ reverify'[r].payload.by # "none"
              /\ reverify'[r].payload.multi => reverify'[r].verdict # "approved"
    BY <2>0 DEF VerdictInv
  <2>1. CASE RunReverifyAll(r) \/ \E m \in Master : Activate(r, m)
    BY <2>1 DEF RunReverifyAll, Activate, VerdictInv, TypeOK, Loop
  <2>2. CASE ReadRecords(r)
    <3>1. reverify'[r].pc = "loop"
      BY <2>2 DEF ReadRecords, TypeOK, NoLoop
    <3> DEFINE extracted == {e \in DocId : /\ doc[e].status \in Verdict
                                           /\ doc[e].error = ""
                                           /\ doc[e].payload.by # "none"}
               read == {[doc |-> d, payload |-> doc[d].payload] : d \in extracted}
    <3>2. reverify'[r].todo = read
      BY <2>2 DEF ReadRecords, TypeOK, NoLoop
    <3>3. \A item \in read : item.payload.by # "none"
      <4> SUFFICES ASSUME NEW d \in extracted
                   PROVE  [doc |-> d, payload |-> doc[d].payload].payload.by # "none"
        OBVIOUS
      <4>1. doc[d].payload.by # "none"
        OBVIOUS
      <4> QED
        BY <4>1
    <3> QED
      BY <3>1, <3>2, <3>3
  <2>3. ASSUME NEW item \in reverify[r].todo, VerifyNext(r, item)
        PROVE  /\ \A i \in reverify'[r].todo : i.payload.by # "none"
               /\ reverify'[r].payload.by # "none"
               /\ reverify'[r].payload.multi => reverify'[r].verdict # "approved"
    <3>1. PICK v \in Verdicts(active, item.payload) :
              /\ reverify'[r].todo = reverify[r].todo \ {item}
              /\ reverify'[r].payload = item.payload
              /\ reverify'[r].verdict = v
      BY <2>3 DEF VerifyNext, TypeOK
    <3>2. item.payload \in Payload
      BY DEF TypeOK, Loop, Read
    <3> QED
      BY <3>1, <3>2, VerifyMulti DEF VerdictInv
  <2>4. CASE SaveVerdict(r) \/ EndReverify(r)
    <3>1. /\ reverify'[r].pc # "save"
          /\ reverify'[r].todo \in {reverify[r].todo, {}}
      <4>1. CASE SaveVerdict(r)
        BY <4>1 DEF SaveVerdict, NoLoop, TypeOK
      <4>2. CASE EndReverify(r)
        BY <4>2 DEF EndReverify, NoLoop, TypeOK
      <4> QED
        BY <2>4, <4>1, <4>2
    <3> QED
      BY <3>1 DEF VerdictInv
  <2> QED
    BY <1>2, <2>1, <2>2, <2>3, <2>4 DEF ReverifyStep
<1>3. CASE BrowserStep \/ ExpireMaster \/ UNCHANGED vars
           \/ (\E d \in DocId : LeaseExpires(d)) \/ \E s \in Script : ScriptStep(s)
  <2>1. worker' = worker /\ reverify' = reverify
    BY <1>3 DEF BrowserStep, Upload, Retry, OpenRecord, Review, BulkDelete,
                ExpireMaster, LeaseExpires, ScriptStep, ScriptRead,
                ScriptRequeue, ScriptEnds, vars
  <2> QED
    BY <2>1 DEF VerdictInv
<1> QED
  BY <1>1, <1>2, <1>3 DEF Next
LEMMA VerdictsInvariant == Spec => []VerdictInv
<1>1. Init => VerdictInv
  BY DEF Init, VerdictInv, NoJob, NoLoop
<1>2. TypeOK /\ TypeOK' /\ VerdictInv /\ [Next]_vars => VerdictInv'
  BY NextKeepsVerdicts
<1> QED
  BY <1>1, <1>2, TypeCorrect, PTL DEF Spec

\* No record with several MRZ identities is ever approved: not by a worker's
\* verdict, not by the owner's correction, not by a stale re-verification.
THEOREM MultiSafe == Spec => []MultiNeverApproved
<1>1. Init => MultiNeverApproved
  <2>1. NewRow.status = "absent"
    BY DEF NewRow
  <2> QED
    BY <2>1, InitialRows DEF MultiNeverApproved
<1>2. TypeOK /\ ClaimInv /\ VerdictInv /\ MultiNeverApproved /\ [Next]_vars
      => MultiNeverApproved'
  <2> SUFFICES ASSUME TypeOK, ClaimInv, VerdictInv, MultiNeverApproved,
                      [Next]_vars, NEW d \in DocId, doc'[d].payload.multi
               PROVE  doc'[d].status # "approved"
    BY DEF MultiNeverApproved
  <2>1. doc[d] \in Row /\ (doc[d].payload.multi => doc[d].status # "approved")
    BY DEF MultiNeverApproved, TypeOK
  <2>2. CASE UploadedRow(d) \/ RetriedRow(d)
    BY <2>1, <2>2, QueueEffects DEF UploadedRow, RetriedRow
  <2>3. CASE CorrectedRow(d)
    BY <2>1, <2>3, CorrectionEffects DEF CorrectedRow, MayCorrect
  <2>4. CASE DeletedRow(d)
    BY <2>4, DeleteEffects DEF DeletedRow
  <2>5. CASE InterruptedRow(d) \/ FailedRow(d)
    BY <2>1, <2>5, FailureEffects DEF InterruptedRow, FailedRow
  <2>9. CASE ScriptedRow(d) \/ ClaimedRow(d)
    BY <2>1, <2>9, ScriptEffects, ClaimEffects DEF ScriptedRow, ClaimedRow
  <2>10. CASE LateRow(d)
    BY <2>1, <2>10, LateEffects DEF LateRow, SameData
  <2>6. CASE StoredRow(d)
    <3> PICK w \in Worker : worker[w].pc = "commit"
                             /\ doc'[d] = Stored(doc[d], worker[w])
      BY <2>6 DEF StoredRow
    <3>1. /\ doc'[d].payload = worker[w].result
          /\ doc'[d].status = worker[w].verdict
      BY <2>1 DEF Stored, Row
    <3>2. worker[w].result.multi => worker[w].verdict # "approved"
      BY DEF VerdictInv
    <3> QED
      BY <3>1, <3>2
  <2>7. CASE ReverifiedRow(d)
    <3> PICK r \in Reverifier : reverify[r].pc = "save"
                                 /\ doc'[d] = Reverified(doc[d], reverify[r])
      BY <2>7 DEF ReverifiedRow
    <3> QED
      BY <2>1, ReverifyEffects DEF VerdictInv
  <2>8. CASE doc'[d] = doc[d]
    BY <2>1, <2>8
  <2> QED
    BY RowSteps, <2>2, <2>3, <2>4, <2>5, <2>6, <2>7, <2>8, <2>9, <2>10
       DEF RowStep
<1> QED
  BY <1>1, <1>2, TypeCorrect, ClaimsInvariant, VerdictsInvariant, PTL DEF Spec

\* No record is judged before an extraction of it was stored, however the
\* failures, retries and stale re-verifications of it interleave.
THEOREM VerdictsAreEarned == Spec => []VerdictNeedsExtraction
<1>1. Init => VerdictNeedsExtraction
  <2>1. NewRow.status = "absent"
    BY DEF NewRow
  <2> QED
    BY <2>1, InitialRows DEF VerdictNeedsExtraction
<1>2. TypeOK /\ ClaimInv /\ VerdictInv /\ VerdictNeedsExtraction /\ [Next]_vars
      => VerdictNeedsExtraction'
  <2> DEFINE Judged(row) == \/ row.status \in {"review", "approved"}
                            \/ row.status = "failed" /\ row.error = ""
  <2> SUFFICES ASSUME TypeOK, ClaimInv, VerdictInv, VerdictNeedsExtraction,
                      [Next]_vars, NEW d \in DocId, Judged(doc'[d])
               PROVE  doc'[d].payload.by # "none"
    BY DEF VerdictNeedsExtraction
  <2>1. doc[d] \in Row /\ (Judged(doc[d]) => doc[d].payload.by # "none")
    BY DEF VerdictNeedsExtraction, TypeOK
  <2>2. CASE UploadedRow(d) \/ RetriedRow(d)
    BY <2>1, <2>2, QueueEffects DEF UploadedRow, RetriedRow
  <2>3. CASE CorrectedRow(d)
    BY <2>1, <2>3, CorrectionEffects DEF CorrectedRow
  <2>4. CASE DeletedRow(d)
    BY <2>4, DeleteEffects DEF DeletedRow
  <2>5. CASE InterruptedRow(d) \/ FailedRow(d)
    BY <2>1, <2>5, FailureEffects DEF InterruptedRow, FailedRow
  <2>6. CASE ScriptedRow(d)
    BY <2>1, <2>6, ScriptEffects DEF ScriptedRow
  <2>7. CASE ClaimedRow(d)
    BY <2>1, <2>7, ClaimEffects DEF ClaimedRow
  <2>8. CASE LateRow(d)
    BY <2>1, <2>8, LateEffects DEF LateRow, SameData
  <2>9. CASE StoredRow(d)
    <3> PICK w \in Worker : /\ worker[w].pc = "commit"
                            /\ doc'[d] = Stored(doc[d], worker[w])
      BY <2>9 DEF StoredRow
    <3>1. doc'[d].payload = worker[w].result
      BY <2>1 DEF Stored, Row
    <3>2. worker[w].result.by = "ocr"
      BY DEF VerdictInv
    <3> QED
      BY <3>1, <3>2
  <2>10. CASE ReverifiedRow(d)
    <3> PICK r \in Reverifier : /\ reverify[r].pc = "save"
                                /\ doc'[d] = Reverified(doc[d], reverify[r])
      BY <2>10 DEF ReverifiedRow
    <3>1. doc'[d].payload = reverify[r].payload
      BY <2>1 DEF Reverified, Row
    <3> QED
      BY <3>1 DEF VerdictInv
  <2>11. CASE doc'[d] = doc[d]
    BY <2>1, <2>11
  <2> QED
    BY RowSteps, <2>2, <2>3, <2>4, <2>5, <2>6, <2>7, <2>8, <2>9, <2>10, <2>11
       DEF RowStep
<1> QED
  BY <1>1, <1>2, TypeCorrect, ClaimsInvariant, VerdictsInvariant, PTL DEF Spec

(*************** While nothing is re-verified or requeued ******************)

\* A row agrees with itself: what the four invariants say of one record.
Consistent(row) ==
    /\ row.lease # NoLease <=> row.status = "processing"
    /\ row.index = row.payload.num
    /\ row.payload.by = "human" => row.status = "approved"
    /\ row.error # "" => row.status = "failed"

LEMMA RowsStayConsistent ==
    ASSUME TypeOK, ClaimInv, VerdictInv, [Next]_vars,
           Reverifier = {}, Script = {}, NEW d \in DocId, Consistent(doc[d])
    PROVE  Consistent(doc'[d])
<1> USE DEF Consistent
<1>1. doc[d] \in Row
  BY DEF TypeOK
<1>2. CASE UploadedRow(d) \/ RetriedRow(d)
  BY <1>1, <1>2, QueueEffects DEF UploadedRow, RetriedRow, MayRetry, SameData,
                                  Requeued, Row
<1>3. CASE CorrectedRow(d)
  <2>1. PICK n \in Number : doc'[d] = Corrected(doc[d], n)
    BY <1>3 DEF CorrectedRow
  <2>2. doc[d].status \in {"review", "approved"}
    BY <1>3 DEF CorrectedRow, MayCorrect
  <2> DEFINE new == Corrected(doc[d], n)
  <2>3. /\ new.payload.num = n /\ new.index = n /\ new.status = "approved"
        /\ new.lease = doc[d].lease /\ new.error = doc[d].error
    BY <1>1, CorrectionEffects
  <2> QED
    BY <2>1, <2>2, <2>3
<1>4. CASE DeletedRow(d)
  <2>1. /\ doc'[d].payload = NoPayload /\ doc'[d].index = NoNumber
        /\ doc'[d].status = "deleted"
        /\ doc'[d].lease = NoLease /\ doc'[d].error = ""
    BY <1>4, DeleteEffects DEF DeletedRow
  <2>2. NoPayload.num = NoNumber /\ NoPayload.by = "none"
    BY DEF NoPayload
  <2> QED
    BY <2>1, <2>2
<1>5. CASE InterruptedRow(d)
  BY <1>1, <1>5, FailureEffects DEF InterruptedRow, SameData
<1>6. CASE FailedRow(d)
  BY <1>1, <1>6, FailureEffects DEF FailedRow, SameData
<1>7. CASE ClaimedRow(d)
  BY <1>1, <1>7, ClaimEffects DEF ClaimedRow, SameData
<1>8. CASE LateRow(d)
  BY <1>1, <1>8, LateEffects DEF LateRow, SameData
<1>9. CASE StoredRow(d)
  <2> PICK w \in Worker : /\ worker[w].pc = "commit"
                          /\ doc'[d] = Stored(doc[d], worker[w])
    BY <1>9 DEF StoredRow
  <2>1. /\ doc'[d].payload = worker[w].result
        /\ doc'[d].index = worker[w].result.num
        /\ doc'[d].status = worker[w].verdict
        /\ doc'[d].lease = NoLease /\ doc'[d].error = ""
    BY <1>1 DEF Stored, Row
  <2>2. worker[w].result.by = "ocr" /\ worker[w].verdict # "processing"
    BY DEF VerdictInv, TypeOK, Job, Verdict
  <2> QED
    BY <2>1, <2>2
<1>10. CASE doc'[d] = doc[d]
  BY <1>10
<1> QED
  BY RowSteps, <1>2, <1>3, <1>4, <1>5, <1>6, <1>7, <1>8, <1>9, <1>10
     DEF RowStep, ReverifiedRow, ScriptedRow

\* With uploads, corrections, retries, deletions, expiries, crashes and any
\* number of workers, but no re-verification and no requeue script, a record
\* carries a lease just while it is processed, is found under the number it
\* stores, keeps its approval by the owner and no stale error code.
THEOREM RecordsAgree ==
    ASSUME Reverifier = {}, Script = {}
    PROVE  Spec => []RowAgrees
<1> DEFINE AllConsistent == \A d \in DocId : Consistent(doc[d])
<1>1. Init => AllConsistent
  <2>1. Consistent(NewRow)
    BY DEF Consistent, NewRow, NoPayload
  <2> QED
    BY <2>1, InitialRows
<1>2. TypeOK /\ ClaimInv /\ VerdictInv /\ AllConsistent /\ [Next]_vars
      => AllConsistent'
  BY RowsStayConsistent
<1>3. AllConsistent => RowAgrees
  BY DEF Consistent, RowAgrees, LeaseIffProcessing, IndexMatchesPayload,
         HumanApprovalStands, ErrorOnlyOnFailed
<1> HIDE DEF AllConsistent
<1> QED
  BY <1>1, <1>2, <1>3, TypeCorrect, ClaimsInvariant, VerdictsInvariant, PTL
     DEF Spec

(************************* The history of corrections **********************)

HistoryInv ==
    \A d \in DocId :
        /\ IsFiniteSet(history[d])
        /\ {h.version : h \in history[d]} = 0..(doc[d].revision - 1)
        /\ Cardinality(history[d]) = doc[d].revision

\* Only a correction and a deletion touch the revision number or the history.
LEMMA RevisionsStay ==
    ASSUME TypeOK, [Next]_vars, NEW d \in DocId,
           \A t \in Tab, n \in Number : ~Review(t, n),
           \A ds \in (SUBSET DocId) \ {{}} : ~BulkDelete(ds)
    PROVE  history' = history /\ doc'[d].revision = doc[d].revision
<1>0. doc[d] \in Row
  BY DEF TypeOK
<1>1. ASSUME NEW e \in DocId, Upload(e) \/ Retry(e) \/ LeaseExpires(e)
      PROVE  history' = history /\ doc'[d].revision = doc[d].revision
  <2>1. CASE Upload(e) \/ LeaseExpires(e)
    BY <1>0, <2>1 DEF Upload, LeaseExpires, TypeOK, Row
  <2>2. CASE Retry(e)
    BY <1>0, <2>2 DEF Retry, Requeued, TypeOK, Row
  <2> QED
    BY <1>1, <2>1, <2>2
<1>2. ASSUME NEW w \in Worker, WorkerStep(w) \/ Crash(w)
      PROVE  history' = history /\ doc'[d].revision = doc[d].revision
  <2>1. CASE Sweep(w)
    BY <1>0, <2>1, FailureEffects DEF Sweep, TypeOK, SameData
  <2>2. CASE Claim(w)
    BY <1>0, <2>2, ClaimEffects DEF Claim, TypeOK, SameData
  <2>3. CASE Commit(w)
    BY <1>0, <2>3 DEF Commit, Stored, TypeOK, Row
  <2>4. CASE RecordFailure(w)
    BY <1>0, <2>4, FailureEffects DEF RecordFailure, TypeOK, SameData
  <2>5. CASE FindNothing(w) \/ Discard(w) \/ RollBack(w) \/ Crash(w)
             \/ \E p \in Extraction : Extracted(w, p)
    BY <2>5 DEF FindNothing, Discard, RollBack, Crash, Extracted
  <2> QED
    BY <1>2, <2>1, <2>2, <2>3, <2>4, <2>5 DEF WorkerStep
<1>3. ASSUME NEW r \in Reverifier, ReverifyStep(r)
      PROVE  history' = history /\ doc'[d].revision = doc[d].revision
  <2>1. CASE SaveVerdict(r)
    BY <1>0, <2>1 DEF SaveVerdict, Reverified, TypeOK, Row
  <2>2. CASE ~SaveVerdict(r)
    BY <1>3, <2>2 DEF ReverifyStep, Activate, RunReverifyAll, ReadRecords,
                      VerifyNext, EndReverify
  <2> QED
    BY <2>1, <2>2
<1>4. ASSUME NEW s \in Script, ScriptStep(s)
      PROVE  history' = history /\ doc'[d].revision = doc[d].revision
  <2>1. ASSUME NEW e \in DocId, ScriptRequeue(s, e)
        PROVE  history' = history /\ doc'[d].revision = doc[d].revision
    BY <1>0, <2>1, ScriptEffects DEF ScriptRequeue, TypeOK, SameData
  <2>2. CASE ScriptRead(s) \/ ScriptEnds(s)
    BY <2>2 DEF ScriptRead, ScriptEnds
  <2> QED
    BY <1>4, <2>1, <2>2 DEF ScriptStep
<1>5. CASE ExpireMaster \/ UNCHANGED vars
           \/ \E t \in Tab, e \in DocId : OpenRecord(t, e)
  BY <1>5 DEF ExpireMaster, vars, OpenRecord
<1> QED
  BY <1>1, <1>2, <1>3, <1>4, <1>5 DEF Next, BrowserStep

\* Every correction leaves the fields it replaced under the number they had,
\* once, although workers and re-verifications rewrite the record meanwhile.
THEOREM HistoryIsComplete == Spec => []HistoryComplete
<1>1. Init => HistoryInv
  <2>1. NewRow.revision = 0
    BY DEF NewRow
  <2> QED
    BY <2>1, InitialRows, FS_EmptySet DEF Init, HistoryInv
<1>2. TypeOK /\ HistoryInv /\ [Next]_vars => HistoryInv'
  <2> SUFFICES ASSUME TypeOK, HistoryInv, [Next]_vars, NEW e \in DocId
               PROVE  /\ IsFiniteSet(history'[e])
                      /\ {h.version : h \in history'[e]}
                             = 0..(doc'[e].revision - 1)
                      /\ Cardinality(history'[e]) = doc'[e].revision
    BY DEF HistoryInv
  <2>0. doc[e] \in Row /\ doc[e].revision \in Nat
    BY DEF TypeOK, Row
  <2>1. ASSUME NEW t \in Tab, NEW n \in Number, Review(t, n), tab[t].doc = e
        PROVE  /\ IsFiniteSet(history'[e])
               /\ {h.version : h \in history'[e]} = 0..(doc'[e].revision - 1)
               /\ Cardinality(history'[e]) = doc'[e].revision
    <3> DEFINE x == Archived(doc[e])
    <3>1. history'[e] = history[e] \cup {x}
      BY <2>1 DEF Review, TypeOK
    <3>2. doc'[e].revision = doc[e].revision + 1
      <4>1. doc'[e] = Corrected(doc[e], n)
        BY <2>1 DEF Review, TypeOK
      <4> QED
        BY <4>1, <2>0, CorrectionEffects
    <3>3. x.version = doc[e].revision
      BY DEF Archived
    <3>4. x \notin history[e]
      <4>1. doc[e].revision \notin 0..(doc[e].revision - 1)
        BY <2>0
      <4> QED
        BY <3>3, <4>1 DEF HistoryInv
    <3>5. {h.version : h \in history'[e]}
              = {h.version : h \in history[e]} \cup {doc[e].revision}
      BY <3>1, <3>3
    <3>6. 0..(doc'[e].revision - 1)
              = (0..(doc[e].revision - 1)) \cup {doc[e].revision}
      BY <2>0, <3>2
    <3>7. /\ IsFiniteSet(history[e] \cup {x})
          /\ Cardinality(history[e] \cup {x}) = Cardinality(history[e]) + 1
      BY <3>4, FS_AddElement DEF HistoryInv
    <3> QED
      BY <3>1, <3>2, <3>5, <3>6, <3>7 DEF HistoryInv
  <2>2. ASSUME NEW t \in Tab, NEW n \in Number, Review(t, n), tab[t].doc # e
        PROVE  history'[e] = history[e] /\ doc'[e] = doc[e]
    BY <2>2 DEF Review, TypeOK
  <2>3. ASSUME NEW ds \in (SUBSET DocId) \ {{}}, BulkDelete(ds), e \in ds
        PROVE  /\ history'[e] = {} /\ doc'[e].revision = 0
    <3>1. history'[e] = {} /\ doc'[e] = [NewRow EXCEPT !.status = "deleted"]
      BY <2>3 DEF BulkDelete
    <3> QED
      BY <3>1, DeleteEffects
  <2>4. ASSUME NEW ds \in (SUBSET DocId) \ {{}}, BulkDelete(ds), e \notin ds
        PROVE  history'[e] = history[e] /\ doc'[e] = doc[e]
    BY <2>4 DEF BulkDelete
  <2>5. CASE history'[e] = {} /\ doc'[e].revision = 0
    BY <2>5, FS_EmptySet
  <2>6. CASE history'[e] = history[e] /\ doc'[e].revision = doc[e].revision
    BY <2>6 DEF HistoryInv
  <2> QED
    BY <2>1, <2>2, <2>3, <2>4, <2>5, <2>6, RevisionsStay
<1>3. HistoryInv => HistoryComplete
  BY DEF HistoryInv, HistoryComplete
<1> QED
  BY <1>1, <1>2, <1>3, TypeCorrect, PTL DEF Spec

(******************** Corrections saved from tabs ***************************)

\* The record a tab shows was uploaded and, unless it was deleted since, has
\* not gone back before the revision shown; if it is still at that revision
\* and holds fields the owner entered, the tab shows them.
ShownAsOf(view, row) ==
    /\ row.status # "absent"
    /\ row.status # "deleted" =>
          /\ view.revision <= row.revision
          /\ view.revision = row.revision /\ row.payload.by = "human"
             => view.payload = row.payload
TabInv == \A t \in Tab, d \in DocId : tab[t].doc = d => ShownAsOf(tab[t], doc[d])

\* A row that is rewritten otherwise than by a re-verification stays as shown.
LEMMA ShownStays ==
    ASSUME TypeOK, ClaimInv, VerdictInv, Reverifier = {}, [Next]_vars, NEW d \in DocId,
           NEW view \in View, ShownAsOf(view, doc[d])
    PROVE  ShownAsOf(view, doc'[d])
<1>0. doc[d] \in Row /\ view.revision \in Nat /\ doc[d].revision \in Nat
  BY DEF TypeOK, Row, View
<1>1. CASE SameData(doc[d], doc'[d]) /\ doc[d].status # "deleted"
                                     /\ doc'[d].status # "absent"
  BY <1>1 DEF SameData, ShownAsOf
<1>2. CASE CorrectedRow(d)
  <2>1. PICK n \in Number : MayCorrect(doc[d]) /\ doc'[d] = Corrected(doc[d], n)
    BY <1>2 DEF CorrectedRow
  <2>2. doc'[d].revision = doc[d].revision + 1 /\ doc'[d].status = "approved"
    BY <1>0, <2>1, CorrectionEffects
  <2>3. view.revision <= doc[d].revision
    BY <2>1 DEF MayCorrect, ShownAsOf
  <2>4. view.revision <= doc'[d].revision /\ view.revision # doc'[d].revision
    BY <1>0, <2>2, <2>3
  <2> QED
    BY <2>2, <2>4 DEF ShownAsOf
<1>3. CASE DeletedRow(d)
  BY <1>3, DeleteEffects DEF DeletedRow, ShownAsOf
<1>4. CASE StoredRow(d)
  <2>1. PICK w \in Worker : /\ worker[w].pc = "commit" /\ doc[d].status = "processing"
                            /\ doc'[d] = Stored(doc[d], worker[w])
    BY <1>4 DEF StoredRow
  <2>2. /\ doc'[d].payload = worker[w].result /\ doc'[d].revision = doc[d].revision
        /\ doc'[d].status = worker[w].verdict
    BY <1>0, <2>1 DEF Stored, Row
  <2>3. worker[w].result.by = "ocr" /\ worker[w].verdict \in Verdict
    BY <2>1 DEF VerdictInv, TypeOK, Job
  <2> QED
    BY <2>1, <2>2, <2>3 DEF ShownAsOf, Verdict
<1>5. CASE UploadedRow(d)
  BY <1>5 DEF UploadedRow, ShownAsOf
<1>6. CASE RetriedRow(d)
  BY <1>0, <1>1, <1>6, QueueEffects DEF RetriedRow, MayRetry
<1>7. CASE LateRow(d) \/ InterruptedRow(d) \/ FailedRow(d)
  BY <1>0, <1>1, <1>7, LateEffects, FailureEffects
     DEF LateRow, InterruptedRow, FailedRow, Exists
<1>8. CASE ClaimedRow(d)
  BY <1>0, <1>1, <1>8, ClaimEffects DEF ClaimedRow
<1>9. CASE ScriptedRow(d)
  BY <1>0, <1>1, <1>9, ScriptEffects DEF ScriptedRow, Exists
<1>10. CASE doc'[d] = doc[d]
  BY <1>10
<1> QED
  BY RowSteps, <1>2, <1>3, <1>4, <1>5, <1>6, <1>7, <1>8, <1>9, <1>10
     DEF RowStep, ReverifiedRow

\* A tab opens a record or, its correction saved, is closed.
LEMMA TabSteps ==
    ASSUME TypeOK, [Next]_vars, NEW t \in Tab
    PROVE  \/ tab'[t] = tab[t]
           \/ \E d \in DocId : OpenRecord(t, d)
           \/ \E n \in Number : Review(t, n)
<1>1. CASE BrowserStep
  BY <1>1 DEF BrowserStep, Upload, Retry, OpenRecord, Review, BulkDelete, TypeOK
<1>2. CASE ~BrowserStep
  <2>1. ASSUME NEW w \in Worker, WorkerStep(w) \/ Crash(w) PROVE tab' = tab
    BY <2>1 DEF WorkerStep, Sweep, Claim, FindNothing, Extracted, Discard, Commit, RollBack,
                RecordFailure, Crash
  <2>2. ASSUME NEW r \in Reverifier, ReverifyStep(r) PROVE tab' = tab
    BY <2>2 DEF ReverifyStep, Activate, RunReverifyAll, ReadRecords, VerifyNext, SaveVerdict,
                EndReverify
  <2>3. ASSUME NEW s \in Script, ScriptStep(s) PROVE tab' = tab
    BY <2>3 DEF ScriptStep, ScriptRead, ScriptEnds, ScriptRequeue
  <2> QED
    BY <1>2, <2>1, <2>2, <2>3 DEF Next, LeaseExpires, ExpireMaster, vars
<1> QED
  BY <1>1, <1>2

\* However corrections from any number of tabs interleave with each other and
\* with workers, retries and deletions, none is saved over a correction that
\* its tab did not show, as long as nothing is re-verified.
THEOREM CorrectionsAreSeen == ASSUME Reverifier = {} PROVE Spec => CorrectionsSeen
<1>1. Init => TabInv
  BY DEF Init, TabInv, NoView, DocId
<1>2. TypeOK /\ ClaimInv /\ VerdictInv /\ TabInv /\ [Next]_vars => TabInv'
  <2> SUFFICES ASSUME TypeOK, ClaimInv, VerdictInv, TabInv, [Next]_vars,
                      NEW t \in Tab, NEW d \in DocId, tab'[t].doc = d
               PROVE  ShownAsOf(tab'[t], doc'[d])
    BY DEF TabInv
  <2>1. CASE tab'[t] = tab[t]
    <3>1. tab[t] \in View /\ ShownAsOf(tab[t], doc[d])
      BY <2>1 DEF TabInv, TypeOK
    <3> QED
      BY <2>1, <3>1, ShownStays
  <2>2. ASSUME NEW e \in DocId, OpenRecord(t, e) PROVE ShownAsOf(tab'[t], doc'[d])
    <3>1. /\ doc' = doc /\ Exists(e) /\ doc[e] \in Row
          /\ tab'[t] = [doc |-> e, revision |-> doc[e].revision, payload |-> doc[e].payload]
      BY <2>2 DEF OpenRecord, TypeOK
    <3>2. doc[d] = doc'[d] /\ doc[d].revision \in Nat /\ d = e
      BY <3>1 DEF Row
    <3> QED
      BY <3>1, <3>2 DEF ShownAsOf, Exists
  <2>3. ASSUME NEW n \in Number, Review(t, n) PROVE FALSE
    BY <2>3 DEF Review, NoView, TypeOK, DocId
  <2> QED
    BY <2>1, <2>2, <2>3, TabSteps
<1>3. TypeOK /\ TabInv /\ [Next]_vars
      => [\A d \in DocId, t \in Tab :
              /\ tab[t].doc = d /\ tab'[t] = NoView /\ doc[d].payload.by = "human"
              => tab[t].payload = doc[d].payload]_vars
  <2> SUFFICES ASSUME TypeOK, TabInv, [Next]_vars, NEW d \in DocId, NEW t \in Tab,
                      tab[t].doc = d, tab'[t] = NoView, doc[d].payload.by = "human"
               PROVE  tab[t].payload = doc[d].payload
    OBVIOUS
  <2>1. NoView.doc = 0 /\ d # 0
    BY DEF NoView, DocId
  <2>2. ASSUME NEW e \in DocId, OpenRecord(t, e) PROVE FALSE
    BY <2>1, <2>2 DEF OpenRecord, TypeOK, DocId
  <2>3. PICK n \in Number : Review(t, n)
    BY <2>1, <2>2, TabSteps
  <2>4. doc[d].revision = tab[t].revision /\ MayCorrect(doc[d])
    BY <2>3 DEF Review
  <2> QED
    BY <2>4 DEF TabInv, ShownAsOf, MayCorrect
<1> QED
  BY <1>1, <1>2, <1>3, TypeCorrect, ClaimsInvariant, VerdictsInvariant, PTL
     DEF Spec, CorrectionsSeen

(********************* The records as a queue ********************************)

Answered(d) == doc[d].payload.by # "none"

\* What a step makes of a record, seen as an item of the queue.
Becomes(d, stage, turns, holders, answered) ==
    /\ StageOf(doc'[d].status) = stage
    /\ doc'[d].attempts = turns
    /\ Holders(d)' = holders
    /\ (doc'[d].payload.by # "none") = answered
SameItem(d) ==
    Becomes(d, StageOf(doc[d].status), doc[d].attempts, Holders(d), Answered(d))

LEMMA ItemsKept == (\A d \in DocId : SameItem(d)) => UNCHANGED Queue!queueVars
  BY DEF SameItem, Becomes, Answered, Queue!queueVars

LEMMA Submitted ==
    ASSUME NEW i \in DocId, StageOf(doc[i].status) = "absent",
           \A j \in 1..(i - 1) : StageOf(doc[j].status) # "absent",
           Becomes(i, "waiting", doc[i].attempts, Holders(i), Answered(i)),
           \A d \in DocId \ {i} : SameItem(d)
    PROVE  Queue!Submit(i)
<1>1. \A j \in 1..(i - 1) : j \in DocId
  BY BoundsAssumption DEF DocId
<1> QED
  BY <1>1 DEF SameItem, Becomes, Answered, Queue!Submit, Queue!Item

LEMMA Taken ==
    ASSUME NEW w \in Worker, NEW i \in DocId, StageOf(doc[i].status) = "waiting",
           \A j \in 1..(i - 1) : StageOf(doc[j].status) # "waiting",
           doc[i].attempts < RetryLimit, \A j \in DocId : w \notin Holders(j),
           Becomes(i, "taken", doc[i].attempts + 1, {w}, Answered(i)),
           \A d \in DocId \ {i} : SameItem(d)
    PROVE  Queue!Take(w, i)
<1>1. \A j \in 1..(i - 1) : j \in DocId
  BY BoundsAssumption DEF DocId
<1>2. Queue!Item = DocId
  BY DEF Queue!Item, DocId
<1> QED
  BY <1>1, <1>2 DEF SameItem, Becomes, Answered, Queue!Take

LEMMA AnsweredBy ==
    ASSUME NEW w \in Worker, NEW i \in DocId, w \in Holders(i),
           Becomes(i, "ended", doc[i].attempts, {}, TRUE),
           \A d \in DocId \ {i} : SameItem(d)
    PROVE  Queue!Answer(w, i)
  BY DEF SameItem, Becomes, Answered, Queue!Answer

LEMMA Lost ==
    ASSUME NEW w \in Worker, NEW i \in DocId, w \in Holders(i),
           Becomes(i, StageOf(doc[i].status), doc[i].attempts, {}, Answered(i)),
           \A d \in DocId \ {i} : SameItem(d)
    PROVE  Queue!Lose(w, i)
  BY DEF SameItem, Becomes, Answered, Queue!Lose

LEMMA Ended ==
    ASSUME NEW S \in SUBSET DocId,
           \A d \in S : /\ StageOf(doc[d].status) \in {"waiting", "taken"}
                        /\ Becomes(d, "ended", doc[d].attempts, {}, Answered(d)),
           \A d \in DocId \ S : SameItem(d)
    PROVE  Queue!End(S)
<1>1. Queue!Item = DocId
  BY DEF Queue!Item, DocId
<1> QED
  BY <1>1 DEF SameItem, Becomes, Answered, Queue!End

LEMMA Resubmitted ==
    ASSUME NEW i \in DocId, StageOf(doc[i].status) = "ended", doc[i].attempts < RetryLimit,
           Becomes(i, "waiting", doc[i].attempts, Holders(i), Answered(i)),
           \A d \in DocId \ {i} : SameItem(d)
    PROVE  Queue!Resubmit(i)
  BY DEF SameItem, Becomes, Answered, Queue!Resubmit

LEMMA Removed ==
    ASSUME NEW S \in SUBSET DocId,
           \A d \in S : /\ StageOf(doc[d].status) \in {"waiting", "ended"}
                        /\ Becomes(d, "removed", 0, Holders(d), FALSE),
           \A d \in DocId \ S : SameItem(d)
    PROVE  Queue!Remove(S)
<1>1. Queue!Item = DocId
  BY DEF Queue!Item, DocId
<1> QED
  BY <1>1 DEF SameItem, Becomes, Answered, Queue!Remove

QueueStep == Queue!QueueNext \/ UNCHANGED Queue!queueVars

\* A record that is not written, by no one who worked on it or will, stays.
LEMMA Untouched ==
    ASSUME NEW d \in DocId, doc'[d] = doc[d],
           \A v \in Worker :
               \/ worker'[v].doc = worker[v].doc /\ worker'[v].lease = worker[v].lease
               \/ worker'[v].doc # d /\ worker[v].doc # d
    PROVE  SameItem(d)
  BY DEF SameItem, Becomes, Answered, Holders, HoldsLease

LEMMA NoHolders ==
    ASSUME NEW d \in DocId
    PROVE  /\ doc[d].status # "processing" => Holders(d) = {}
           /\ doc'[d].status # "processing" => Holders(d)' = {}
  BY DEF Holders, HoldsLease

LEMMA StagesOf ==
    /\ StageOf("absent") = "absent" /\ StageOf("queued") = "waiting"
    /\ StageOf("processing") = "taken" /\ StageOf("deleted") = "removed"
    /\ \A v \in Verdict : StageOf(v) = "ended"
    /\ \A v \in Status : StageOf(v) = "ended" => v \in Verdict
    /\ \A v \in Status : StageOf(v) \in {"waiting", "taken"}
                         => v \in {"queued", "processing"}
  BY DEF StageOf, Verdict, Status

LEMMA BrowserQueues ==
    ASSUME TypeOK, VerdictNeedsExtraction, BrowserStep PROVE QueueStep
<1>0. worker' = worker /\ \A d \in DocId : doc'[d] = doc[d] => SameItem(d)
  <2>1. worker' = worker
    BY DEF BrowserStep, Upload, Retry, OpenRecord, Review, BulkDelete
  <2> QED
    BY <2>1, Untouched
<1>1. ASSUME NEW i \in DocId, Upload(i) PROVE Queue!Submit(i)
  <2>1. /\ doc[i] \in Row /\ doc'[i] = [doc[i] EXCEPT !.status = "queued"]
        /\ \A d \in DocId \ {i} : SameItem(d)
    BY <1>0, <1>1 DEF Upload, TypeOK
  <2>2. /\ doc'[i].status = "queued" /\ doc'[i].attempts = doc[i].attempts
        /\ doc'[i].payload = doc[i].payload
    BY <2>1 DEF Row
  <2>3. doc[i].status = "absent" /\ Holders(i) = {} /\ Holders(i)' = {}
    BY <1>1, <2>2, NoHolders DEF Upload
  <2>4. Becomes(i, "waiting", doc[i].attempts, Holders(i), Answered(i))
    BY <2>2, <2>3, StagesOf DEF Becomes, Answered
  <2>5. \A j \in 1..(i - 1) : doc[j] \in Row /\ doc[j].status # "absent"
    <3>1. \A j \in 1..(i - 1) : j \in DocId
      BY BoundsAssumption DEF DocId
    <3> QED
      BY <1>1, <3>1 DEF Upload, TypeOK
  <2>6. \A j \in 1..(i - 1) : StageOf(doc[j].status) # "absent"
    BY <2>5 DEF StageOf
  <2> QED
    BY <2>1, <2>3, <2>4, <2>6, StagesOf, Submitted
<1>2. ASSUME NEW i \in DocId, Retry(i) PROVE Queue!Resubmit(i)
  <2>1. /\ doc[i] \in Row /\ doc'[i] = Requeued(doc[i]) /\ MayRetry(doc[i])
        /\ \A d \in DocId \ {i} : SameItem(d)
    BY <1>0, <1>2 DEF Retry, TypeOK
  <2>2. /\ doc'[i].status = "queued" /\ doc'[i].attempts = doc[i].attempts
        /\ doc'[i].payload = doc[i].payload
    BY <2>1 DEF Row, Requeued
  <2>3. /\ doc[i].status = "failed" /\ doc[i].attempts < RetryLimit
        /\ Holders(i) = {} /\ Holders(i)' = {}
    BY <2>1, <2>2, NoHolders DEF MayRetry
  <2>4. Becomes(i, "waiting", doc[i].attempts, Holders(i), Answered(i))
    BY <2>2, <2>3, StagesOf DEF Becomes, Answered
  <2>5. StageOf(doc[i].status) = "ended"
    BY <2>3, StagesOf DEF Verdict
  <2> QED
    BY <2>1, <2>3, <2>4, <2>5, Resubmitted
<1>3. ASSUME NEW t \in Tab, NEW n \in Number, Review(t, n)
      PROVE  UNCHANGED Queue!queueVars
  <2>0. PICK i \in DocId : i = tab[t].doc
    BY <1>3 DEF Review
  <2>1. /\ doc[i] \in Row /\ doc'[i] = Corrected(doc[i], n)
        /\ MayCorrect(doc[i]) /\ \A d \in DocId \ {i} : SameItem(d)
    BY <1>0, <1>3, <2>0 DEF Review, TypeOK
  <2>2. /\ doc[i].status \in {"review", "approved"} /\ doc[i].payload.by # "none"
        /\ doc'[i].status = "approved" /\ doc'[i].payload.by = "human"
    <3>1. doc'[i].status = "approved" /\ doc'[i].payload.by = "human"
      BY <2>1, CorrectionEffects
    <3>2. doc[i].status \in {"review", "approved"}
      BY <2>1 DEF MayCorrect
    <3> QED
      BY <3>1, <3>2 DEF VerdictNeedsExtraction
  <2>3. doc'[i].attempts = doc[i].attempts
    BY <2>1 DEF Corrected, Row
  <2>4. SameItem(i)
    BY <2>1, <2>2, <2>3, StagesOf, NoHolders DEF SameItem, Becomes, Answered, Verdict
  <2> QED
    BY <2>1, <2>4, ItemsKept
<1>4. ASSUME NEW ds \in (SUBSET DocId) \ {{}}, BulkDelete(ds) PROVE Queue!Remove(ds)
  <2>1. ASSUME NEW d \in ds
        PROVE  /\ StageOf(doc[d].status) \in {"waiting", "ended"}
               /\ Becomes(d, "removed", 0, Holders(d), FALSE)
    <3>1. /\ d \in DocId /\ doc[d].status \in {"queued"} \cup Verdict
          /\ doc'[d] = [NewRow EXCEPT !.status = "deleted"]
      BY <1>4 DEF BulkDelete, Exists, TypeOK, Row, Status
    <3>2. doc'[d].status = "deleted" /\ doc'[d].attempts = 0 /\ doc'[d].payload.by = "none"
      <4>1. doc'[d].status = "deleted" /\ doc'[d].payload = NoPayload
        BY <3>1, DeleteEffects
      <4>2. doc'[d].attempts = 0
        BY <3>1 DEF NewRow
      <4> QED
        BY <4>1, <4>2 DEF NoPayload
    <3>3. doc[d].status # "processing"
      BY <3>1 DEF Verdict
    <3> QED
      BY <3>1, <3>2, <3>3, StagesOf, NoHolders DEF Becomes, Answered
  <2>2. \A d \in DocId \ ds : SameItem(d)
    BY <1>0, <1>4 DEF BulkDelete
  <2> QED
    BY <2>1, <2>2, Removed
<1>5. ASSUME NEW t \in Tab, NEW d \in DocId, OpenRecord(t, d)
      PROVE  UNCHANGED Queue!queueVars
  BY <1>0, <1>5, ItemsKept DEF OpenRecord
<1>6. Queue!Item = DocId
  BY DEF Queue!Item, DocId
<1> QED
  BY <1>1, <1>2, <1>3, <1>4, <1>5, <1>6 DEF BrowserStep, QueueStep, Queue!QueueNext

\* A step that writes no record and neither takes nor ends a turn.
LEMMA NothingWritten ==
    ASSUME doc' = doc,
           \A v \in Worker : worker'[v].doc = worker[v].doc /\ worker'[v].lease = worker[v].lease
    PROVE  UNCHANGED Queue!queueVars
<1>1. \A d \in DocId : SameItem(d)
  BY Untouched
<1> QED
  BY <1>1, ItemsKept

\* A worker that gives up leaves every record as it was, but for its turn.
LEMMA LetsGo ==
    ASSUME TypeOK, ClaimInv, NEW w \in Worker, worker' = [worker EXCEPT ![w] = NoJob],
           doc' = doc
    PROVE  UNCHANGED Queue!queueVars \/ \E i \in DocId : Queue!Lose(w, i)
<1>0. /\ worker'[w].doc = 0 /\ \A v \in Worker \ {w} : worker'[v] = worker[v]
      /\ 0 \notin DocId
  BY DEF TypeOK, NoJob, DocId
<1>1. ASSUME NEW i \in DocId, w \in Holders(i) PROVE Queue!Lose(w, i)
  <2>1. HoldsLease(w) /\ worker[w].doc = i
    BY <1>1 DEF Holders
  <2>2. \A v \in Worker \ {w} : worker[v].doc = i => worker[v].lease # worker[w].lease
    BY <1>0, <2>1 DEF ClaimInv, ClaimsDistinct
  <2>3. Holders(i)' = {}
    BY <1>0, <2>1, <2>2 DEF Holders, HoldsLease
  <2>4. \A d \in DocId \ {i} : SameItem(d)
    BY <1>0, <2>1, Untouched
  <2> QED
    BY <1>1, <2>3, <2>4, Lost DEF Becomes, Answered
<1>2. ASSUME NEW i \in DocId, w \notin Holders(i) PROVE SameItem(i)
  <2>1. Holders(i)' = Holders(i)
    BY <1>0, <1>2 DEF Holders, HoldsLease
  <2> QED
    BY <2>1 DEF SameItem, Becomes, Answered
<1> QED
  BY <1>1, <1>2, ItemsKept

LEMMA WorkerQueues ==
    ASSUME TypeOK, TypeOK', ClaimInv, VerdictInv, AttemptInv, NEW w \in Worker,
           WorkerStep(w) \/ Crash(w)
    PROVE  QueueStep
<1>0. /\ worker[w] \in Job /\ Queue!Item = DocId
      /\ \A v \in Worker \ {w} : worker'[v] = worker[v]
  BY DEF WorkerStep, Sweep, Claim, FindNothing, Extracted, Discard, Commit, RollBack,
         RecordFailure, Crash, TypeOK, Queue!Item, DocId
<1>1. CASE Sweep(w)
  <2>1. ASSUME NEW d \in Expired
        PROVE  /\ StageOf(doc[d].status) \in {"waiting", "taken"}
               /\ Becomes(d, "ended", doc[d].attempts, {}, Answered(d))
    <3>1. /\ d \in DocId /\ doc[d] \in Row /\ doc[d].status = "processing"
          /\ doc'[d] = Interrupted(doc[d])
      BY <1>1 DEF Sweep, Expired, TypeOK
    <3>2. doc'[d].status = "failed" /\ doc'[d].payload = doc[d].payload
      BY <3>1, FailureEffects DEF SameData
    <3>3. doc'[d].attempts = doc[d].attempts
      BY <3>1 DEF Interrupted, Row
    <3> QED
      BY <3>1, <3>2, <3>3, StagesOf, NoHolders DEF Becomes, Answered, Verdict
  <2>2. ASSUME NEW d \in DocId \ Expired PROVE SameItem(d)
    <3>1. doc'[d] = doc[d]
      BY <1>1 DEF Sweep
    <3>2. worker'[w].doc = worker[w].doc /\ worker'[w].lease = worker[w].lease
      BY <1>0, <1>1 DEF Sweep, Job, TypeOK
    <3> QED
      BY <1>0, <3>1, <3>2, Untouched
  <2>3. CASE Expired = {}
    BY <2>2, <2>3, ItemsKept DEF QueueStep
  <2>4. CASE Expired # {}
    <3>1. Expired \in SUBSET DocId
      BY DEF Expired
    <3> QED
      BY <1>0, <2>1, <2>2, <2>4, <3>1, Ended DEF QueueStep, Queue!QueueNext
  <2> QED
    BY <2>3, <2>4
<1>2. CASE Claim(w)
  <2>1. PICK i \in DocId :
            /\ Oldest(i) /\ doc' = [doc EXCEPT ![i] = Claimed(doc[i])]
            /\ worker' = [worker EXCEPT ![w] = [NoJob EXCEPT
                   !.pc = "ocr", !.doc = i, !.lease = Claimed(doc[i]).lease]]
    BY <1>2 DEF Claim
  <2>2. doc[i] \in Row /\ doc[i].status = "queued" /\ doc[i].attempts \in Nat
    BY <2>1 DEF Oldest, TypeOK, Row
  <2>3. /\ Claimed(doc[i]).attempts = doc[i].attempts + 1
        /\ Claimed(doc[i]).lease = doc[i].attempts + 1
        /\ Claimed(doc[i]).status = "processing" /\ Claimed(doc[i]).payload = doc[i].payload
    BY <2>2 DEF Claimed, Row
  <2>4. /\ doc'[i] = Claimed(doc[i]) /\ \A d \in DocId \ {i} : doc'[d] = doc[d]
        /\ worker'[w].doc = i /\ worker'[w].lease = doc[i].attempts + 1
    BY <2>1, <2>3 DEF TypeOK, NoJob
  <2>5. worker[w].doc = 0
    BY <1>2 DEF Claim, ClaimInv, Owned, Busy
  <2>6. Holders(i)' = {w}
    <3>1. ASSUME NEW v \in Worker \ {w}, worker[v].doc = i
          PROVE  worker[v].lease <= doc[i].attempts /\ worker[v].lease \in Nat
      <4>1. i # 0 /\ Owned(v)
        BY DEF DocId, ClaimInv
      <4> QED
        BY <2>2, <3>1, <4>1 DEF Owned, Busy, Exists, TypeOK, Job
    <3>2. ASSUME NEW v \in Worker \ {w}, worker[v].doc = i
          PROVE  worker[v].lease # doc[i].attempts + 1
      BY <2>2, <3>1, <3>2
    <3> QED
      BY <1>0, <2>3, <2>4, <3>2 DEF Holders, HoldsLease
  <2>7. Becomes(i, "taken", doc[i].attempts + 1, {w}, Answered(i))
    BY <2>3, <2>4, <2>6, StagesOf DEF Becomes, Answered
  <2>8. \A d \in DocId \ {i} : SameItem(d)
    <3>1. 0 \notin DocId
      BY DEF DocId
    <3> QED
      BY <1>0, <2>4, <2>5, <3>1, Untouched
  <2>9. \A j \in 1..(i - 1) : StageOf(doc[j].status) # "waiting"
    BY <2>1 DEF Oldest, StageOf
  <2>10. doc[i].attempts < RetryLimit /\ \A j \in DocId : w \notin Holders(j)
    BY <2>2, <2>5 DEF AttemptInv, Holders, DocId
  <2> QED
    BY <1>0, <2>2, <2>7, <2>8, <2>9, <2>10, StagesOf, Taken DEF QueueStep, Queue!QueueNext
<1>3. CASE FindNothing(w) \/ Discard(w) \/ Crash(w)
  <2>1. worker' = [worker EXCEPT ![w] = NoJob] /\ doc' = doc
    BY <1>3 DEF FindNothing, Discard, Crash
  <2> QED
    BY <1>0, <2>1, LetsGo DEF QueueStep, Queue!QueueNext
<1>4. ASSUME NEW p \in Extraction, Extracted(w, p) PROVE QueueStep
  <2>1. worker'[w].doc = worker[w].doc /\ worker'[w].lease = worker[w].lease /\ doc' = doc
    BY <1>0, <1>4 DEF Extracted, TypeOK, Job
  <2> QED
    BY <1>0, <2>1, NothingWritten DEF QueueStep
<1>5. CASE RollBack(w)
  <2>1. worker'[w].doc = worker[w].doc /\ worker'[w].lease = worker[w].lease /\ doc' = doc
    BY <1>0, <1>5 DEF RollBack, TypeOK, Job
  <2> QED
    BY <1>0, <2>1, NothingWritten DEF QueueStep
<1>6. CASE Commit(w)
  <2>1. PICK i \in DocId : i = worker[w].doc
    BY <1>6 DEF Commit, ClaimInv, Owned, Busy
  <2>2. /\ doc'[i] = Stored(doc[i], worker[w]) /\ doc[i] \in Row
        /\ \A d \in DocId \ {i} : doc'[d] = doc[d]
        /\ worker'[w].doc = 0 /\ worker[w].pc = "commit"
    BY <1>6, <2>1 DEF Commit, TypeOK, NoJob
  <2>3. HoldsLease(w) /\ worker[w].result.by = "ocr" /\ worker[w].verdict \in Verdict
    BY <2>2 DEF ClaimInv, Owned, VerdictInv, TypeOK, Job
  <2>4. doc'[i].payload = worker[w].result /\ doc'[i].status = worker[w].verdict
    <3>1. PICK new : new = doc'[i]
      OBVIOUS
    <3>2. new = Stored(doc[i], worker[w]) /\ doc[i] \in Row
      BY <2>2, <3>1
    <3>3. new.payload = worker[w].result /\ new.status = worker[w].verdict
      BY <3>2, StoreEffects
    <3> QED
      BY <3>1, <3>3
  <2>5. doc'[i].attempts = doc[i].attempts
    BY <2>2 DEF Stored, Row
  <2>6. Becomes(i, "ended", doc[i].attempts, {}, TRUE)
    BY <2>3, <2>4, <2>5, StagesOf, NoHolders DEF Becomes, Answered, Verdict
  <2>7. \A d \in DocId \ {i} : SameItem(d)
    <3>1. 0 \notin DocId
      BY DEF DocId
    <3> QED
      BY <1>0, <2>1, <2>2, <3>1, Untouched
  <2>8. w \in Holders(i)
    BY <2>1, <2>3 DEF Holders
  <2> QED
    BY <1>0, <2>6, <2>7, <2>8, AnsweredBy DEF QueueStep, Queue!QueueNext
<1>7. CASE RecordFailure(w)
  <2>1. CASE doc' = doc
    <3>1. worker' = [worker EXCEPT ![w] = NoJob]
      BY <1>7 DEF RecordFailure
    <3> QED
      BY <1>0, <2>1, <3>1, LetsGo DEF QueueStep, Queue!QueueNext
  <2>2. CASE doc' # doc
    <3>1. PICK i \in DocId : i = worker[w].doc
      BY <1>7 DEF RecordFailure, ClaimInv, Owned, Busy
    <3>2. /\ doc'[i] = Failed(doc[i]) /\ doc[i] \in Row /\ Exists(i)
          /\ \A d \in DocId \ {i} : doc'[d] = doc[d]
          /\ worker'[w].doc = 0
      BY <1>7, <2>2, <3>1 DEF RecordFailure, TypeOK, NoJob
    <3>3. doc'[i].status = "failed" /\ doc'[i].payload = doc[i].payload
      BY <3>2, FailureEffects DEF SameData
    <3>4. doc'[i].attempts = doc[i].attempts
      BY <3>2 DEF Failed, Row
    <3>5. \A d \in DocId \ {i} : SameItem(d)
      <4>1. 0 \notin DocId
        BY DEF DocId
      <4> QED
        BY <1>0, <3>1, <3>2, <4>1, Untouched
    <3>6. Becomes(i, "ended", doc[i].attempts, {}, Answered(i))
      BY <3>3, <3>4, StagesOf, NoHolders DEF Becomes, Answered, Verdict
    <3>7. CASE doc[i].status \in {"queued", "processing"}
      <4>1. \A d \in {i} : /\ StageOf(doc[d].status) \in {"waiting", "taken"}
                           /\ Becomes(d, "ended", doc[d].attempts, {}, Answered(d))
        BY <3>6, <3>7, StagesOf
      <4>2. {i} \in (SUBSET DocId) \ {{}}
        OBVIOUS
      <4> QED
        BY <1>0, <3>5, <4>1, <4>2, Ended DEF QueueStep, Queue!QueueNext
    <3>8. CASE doc[i].status \notin {"queued", "processing"}
      <4>1. doc[i].status \in Verdict
        BY <3>2, <3>8 DEF Exists, Row, Status
      <4>2. StageOf(doc[i].status) = "ended" /\ Holders(i) = {}
        BY <3>8, <4>1, StagesOf, NoHolders
      <4>3. SameItem(i)
        BY <3>6, <4>2 DEF SameItem
      <4> QED
        BY <3>5, <4>3, ItemsKept DEF QueueStep
    <3> QED
      BY <3>7, <3>8
  <2> QED
    BY <2>1, <2>2
<1> QED
  BY <1>1, <1>2, <1>3, <1>4, <1>5, <1>6, <1>7 DEF WorkerStep

\* What a re-verification read was answered, and still is unless deleted.
AnsweredOrGone(d) ==
    d \in DocId /\ (Answered(d) \/ doc[d].status = "deleted")
ReadInv ==
    \A r \in Reverifier :
        /\ \A item \in reverify[r].todo : AnsweredOrGone(item.doc)
        /\ reverify[r].pc = "save" => AnsweredOrGone(reverify[r].doc)

LEMMA AnswersStay ==
    ASSUME TypeOK, ClaimInv, VerdictInv, [Next]_vars, NEW d \in DocId, AnsweredOrGone(d)
    PROVE  AnsweredOrGone(d)'
<1>0. doc[d] \in Row
  BY DEF TypeOK
<1>1. CASE UploadedRow(d) \/ RetriedRow(d)
  BY <1>0, <1>1, QueueEffects
     DEF UploadedRow, RetriedRow, MayRetry, SameData, AnsweredOrGone, Answered
<1>2. CASE CorrectedRow(d)
  BY <1>0, <1>2, CorrectionEffects DEF CorrectedRow, AnsweredOrGone, Answered
<1>3. CASE DeletedRow(d)
  BY <1>3, DeleteEffects DEF DeletedRow, AnsweredOrGone, Answered
<1>4. CASE InterruptedRow(d) \/ FailedRow(d)
  BY <1>0, <1>4, FailureEffects
     DEF InterruptedRow, FailedRow, SameData, Exists, AnsweredOrGone, Answered
<1>5. CASE ScriptedRow(d)
  BY <1>0, <1>5, ScriptEffects DEF ScriptedRow, SameData, Exists, AnsweredOrGone, Answered
<1>6. CASE ClaimedRow(d)
  BY <1>0, <1>6, ClaimEffects DEF ClaimedRow, SameData, AnsweredOrGone, Answered
<1>7. CASE LateRow(d)
  BY <1>0, <1>7, LateEffects DEF LateRow, SameData, AnsweredOrGone, Answered
<1>8. CASE StoredRow(d)
  <2>1. PICK w \in Worker : worker[w].pc = "commit" /\ doc'[d] = Stored(doc[d], worker[w])
    BY <1>8 DEF StoredRow
  <2>2. doc'[d].payload = worker[w].result
    BY <1>0, <2>1, StoreEffects
  <2> QED
    BY <2>1, <2>2 DEF VerdictInv, AnsweredOrGone, Answered
<1>9. CASE ReverifiedRow(d)
  BY <1>0, <1>9, ReverifyEffects DEF ReverifiedRow, VerdictInv, AnsweredOrGone, Answered
<1>10. CASE doc'[d] = doc[d]
  BY <1>10 DEF AnsweredOrGone, Answered
<1> QED
  BY RowSteps, <1>1, <1>2, <1>3, <1>4, <1>5, <1>6, <1>7, <1>8, <1>9, <1>10 DEF RowStep

LEMMA ReadsKept ==
    ASSUME TypeOK, ClaimInv, VerdictInv, ReadInv, [Next]_vars PROVE ReadInv'
<1>0. \A d : AnsweredOrGone(d) => AnsweredOrGone(d)'
  BY AnswersStay DEF AnsweredOrGone, Answered
<1>1. CASE reverify' = reverify
  BY <1>0, <1>1 DEF ReadInv
<1>2. ASSUME NEW r \in Reverifier, ReverifyStep(r) PROVE ReadInv'
  <2>0. \A s \in Reverifier \ {r} : reverify'[s] = reverify[s]
    BY <1>2 DEF ReverifyStep, Activate, RunReverifyAll, ReadRecords, VerifyNext,
                SaveVerdict, EndReverify, TypeOK
  <2> SUFFICES /\ \A item \in reverify'[r].todo : AnsweredOrGone(item.doc)
               /\ reverify'[r].pc = "save" => AnsweredOrGone(reverify'[r].doc)
    BY <1>0, <2>0 DEF ReadInv
  <2>1. reverify[r] \in Loop
    BY DEF TypeOK
  <2>2. CASE ReadRecords(r)
    <3>1. /\ reverify'[r].pc = "loop"
          /\ \A item \in reverify'[r].todo :
                item.doc \in DocId /\ doc[item.doc].payload.by # "none"
      <4> DEFINE found == {[doc |-> d, payload |-> doc[d].payload] : d \in
                               {e \in DocId : /\ doc[e].status \in Verdict
                                              /\ doc[e].error = ""
                                              /\ doc[e].payload.by # "none"}}
      <4>1. reverify'[r] = [NoLoop EXCEPT !.pc = "loop", !.todo = found]
        BY <2>2 DEF ReadRecords, TypeOK
      <4>2. ASSUME NEW item \in found
            PROVE  item.doc \in DocId /\ doc[item.doc].payload.by # "none"
        <5>1. PICK d \in DocId : /\ item = [doc |-> d, payload |-> doc[d].payload]
                                 /\ doc[d].payload.by # "none"
          OBVIOUS
        <5> QED
          BY <5>1
      <4> HIDE DEF found
      <4> QED
        BY <4>1, <4>2 DEF NoLoop
    <3> QED
      BY <3>1 DEF AnsweredOrGone, Answered
  <2>3. ASSUME NEW item \in reverify[r].todo, VerifyNext(r, item)
        PROVE  /\ \A i \in reverify'[r].todo : AnsweredOrGone(i.doc)
               /\ reverify'[r].pc = "save" => AnsweredOrGone(reverify'[r].doc)
    <3>1. reverify'[r].todo \subseteq reverify[r].todo /\ reverify'[r].doc = item.doc
      BY <2>3 DEF VerifyNext, TypeOK
    <3> QED
      BY <2>3, <3>1 DEF ReadInv
  <2>4. CASE Activate(r, active') \/ RunReverifyAll(r) \/ SaveVerdict(r) \/ EndReverify(r)
    <3>1. reverify'[r].todo \subseteq reverify[r].todo /\ reverify'[r].pc # "save"
      <4>1. CASE Activate(r, active') \/ RunReverifyAll(r)
        BY <2>1, <4>1 DEF Activate, RunReverifyAll, TypeOK, Loop
      <4>2. CASE SaveVerdict(r)
        BY <4>2 DEF SaveVerdict, NoLoop, TypeOK
      <4>3. CASE EndReverify(r)
        BY <4>3 DEF EndReverify, NoLoop, TypeOK
      <4> QED
        BY <2>4, <4>1, <4>2, <4>3
    <3> QED
      BY <3>1 DEF ReadInv
  <2> QED
    BY <1>2, <2>2, <2>3, <2>4 DEF ReverifyStep, Activate
<1> QED
  BY <1>1, <1>2 DEF Next, BrowserStep, Upload, Retry, OpenRecord, Review, BulkDelete,
     WorkerStep, Sweep, Claim, FindNothing, Extracted, Discard, Commit, RollBack,
     RecordFailure, Crash, LeaseExpires, ScriptStep, ScriptRead, ScriptEnds, ScriptRequeue,
     ExpireMaster, vars

LEMMA ReverifyQueues ==
    ASSUME TypeOK, VerdictInv, ReadInv, NEW r \in Reverifier, ReverifyStep(r)
    PROVE  QueueStep
<1>1. CASE SaveVerdict(r)
  <2>1. PICK i \in DocId : i = reverify[r].doc
    BY <1>1 DEF SaveVerdict, ReadInv, AnsweredOrGone, Answered
  <2>2. /\ doc[i] \in Row /\ Exists(i) /\ doc'[i] = Reverified(doc[i], reverify[r])
        /\ \A d \in DocId \ {i} : doc'[d] = doc[d]
        /\ reverify[r].pc = "save" /\ worker' = worker
    BY <1>1, <2>1 DEF SaveVerdict, TypeOK
  <2>3. /\ reverify[r].verdict \in Verdict /\ reverify[r].payload.by # "none"
        /\ doc[i].payload.by # "none"
    BY <2>1, <2>2 DEF TypeOK, Loop, VerdictInv, ReadInv, AnsweredOrGone, Answered, Exists
  <2>4. doc'[i].status \in Verdict /\ doc'[i].payload.by # "none"
    BY <2>2, <2>3, ReverifyEffects
  <2>5. doc'[i].attempts = doc[i].attempts
    BY <2>2 DEF Reverified, Row
  <2>6. Becomes(i, "ended", doc[i].attempts, {}, Answered(i))
    BY <2>3, <2>4, <2>5, StagesOf, NoHolders DEF Becomes, Answered, Verdict
  <2>7. \A d \in DocId \ {i} : SameItem(d)
    BY <2>2, Untouched
  <2>8. CASE doc[i].status \in {"queued", "processing"}
    <3>1. \A d \in {i} : /\ StageOf(doc[d].status) \in {"waiting", "taken"}
                         /\ Becomes(d, "ended", doc[d].attempts, {}, Answered(d))
      BY <2>6, <2>8, StagesOf
    <3>2. {i} \in (SUBSET Queue!Item) \ {{}}
      BY DEF Queue!Item, DocId
    <3> QED
      BY <2>7, <3>1, <3>2, Ended DEF QueueStep, Queue!QueueNext
  <2>9. CASE doc[i].status \notin {"queued", "processing"}
    <3>1. doc[i].status \in Verdict
      BY <2>2, <2>9 DEF Exists, Row, Status
    <3>2. StageOf(doc[i].status) = "ended" /\ Holders(i) = {}
      BY <2>9, <3>1, StagesOf, NoHolders
    <3>3. SameItem(i)
      BY <2>6, <3>2 DEF SameItem
    <3> QED
      BY <2>7, <3>3, ItemsKept DEF QueueStep
  <2> QED
    BY <2>8, <2>9
<1>2. CASE ~SaveVerdict(r)
  <2>1. doc' = doc /\ worker' = worker
    BY <1>2 DEF ReverifyStep, Activate, RunReverifyAll, ReadRecords, VerifyNext, EndReverify
  <2> QED
    BY <2>1, NothingWritten DEF QueueStep
<1> QED
  BY <1>1, <1>2

\* The records implement the queue, for every number of records, workers,
\* re-verifications and tabs, as long as the requeue script is not run.
THEOREM QueueIsImplemented == ASSUME Script = {} PROVE Spec => QueueKept
<1>1. Init => Queue!QueueInit
  <2> SUFFICES ASSUME Init PROVE Queue!QueueInit
    OBVIOUS
  <2>1. \A d \in DocId : /\ doc[d].status = "absent" /\ doc[d].attempts = 0
                         /\ doc[d].payload.by = "none"
    <3>1. /\ NewRow.status = "absent" /\ NewRow.attempts = 0
          /\ NewRow.payload = NoPayload /\ NoPayload.by = "none"
      BY DEF NewRow, NoPayload
    <3> QED
      BY <3>1, InitialRows
  <2>2. \A d \in DocId : Holders(d) = {}
    BY <2>1, NoHolders
  <2> QED
    BY <2>1, <2>2, StagesOf DEF Queue!QueueInit, Queue!Item, DocId
<1>2. Init => ReadInv
  BY DEF Init, ReadInv, NoLoop
<1>3. TypeOK /\ ClaimInv /\ VerdictInv /\ ReadInv /\ [Next]_vars => ReadInv'
  BY ReadsKept
<1>4. TypeOK /\ TypeOK' /\ ClaimInv /\ VerdictInv /\ AttemptInv /\ VerdictNeedsExtraction
          /\ ReadInv /\ [Next]_vars
      => [Queue!QueueNext]_Queue!queueVars
  <2> SUFFICES ASSUME TypeOK, TypeOK', ClaimInv, VerdictInv, AttemptInv,
                      VerdictNeedsExtraction, ReadInv, [Next]_vars
               PROVE  QueueStep
    BY DEF QueueStep
  <2>1. CASE BrowserStep
    BY <2>1, BrowserQueues
  <2>2. ASSUME NEW w \in Worker, WorkerStep(w) \/ Crash(w) PROVE QueueStep
    BY <2>2, WorkerQueues
  <2>3. ASSUME NEW r \in Reverifier, ReverifyStep(r) PROVE QueueStep
    BY <2>3, ReverifyQueues
  <2>4. ASSUME NEW i \in DocId, LeaseExpires(i) PROVE QueueStep
    <3>1. /\ doc[i] \in Row /\ doc'[i] = [doc[i] EXCEPT !.late = TRUE]
          /\ \A d \in DocId \ {i} : doc'[d] = doc[d]
          /\ worker' = worker
      BY <2>4 DEF LeaseExpires, TypeOK
    <3>2. /\ doc'[i].status = doc[i].status /\ doc'[i].attempts = doc[i].attempts
          /\ doc'[i].payload = doc[i].payload /\ doc'[i].lease = doc[i].lease
      BY <3>1 DEF Row
    <3>3. SameItem(i)
      BY <3>1, <3>2 DEF SameItem, Becomes, Answered, Holders, HoldsLease
    <3> QED
      BY <3>1, <3>3, Untouched, ItemsKept DEF QueueStep
  <2>5. CASE ExpireMaster \/ UNCHANGED vars
    BY <2>5, NothingWritten DEF ExpireMaster, vars, QueueStep
  <2> QED
    BY <2>1, <2>2, <2>3, <2>4, <2>5 DEF Next
<1> QED
  BY <1>1, <1>2, <1>3, <1>4, TypeCorrect, ClaimsInvariant, VerdictsInvariant,
     AttemptsInvariant, VerdictsAreEarned, PTL DEF Spec, QueueKept, Queue!QueueSpec
=============================================================================
