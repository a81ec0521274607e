--------------------------- MODULE ComparisonProofs ---------------------------
(* Theorems about comparisons, for every number of records, of processes     *)
(* that write them and of comparisons at the same time.                      *)
EXTENDS Comparison, DocumentsProofs, FiniteSetTheorems

(***************************** Typing **************************************)

LEMMA FoundTyped ==
    ASSUME TypeOK, NEW n
    PROVE  {[doc |-> d, status |-> doc[d].status, payload |-> doc[d].payload] :
                d \in Candidates(n)} \subseteq Candidate
<1> SUFFICES ASSUME NEW d \in Candidates(n)
             PROVE  [doc |-> d, status |-> doc[d].status,
                     payload |-> doc[d].payload] \in Candidate
  OBVIOUS
<1>1. d \in DocId /\ doc[d].status \in Status /\ doc[d].payload \in Payload
  BY DEF Candidates, TypeOK, Row
<1> QED
  BY <1>1 DEF Candidate

\* Whatever a comparison found, it reports one of the four results.
LEMMA ReportTyped ==
    ASSUME NEW n, NEW found, NEW pending
    PROVE  RowReport(n, found, pending) \subseteq RowStatus
<1>1. \A x \in found : AgainstOne(n, x.payload) \subseteq RowStatus
  BY DEF AgainstOne, RowStatus
<1> QED
  BY <1>1 DEF RowReport, RowStatus

\* A writer that waits for the locks held takes a step of the records, or a
\* worker passes over the held ones.
LEMMA OthersAreNext ==
    ASSUME OtherStep
    PROVE  Next \/ \E w \in Worker : ClaimFree(w) \/ FindNoneFree(w)
<1>1. CASE BrowserWaits
  <2>1. BrowserStep
    BY <1>1 DEF BrowserWaits, BrowserStep
  <2> QED
    BY <2>1 DEF Next
<1>2. ASSUME NEW w \in Worker, WorkerWaits(w)
      PROVE  ClaimFree(w) \/ FindNoneFree(w) \/ WorkerStep(w) \/ Crash(w)
  BY <1>2 DEF WorkerWaits, WorkerStep
<1>3. ASSUME NEW r \in Reverifier, ReverifyWaits(r) PROVE ReverifyStep(r)
  BY <1>3 DEF ReverifyWaits, ReverifyStep
<1>4. ASSUME NEW s \in Script, ScriptWaits(s) PROVE ScriptStep(s)
  BY <1>4 DEF ScriptWaits, ScriptStep
<1> QED
  BY <1>1, <1>2, <1>3, <1>4 DEF OtherStep, Next

LEMMA OthersTyped == ASSUME TypeOK, OtherStep PROVE TypeOK'
<1>1. CASE Next
  BY <1>1, NextTyped
<1>2. ASSUME NEW w \in Worker, ClaimFree(w) PROVE TypeOK'
  <2>1. PICK d \in DocId \ Held :
            /\ doc' = [doc EXCEPT ![d] = Claimed(doc[d])]
            /\ worker' = [worker EXCEPT ![w] = [NoJob EXCEPT
                   !.pc = "ocr", !.doc = d, !.lease = Claimed(doc[d]).lease]]
    BY <1>2 DEF ClaimFree
  <2>2. doc[d] \in Row
    BY DEF TypeOK
  <2>3. Claimed(doc[d]) \in Row
    BY <2>2, RowsTyped
  <2>4. Claimed(doc[d]).lease \in Nat /\ d \in Nat
    BY <2>3 DEF Row, DocId
  <2>5. [NoJob EXCEPT !.pc = "ocr", !.doc = d, !.lease = Claimed(doc[d]).lease]
            \in Job
    <3> DEFINE l == Claimed(doc[d]).lease
    <3> HIDE DEF l
    <3>1. [NoJob EXCEPT !.pc = "ocr", !.doc = d, !.lease = l] \in Job
      BY <2>4, NullsTyped DEF Job, l
    <3> QED
      BY <3>1 DEF l
  <2> QED
    BY <1>2, <2>1, <2>3, <2>5 DEF ClaimFree, TypeOK
<1>3. ASSUME NEW w \in Worker, FindNoneFree(w) PROVE TypeOK'
  BY <1>3, NullsTyped DEF FindNoneFree, TypeOK
<1> QED
  BY <1>1, <1>2, <1>3, OthersAreNext

LEMMA ComparisonTyped ==
    ASSUME TypeOK, CompareTypeOK, NEW c \in Comparer, CompareStep(c)
    PROVE  CompareTypeOK'
<1>1. ASSUME NEW n \in Number, LockCandidates(c, n) PROVE CompareTypeOK'
  <2> DEFINE f == {[doc |-> d, status |-> doc[d].status,
                    payload |-> doc[d].payload] : d \in Candidates(n)}
  <2>1. f \subseteq Candidate
    BY FoundTyped
  <2>2. compare' = [compare EXCEPT ![c] =
            [NotComparing EXCEPT !.pc = "locked", !.want = n, !.found = f]]
    BY <1>1 DEF LockCandidates
  <2> HIDE DEF f
  <2>3. [NotComparing EXCEPT !.pc = "locked", !.want = n, !.found = f]
            \in Comparing
    BY <2>1 DEF NotComparing, Comparing, RowStatus
  <2> QED
    BY <2>2, <2>3 DEF CompareTypeOK
<1>2. CASE Report(c)
  <2>1. PICK r \in RowReport(compare[c].want, compare[c].found, Pending) :
            compare' = [compare EXCEPT ![c].pc = "done", ![c].report = r]
    BY <1>2 DEF Report
  <2>2. r \in RowStatus
    BY ReportTyped
  <2> QED
    BY <2>1, <2>2 DEF CompareTypeOK, Comparing
<1>3. CASE Again(c)
  BY <1>3 DEF Again, NotComparing, CompareTypeOK, Comparing, RowStatus
<1> QED
  BY <1>1, <1>2, <1>3 DEF CompareStep

LEMMA CompareStepsKeep ==
    ASSUME NEW c \in Comparer, CompareStep(c) PROVE UNCHANGED vars
  BY DEF CompareStep, LockCandidates, Report, Again

\* The records and the comparisons stay well typed together.
THEOREM CompareTypeCorrect == CompareSpec => [](TypeOK /\ CompareTypeOK)
<1>1. CompareInit => TypeOK /\ CompareTypeOK
  <2>1. Init => TypeOK
    BY NullsTyped DEF Init, TypeOK
  <2>2. NotComparing \in Comparing
    BY DEF NotComparing, Comparing, RowStatus
  <2> QED
    BY <2>1, <2>2 DEF CompareInit, CompareTypeOK
<1>2. TypeOK /\ CompareTypeOK /\ [CompareNext]_<<vars, compare>>
      => TypeOK' /\ CompareTypeOK'
  <2> SUFFICES ASSUME TypeOK, CompareTypeOK, [CompareNext]_<<vars, compare>>
               PROVE  TypeOK' /\ CompareTypeOK'
    OBVIOUS
  <2>1. ASSUME NEW c \in Comparer, CompareStep(c)
        PROVE  TypeOK' /\ CompareTypeOK'
    BY <2>1, ComparisonTyped, CompareStepsKeep, NextTyped
  <2>2. CASE OtherStep /\ UNCHANGED compare
    BY <2>2, OthersTyped DEF CompareTypeOK
  <2>3. CASE UNCHANGED <<vars, compare>>
    BY <2>3, NextTyped DEF CompareTypeOK
  <2> QED
    BY <2>1, <2>2, <2>3 DEF CompareNext
<1> QED
  BY <1>1, <1>2, PTL DEF CompareSpec

(*************************** Locked candidates *****************************)

\* What a comparison under way has read of its candidates is still so.
CandidatesStay ==
    \A c \in Comparer : compare[c].pc = "locked" =>
        \A x \in compare[c].found :
            /\ doc[x.doc].status = x.status /\ doc[x.doc].payload = x.payload
            /\ doc[x.doc].index = compare[c].want

\* A record is locked by a comparison or by a committing worker, not by both.
LocksExclude ==
    \A w \in Worker : worker[w].pc = "commit" => worker[w].doc \notin Held

HeldExist == \A d \in Held : Exists(d)

LocksInv == CandidatesStay /\ LocksExclude /\ HeldExist

\* A candidate of a comparison under way is one of the held records.
LEMMA FoundHeld ==
    ASSUME NEW c \in Comparer, compare[c].pc = "locked",
           NEW x \in compare[c].found
    PROVE  x.doc \in Held
  BY DEF Held

\* What a comparison reads of a row.
Same(d) ==
    /\ doc'[d].status = doc[d].status /\ doc'[d].payload = doc[d].payload
    /\ doc'[d].index = doc[d].index

LEMMA BrowserSpares ==
    ASSUME TypeOK, HeldExist, BrowserWaits, NEW d \in DocId, d \in Held
    PROVE  Same(d)
<1>1. ASSUME NEW e \in DocId, Upload(e) PROVE Same(d)
  <2>1. e # d
    BY <1>1 DEF Upload, HeldExist, Exists
  <2>2. doc'[d] = doc[d]
    BY <1>1, <2>1 DEF Upload, TypeOK
  <2> QED
    BY <2>2 DEF Same
<1>2. ASSUME NEW e \in DocId, Free(e), Retry(e) PROVE Same(d)
  BY <1>2 DEF Free, Retry, Same, TypeOK
<1>3. ASSUME NEW t \in Tab, NEW e \in DocId, OpenRecord(t, e) PROVE Same(d)
  BY <1>3 DEF OpenRecord, Same
<1>4. ASSUME NEW t \in Tab, NEW n \in Number, Free(tab[t].doc), Review(t, n)
      PROVE  Same(d)
  BY <1>4 DEF Free, Review, Same, TypeOK
<1>5. ASSUME NEW ds \in SUBSET (DocId \ Held), BulkDelete(ds) PROVE Same(d)
  BY <1>5 DEF BulkDelete, Same
<1> QED
  BY <1>1, <1>2, <1>3, <1>4, <1>5 DEF BrowserWaits

LEMMA WorkersSpare ==
    ASSUME TypeOK, LocksExclude, NEW w \in Worker, WorkerWaits(w),
           NEW d \in DocId, d \in Held
    PROVE  Same(d)
<1>1. CASE Expired \cap Held = {} /\ Sweep(w)
  BY <1>1 DEF Sweep, Same
<1>2. CASE ClaimFree(w)
  <2>1. PICK e \in DocId \ Held : doc' = [doc EXCEPT ![e] = Claimed(doc[e])]
    BY <1>2 DEF ClaimFree
  <2> QED
    BY <2>1 DEF TypeOK, Same
<1>3. CASE FindNoneFree(w)
  BY <1>3 DEF FindNoneFree, Same
<1>4. CASE Discard(w) \/ \E p \in Extraction : Extracted(w, p)
  BY <1>4 DEF Discard, Extracted, Same
<1>5. CASE /\ RecordFailure(w)
           /\ Exists(worker[w].doc) /\ doc[worker[w].doc].lease = worker[w].lease
              => Free(worker[w].doc)
  BY <1>5 DEF RecordFailure, Free, Same, TypeOK
<1>6. CASE Commit(w)
  <2>1. worker[w].doc # d
    BY <1>6 DEF Commit, LocksExclude
  <2> QED
    BY <1>6, <2>1 DEF Commit, Same, TypeOK
<1>7. CASE RollBack(w) \/ Crash(w)
  BY <1>7 DEF RollBack, Crash, Same
<1> QED
  BY <1>1, <1>2, <1>3, <1>4, <1>5, <1>6, <1>7 DEF WorkerWaits

LEMMA ReverifiersSpare ==
    ASSUME TypeOK, NEW r \in Reverifier, ReverifyWaits(r), NEW d \in DocId,
           d \in Held
    PROVE  Same(d)
<1>1. CASE Free(reverify[r].doc) /\ SaveVerdict(r)
  BY <1>1 DEF Free, SaveVerdict, Same, TypeOK
<1>2. ASSUME NEW m \in Master, Activate(r, m) PROVE Same(d)
  BY <1>2 DEF Activate, Same
<1>3. CASE RunReverifyAll(r) \/ ReadRecords(r) \/ EndReverify(r)
  BY <1>3 DEF RunReverifyAll, ReadRecords, EndReverify, Same
<1>4. ASSUME NEW item \in reverify[r].todo, VerifyNext(r, item) PROVE Same(d)
  BY <1>4 DEF VerifyNext, Same
<1> QED
  BY <1>1, <1>2, <1>3, <1>4 DEF ReverifyWaits

\* Whoever writes, what was read of a held record stays.
LEMMA HeldStay ==
    ASSUME TypeOK, LocksInv, OtherStep, NEW d \in DocId, d \in Held
    PROVE  Same(d)
<1>1. ASSUME NEW e \in DocId, LeaseExpires(e) PROVE Same(d)
  <2>1. doc' = [doc EXCEPT ![e].late = TRUE]
    BY <1>1 DEF LeaseExpires
  <2> QED
    BY <2>1 DEF Same, TypeOK, Row
<1>2. ASSUME NEW s \in Script, ScriptWaits(s) PROVE Same(d)
  <2>1. ASSUME NEW e \in DocId, Free(e), ScriptRequeue(s, e) PROVE Same(d)
    BY <2>1 DEF Free, ScriptRequeue, Same, TypeOK
  <2>2. CASE ScriptRead(s) \/ ScriptEnds(s)
    BY <2>2 DEF ScriptRead, ScriptEnds, Same
  <2> QED
    BY <1>2, <2>1, <2>2 DEF ScriptWaits
<1>3. CASE ExpireMaster
  BY <1>3 DEF ExpireMaster, Same
<1> QED
  BY <1>1, <1>2, <1>3, BrowserSpares, WorkersSpare, ReverifiersSpare
  DEF OtherStep, LocksInv

\* A worker enters its committing transaction only with a record it finds free.
LEMMA CommitsAreFree ==
    ASSUME TypeOK, LocksExclude, OtherStep, NEW w \in Worker,
           worker'[w].pc = "commit"
    PROVE  worker'[w].doc \notin Held
<1>1. CASE worker'[w] = worker[w]
  BY <1>1 DEF LocksExclude
<1>2. ASSUME NEW v \in Worker, WorkerWaits(v) PROVE worker'[w].doc \notin Held
  <2>1. CASE v # w
    <3>1. worker'[w] = worker[w]
      <4>1. \E job : worker' = [worker EXCEPT ![v] = job]
        <5>1. CASE Sweep(v)
          BY <5>1 DEF Sweep
        <5>2. CASE ClaimFree(v)
          BY <5>2 DEF ClaimFree
        <5>3. CASE FindNoneFree(v) \/ Discard(v)
          BY <5>3 DEF FindNoneFree, Discard
        <5>4. ASSUME NEW p \in Extraction, Extracted(v, p)
              PROVE  \E job : worker' = [worker EXCEPT ![v] = job]
          BY <5>4 DEF Extracted
        <5>5. CASE RecordFailure(v)
          BY <5>5 DEF RecordFailure
        <5>6. CASE Commit(v) \/ RollBack(v) \/ Crash(v)
          BY <5>6 DEF Commit, RollBack, Crash
        <5> QED
          BY <1>2, <5>1, <5>2, <5>3, <5>4, <5>5, <5>6 DEF WorkerWaits
      <4> QED
        BY <2>1, <4>1 DEF TypeOK
    <3> QED
      BY <1>1, <3>1
  <2>2. CASE v = w
    <3>1. ASSUME NEW p \in Extraction, Free(worker[w].doc), Extracted(w, p)
          PROVE  worker'[w].doc \notin Held
      <4>1. worker'[w].doc = worker[w].doc
        BY <3>1 DEF Extracted, TypeOK, Job
      <4> QED
        BY <3>1, <4>1 DEF Free
    <3>2. CASE Sweep(w)
      BY <3>2 DEF Sweep, TypeOK, Job
    <3>3. CASE ClaimFree(w)
      <4>1. PICK e \in DocId : worker' = [worker EXCEPT ![w] = [NoJob EXCEPT
                !.pc = "ocr", !.doc = e, !.lease = Claimed(doc[e]).lease]]
        BY <3>3 DEF ClaimFree
      <4>2. worker'[w].pc = "ocr"
        BY <4>1 DEF NoJob, TypeOK
      <4> QED
        BY <4>2
    <3>4. CASE FindNoneFree(w) \/ Discard(w) \/ RecordFailure(w) \/ Commit(w)
               \/ Crash(w)
      <4>1. worker'[w].pc = "sweep"
        BY <3>4 DEF FindNoneFree, Discard, RecordFailure, Commit, Crash, NoJob,
           TypeOK
      <4> QED
        BY <4>1
    <3>5. CASE RollBack(w)
      BY <3>5 DEF RollBack, TypeOK, Job
    <3> QED
      BY <1>2, <2>2, <3>1, <3>2, <3>3, <3>4, <3>5 DEF WorkerWaits
  <2> QED
    BY <2>1, <2>2
<1>3. CASE UNCHANGED worker
  BY <1>1, <1>3
<1>4. CASE BrowserWaits
  <2>1. UNCHANGED worker
    BY <1>4 DEF BrowserWaits, Upload, Retry, OpenRecord, Review, BulkDelete
  <2> QED
    BY <1>3, <2>1
<1>5. ASSUME NEW r \in Reverifier, ReverifyWaits(r) PROVE UNCHANGED worker
  BY <1>5 DEF ReverifyWaits, SaveVerdict, Activate, RunReverifyAll, ReadRecords,
     EndReverify, VerifyNext
<1>6. ASSUME NEW s \in Script, ScriptWaits(s) PROVE UNCHANGED worker
  BY <1>6 DEF ScriptWaits, ScriptRequeue, ScriptRead, ScriptEnds
<1>7. ASSUME NEW e \in DocId, LeaseExpires(e) PROVE UNCHANGED worker
  BY <1>7 DEF LeaseExpires
<1> QED
  BY <1>2, <1>3, <1>4, <1>5, <1>6, <1>7 DEF OtherStep, ExpireMaster

\* A comparison that reports, or is answered, holds nothing any more.
LEMMA LocksReleased ==
    ASSUME CompareTypeOK, NEW c \in Comparer, Report(c) \/ Again(c)
    PROVE  compare'[c].pc # "locked"
<1>1. CASE Report(c)
  <2>1. PICK r : compare' = [compare EXCEPT ![c].pc = "done", ![c].report = r]
    BY <1>1 DEF Report
  <2> QED
    BY <2>1 DEF CompareTypeOK, Comparing
<1>2. CASE Again(c)
  BY <1>2 DEF Again, NotComparing, CompareTypeOK
<1> QED
  BY <1>1, <1>2

\* What is held afterwards: what a comparison finds, and what others hold.
LEMMA HeldChanges ==
    ASSUME CompareTypeOK, NEW c \in Comparer, CompareStep(c),
           NEW d \in Held'
    PROVE  \/ d \in Held
           \/ \E n \in Number : LockCandidates(c, n) /\ d \in Candidates(n)
<1>1. PICK k \in Comparer : /\ compare'[k].pc = "locked"
                           /\ \E x \in compare'[k].found : x.doc = d
  BY DEF Held
<1>2. CASE compare'[k] = compare[k]
  BY <1>1, <1>2 DEF Held
<1>3. ASSUME NEW n \in Number, LockCandidates(c, n), compare'[k] # compare[k]
      PROVE  d \in Candidates(n)
  <2> DEFINE f == {[doc |-> e, status |-> doc[e].status,
                    payload |-> doc[e].payload] : e \in Candidates(n)}
  <2>1. compare' = [compare EXCEPT ![c] =
            [NotComparing EXCEPT !.pc = "locked", !.want = n, !.found = f]]
    BY <1>3 DEF LockCandidates
  <2>2. \A x \in f : x.doc \in Candidates(n)
    OBVIOUS
  <2> HIDE DEF f
  <2>3. k = c /\ compare'[c].found = f
    BY <1>3, <2>1 DEF NotComparing, CompareTypeOK
  <2> QED
    BY <1>1, <2>2, <2>3
<1>4. CASE Report(c) \/ Again(c)
  <2>1. k # c
    BY <1>1, <1>4, LocksReleased
  <2>2. compare'[k] = compare[k]
    BY <1>4, <2>1 DEF Report, Again, CompareTypeOK
  <2> QED
    BY <1>2, <2>2
<1> QED
  BY <1>2, <1>3, <1>4 DEF CompareStep

\* A comparison's own steps leave what all of them read as it is.
LEMMA ComparisonsSpare ==
    ASSUME TypeOK, CompareTypeOK, LocksInv, NEW c \in Comparer, CompareStep(c)
    PROVE  LocksInv'
<1>1. UNCHANGED vars
  BY CompareStepsKeep
<1>2. doc' = doc /\ worker' = worker
  BY <1>1 DEF vars
<1>3. CandidatesStay'
  <2>1. ASSUME NEW n \in Number, LockCandidates(c, n) PROVE CandidatesStay'
    <3> DEFINE f == {[doc |-> d, status |-> doc[d].status,
                      payload |-> doc[d].payload] : d \in Candidates(n)}
    <3>1. \A x \in f : /\ doc[x.doc].status = x.status
                       /\ doc[x.doc].payload = x.payload
                       /\ doc[x.doc].index = n
      BY DEF Candidates
    <3>2. compare' = [compare EXCEPT ![c] =
              [NotComparing EXCEPT !.pc = "locked", !.want = n, !.found = f]]
      BY <2>1 DEF LockCandidates
    <3> HIDE DEF f
    <3>3. /\ compare'[c].found = f /\ compare'[c].want = n
          /\ \A k \in Comparer \ {c} : compare'[k] = compare[k]
      BY <3>2 DEF NotComparing, CompareTypeOK
    <3> QED
      BY <1>2, <3>1, <3>3 DEF CandidatesStay, LocksInv
  <2>2. CASE Report(c) \/ Again(c)
    <3>1. compare'[c].pc # "locked"
      BY <2>2, LocksReleased
    <3>2. \A k \in Comparer \ {c} : compare'[k] = compare[k]
      BY <2>2 DEF Report, Again, CompareTypeOK
    <3> QED
      BY <1>2, <3>1, <3>2 DEF CandidatesStay, LocksInv
  <2> QED
    BY <2>1, <2>2 DEF CompareStep
<1>4. LocksExclude'
  <2> SUFFICES ASSUME NEW w \in Worker, worker[w].pc = "commit",
                      worker[w].doc \in Held'
               PROVE  FALSE
    BY <1>2 DEF LocksExclude
  <2>1. worker[w].doc \notin Held
    BY DEF LocksInv, LocksExclude
  <2>2. PICK n \in Number : /\ LockCandidates(c, n)
                           /\ worker[w].doc \in Candidates(n)
    BY <2>1, HeldChanges
  <2> QED
    BY <2>2 DEF LockCandidates, Locked
<1>5. HeldExist'
  BY <1>2, HeldChanges DEF LocksInv, HeldExist, Candidates, Exists
<1> QED
  BY <1>3, <1>4, <1>5 DEF LocksInv

LEMMA OthersSpare ==
    ASSUME TypeOK, CompareTypeOK, LocksInv, OtherStep, UNCHANGED compare
    PROVE  LocksInv'
<1>1. Held' = Held
  BY DEF Held
<1>2. Held \subseteq DocId
  BY DEF Held, CompareTypeOK, Comparing, Candidate
<1>3. \A d \in Held : Same(d)
  BY <1>2, HeldStay
<1>4. CandidatesStay'
  <2> SUFFICES ASSUME NEW c \in Comparer, compare[c].pc = "locked",
                      NEW x \in compare[c].found
               PROVE  /\ doc'[x.doc].status = x.status
                      /\ doc'[x.doc].payload = x.payload
                      /\ doc'[x.doc].index = compare[c].want
    BY DEF CandidatesStay
  <2>1. Same(x.doc)
    BY <1>3, FoundHeld
  <2> QED
    BY <2>1 DEF Same, LocksInv, CandidatesStay
<1>5. LocksExclude'
  BY <1>1, CommitsAreFree DEF LocksInv, LocksExclude
<1>6. HeldExist'
  BY <1>1, <1>3 DEF LocksInv, HeldExist, Exists, Same
<1> QED
  BY <1>4, <1>5, <1>6 DEF LocksInv

\* The row locks of comparisons and of committing workers exclude each other,
\* and so what was read under them is still so.
LEMMA LocksHold == CompareSpec => []LocksInv
<1>1. CompareInit => LocksInv
  <2>1. NotComparing.pc # "locked" /\ NoJob.pc # "commit"
    BY DEF NotComparing, NoJob
  <2>2. CompareInit => Held = {}
    BY <2>1 DEF CompareInit, Held
  <2> QED
    BY <2>1, <2>2 DEF CompareInit, Init, LocksInv, CandidatesStay, LocksExclude,
       HeldExist
<1>2. TypeOK /\ CompareTypeOK /\ LocksInv /\ [CompareNext]_<<vars, compare>>
      => LocksInv'
  <2> SUFFICES ASSUME TypeOK, CompareTypeOK, LocksInv,
                      [CompareNext]_<<vars, compare>>
               PROVE  LocksInv'
    OBVIOUS
  <2>1. CASE UNCHANGED <<vars, compare>>
    BY <2>1 DEF vars, LocksInv, CandidatesStay, LocksExclude, HeldExist, Held,
       Exists
  <2> QED
    BY <2>1, ComparisonsSpare, OthersSpare DEF CompareNext
<1> QED
  BY <1>1, <1>2, CompareTypeCorrect, PTL DEF CompareSpec

(**************************** The result ***********************************)

\* A comparison finds finitely many records.
FoundFinite == \A c \in Comparer : IsFiniteSet(compare[c].found)

LEMMA CandidatesFinite ==
    ASSUME NEW n
    PROVE  IsFiniteSet({[doc |-> d, status |-> doc[d].status,
                         payload |-> doc[d].payload] : d \in Candidates(n)})
<1>1. IsFiniteSet(DocId)
  BY BoundsAssumption, FS_Interval DEF DocId
<1>2. IsFiniteSet(Candidates(n))
  BY <1>1, FS_Subset DEF Candidates
<1> DEFINE C == Candidates(n)
           rec == [d \in C |-> [doc |-> d, status |-> doc[d].status,
                                payload |-> doc[d].payload]]
           T == {[doc |-> d, status |-> doc[d].status,
                  payload |-> doc[d].payload] : d \in C}
<1>3. rec \in [C -> T] /\ \A t \in T : \E d \in C : rec[d] = t
  OBVIOUS
<1>4. rec \in Surjection(C, T)
  BY <1>3 DEF Surjection
<1> QED
  BY <1>2, <1>4, FS_Surjection

\* The report names a match or a mismatch only of the one record found.
LEMMA ReportOfOne ==
    ASSUME NEW n, NEW found, IsFiniteSet(found), NEW pending,
           NEW r \in RowReport(n, found, pending), r \in {"Match", "Mismatch"}
    PROVE  \E x \in found : /\ found = {x} /\ x.status = "approved"
                            /\ r = "Match" => x.payload.num = n
<1>1. found # {} /\ ~(Cardinality(found) > 1)
  BY DEF RowReport
<1>2. Cardinality(found) \in Nat /\ Cardinality(found) # 0
  BY <1>1, FS_CardinalityType, FS_EmptySet
<1>3. Cardinality(found) = 1
  BY <1>1, <1>2
<1>4. PICK x : found = {x}
  BY <1>3, FS_Singleton
<1>5. r \in IF x.status = "approved" THEN AgainstOne(n, x.payload)
            ELSE {"Needs Review"}
  BY <1>1, <1>4 DEF RowReport
<1>6. x.status = "approved" /\ r \in AgainstOne(n, x.payload)
  BY <1>5
<1>7. r = "Match" => x.payload.num = n
  BY <1>6 DEF AgainstOne
<1> QED
  BY <1>4, <1>6, <1>7

LEMMA MatchesOfFinite == CompareSpec => [](MatchIsOfOneApproved /\ FoundFinite)
<1> DEFINE Inv == MatchIsOfOneApproved /\ FoundFinite
<1>1. CompareInit => Inv
  <2>1. IsFiniteSet({})
    BY FS_EmptySet
  <2>2. NotComparing.report = "Needs Review" /\ NotComparing.found = {}
    BY DEF NotComparing
  <2> QED
    BY <2>1, <2>2 DEF CompareInit, MatchIsOfOneApproved, FoundFinite
<1>2. CompareTypeOK /\ CompareTypeOK' /\ Inv /\ [CompareNext]_<<vars, compare>>
      => Inv'
  <2> SUFFICES ASSUME CompareTypeOK, Inv, [CompareNext]_<<vars, compare>>
               PROVE  Inv'
    OBVIOUS
  <2>1. ASSUME NEW c \in Comparer, NEW n \in Number, LockCandidates(c, n)
        PROVE  Inv'
    <3> DEFINE f == {[doc |-> d, status |-> doc[d].status,
                      payload |-> doc[d].payload] : d \in Candidates(n)}
    <3>1. IsFiniteSet(f)
      BY CandidatesFinite
    <3>2. compare' = [compare EXCEPT ![c] =
              [NotComparing EXCEPT !.pc = "locked", !.want = n, !.found = f]]
      BY <2>1 DEF LockCandidates
    <3> HIDE DEF f
    <3>3. /\ compare'[c].found = f /\ compare'[c].report = "Needs Review"
          /\ \A k \in Comparer \ {c} : compare'[k] = compare[k]
      BY <3>2 DEF NotComparing, CompareTypeOK
    <3> QED
      BY <3>1, <3>3 DEF MatchIsOfOneApproved, FoundFinite
  <2>2. ASSUME NEW c \in Comparer, Report(c) PROVE Inv'
    <3>1. PICK r \in RowReport(compare[c].want, compare[c].found, Pending) :
              compare' = [compare EXCEPT ![c].pc = "done", ![c].report = r]
      BY <2>2 DEF Report
    <3>2. /\ compare'[c].found = compare[c].found
          /\ compare'[c].want = compare[c].want /\ compare'[c].report = r
          /\ \A k \in Comparer \ {c} : compare'[k] = compare[k]
      BY <3>1 DEF CompareTypeOK, Comparing
    <3>3. FoundFinite'
      BY <3>2 DEF FoundFinite
    <3>4. r \in {"Match", "Mismatch"} =>
              \E x \in compare[c].found :
                  /\ compare[c].found = {x} /\ x.status = "approved"
                  /\ r = "Match" => x.payload.num = compare[c].want
      BY ReportOfOne DEF FoundFinite
    <3> QED
      BY <3>2, <3>3, <3>4 DEF MatchIsOfOneApproved
  <2>3. ASSUME NEW c \in Comparer, Again(c) PROVE Inv'
    <3>1. /\ compare'[c] = NotComparing
          /\ \A k \in Comparer \ {c} : compare'[k] = compare[k]
      BY <2>3 DEF Again, CompareTypeOK
    <3>2. IsFiniteSet({})
      BY FS_EmptySet
    <3>3. NotComparing.report = "Needs Review" /\ NotComparing.found = {}
      BY DEF NotComparing
    <3>4. FoundFinite'
      BY <3>1, <3>2, <3>3 DEF FoundFinite
    <3>5. MatchIsOfOneApproved'
      BY <3>1, <3>3 DEF MatchIsOfOneApproved
    <3> QED
      BY <3>4, <3>5
  <2>4. CASE UNCHANGED compare
    BY <2>4 DEF MatchIsOfOneApproved, FoundFinite
  <2> QED
    BY <2>1, <2>2, <2>3, <2>4 DEF CompareNext, CompareStep
<1> QED
  BY <1>1, <1>2, CompareTypeCorrect, PTL DEF CompareSpec

\* A row is a Match or a Mismatch only of one approved record, the only one
\* found under its number, and a Match only of one that stores that number.
THEOREM MatchesAreEarned == CompareSpec => []MatchIsOfOneApproved
BY MatchesOfFinite, PTL

\* A row is reported a Match of a record that is at that moment approved, found
\* under the number and stores it, whatever workers, the owner, re-verifications
\* and the script do between reading the record and reporting the row.
THEOREM MatchesAreTrue == CompareSpec => MatchIsTrue
<1>1. /\ TypeOK /\ CompareTypeOK /\ LocksInv
      /\ FoundFinite /\ [CompareNext]_<<vars, compare>>
      => [\A c \in Comparer :
             /\ compare[c].pc = "locked" /\ compare'[c].pc = "done"
             /\ compare'[c].report = "Match"
             => \E d \in Candidates(compare[c].want) :
                 doc[d].status = "approved" /\ doc[d].payload.num = compare[c].want
         ]_<<vars, compare>>
  <2> SUFFICES ASSUME CompareTypeOK, LocksInv, FoundFinite,
                      [CompareNext]_<<vars, compare>>,
                      NEW c \in Comparer, compare[c].pc = "locked",
                      compare'[c].pc = "done", compare'[c].report = "Match"
               PROVE  \E d \in Candidates(compare[c].want) :
                          /\ doc[d].status = "approved"
                          /\ doc[d].payload.num = compare[c].want
    OBVIOUS
  <2>1. compare'[c] # compare[c]
    OBVIOUS
  <2>2. PICK k \in Comparer : CompareStep(k)
    BY <2>1 DEF CompareNext
  <2>3. k = c
    <3>1. \E v : compare' = [compare EXCEPT ![k] = v]
      <4>1. ASSUME NEW n \in Number, LockCandidates(k, n)
            PROVE  \E v : compare' = [compare EXCEPT ![k] = v]
        BY <4>1 DEF LockCandidates
      <4>2. CASE Again(k)
        BY <4>2 DEF Again
      <4>3. CASE Report(k)
        <5>1. PICK r : compare' = [compare EXCEPT ![k].pc = "done",
                                                  ![k].report = r]
          BY <4>3 DEF Report
        <5> QED
          BY <5>1
      <4> QED
        BY <2>2, <4>1, <4>2, <4>3 DEF CompareStep
    <3> QED
      BY <2>1, <3>1 DEF CompareTypeOK
  <2>4. Report(c)
    BY <2>2, <2>3 DEF CompareStep, LockCandidates, Again
  <2>5. PICK r \in RowReport(compare[c].want, compare[c].found, Pending) :
            compare' = [compare EXCEPT ![c].pc = "done", ![c].report = r]
    BY <2>4 DEF Report
  <2>6. r = "Match"
    BY <2>5 DEF CompareTypeOK, Comparing
  <2>7. PICK x \in compare[c].found : /\ x.status = "approved"
                                     /\ x.payload.num = compare[c].want
    BY <2>5, <2>6, ReportOfOne DEF FoundFinite
  <2>8. /\ doc[x.doc].status = "approved"
        /\ doc[x.doc].payload.num = compare[c].want
        /\ doc[x.doc].index = compare[c].want
    BY <2>7 DEF LocksInv, CandidatesStay
  <2>9. x.doc \in DocId
    BY DEF CompareTypeOK, Comparing, Candidate
  <2> QED
    BY <2>8, <2>9 DEF Candidates, Exists
<1> QED
  BY <1>1, CompareTypeCorrect, LocksHold, MatchesOfFinite, PTL
  DEF CompareSpec, MatchIsTrue
=============================================================================
