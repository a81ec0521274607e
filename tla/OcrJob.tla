-------------------------------- MODULE OcrJob --------------------------------
(***************************************************************************)
(* One extraction from the sources to the verdict: the sandboxed child     *)
(* (Sandbox) reads the sources (Extraction), the worker receives what it   *)
(* resolved or an error, and decides (Verification).                       *)
(***************************************************************************)
EXTENDS Extraction, Sandbox

\* The extractions considered are those of the uploads.
ASSUME ReferenceAssumption == \A u \in Uploads : Reference(u) \in Evidence

jobvars == <<vars, evars, svars>>

JobInit ==
    /\ ExtractionInit /\ SandboxInit
    /\ evidence = Reference(upload) /\ sheet \in Sheet \cup {NoSheet}
    /\ record = NoRecord /\ verdict = "none"

\* A page is read when the Tesseract runs on it are over.
ChildReads == child = "working" /\ ~helper /\ ExtractionStep
              /\ UNCHANGED <<vars, svars>>
ChildStartsHelper == OnPage /\ StartHelper /\ UNCHANGED <<vars, evars>>

\* The child sends when the extraction is over, or an error before it begins.
ChildSends == (child = "booting" \/ outcome # "running") /\ BeginSend
              /\ UNCHANGED <<vars, evars>>
ChildLives == (SetSession \/ EndSend \/ Exit) /\ UNCHANGED <<vars, evars>>
ChildDies == Die /\ UNCHANGED <<vars, evars>>
HelperStops == HelperEnds /\ UNCHANGED <<vars, evars>>

WorkerWaits == WorkerStep /\ UNCHANGED <<vars, evars>>

\* What the child resolved becomes the record's.
WorkerReceives ==
    /\ Receive(outcome = "ok")
    /\ IF outcome = "ok"
       THEN record' = result /\ verdict' = "extracted"
       ELSE UNCHANGED <<record, verdict>>
    /\ UNCHANGED <<evars, evidence, sheet>>

\* The verdict is given once the sandbox is closed.
WorkerDecides ==
    parent = "done" /\ answer = "value" /\ Decide /\ UNCHANGED <<evars, svars>>

JobNext ==
    \/ ChildReads \/ ChildStartsHelper \/ ChildSends \/ ChildLives \/ ChildDies
    \/ HelperStops \/ WorkerWaits \/ WorkerReceives \/ WorkerDecides

\* The worker runs, its deadline passes, and a message begun is completed or
\* cut short: the worker empties the pipe.  The child may hang anywhere else.
JobFairness ==
    /\ WF_jobvars(WorkerWaits) /\ WF_jobvars(WorkerReceives)
    /\ WF_jobvars(WorkerDecides)
    /\ WF_jobvars(EndSend /\ UNCHANGED <<vars, evars>>)
JobSpec == JobInit /\ [][JobNext]_jobvars /\ JobFairness

(**************************** Properties ***********************************)

\* The state of the loop is that of the pages read so far: what is kept is
\* what the pages before this one hold, and never more pages than allowed.
JobTypeOK ==
    /\ TypeOK /\ SandboxTypeOK
    /\ source \in 1..Len(upload) + 1 /\ page \in Nat \ {0}
    /\ IsPrefix(pages, AllPages(upload)) /\ Len(pages) <= MaxPages
    /\ fields \in Fields /\ outcome \in {"running", "ok", "refused"}

\* Extraction in a child, page by page, with failures, does what Verification
\* says in one step: the record is resolved from all pages of all sources, in
\* their order, or not at all, and the verdict is given on nothing else.
ImplementsVerification == Spec

\* ocr.py 507: "Multiple MRZ identities found. Split into separate passport records
\* before approval."  reconcile counts only the numbers of lines whose check digits
\* hold (ocr_recovery.py 396-398), and its answer replaces that of ocr.py 529.
ZonesAreSplit ==
    Cardinality({z.fields["passport_number"] : z \in zones}) > 1 => verdict # "approved"

\* Whatever the child does, the run ends; then the child is gone, and so is
\* what it started, unless it had died by itself or before it had a process
\* group.  A result that was received gets its verdict.
RunEnds ==
    <>[](/\ parent = "done" /\ child = "dead" /\ (helper => orphaned)
         /\ verdict # "extracted")
=============================================================================
