# PassportVault: models and proofs

PassportVault is a single-owner web application: passports are uploaded, an OCR worker
extracts their fields, the fields are verified against a master workbook, the owner
reviews them, and spreadsheets are compared with the approved records. This directory
holds TLA+ models of the parts of it in which several processes write the same rows, of
the decisions that end in an approval, and proofs about them. Paths such as
`views.py:148` are relative to `src/vault/`, unless they name another directory.

    tlc -config DocumentsAll.cfg MCDocuments     # any run of PROJECT.json
    tlapm DocumentsProofs.tla                    # any *Proofs module

## 1. The system and its parts

Two gunicorn processes (`Dockerfile:40`, 180 s per request), one OCR worker
(`compose.yaml`, restarted unless stopped), an hourly maintenance command, and scripts
that an operator or the updater starts share one PostgreSQL database, in READ COMMITTED,
every statement its own transaction unless the code opens one.

| Part | State | Operations | Interacts through |
|---|---|---|---|
| Passport records (`views.py`, `models.py`) | `Document` rows (status, encrypted payload, index, revision, attempts, lease, error code), `Revision` rows | upload, detail, review, retry, delete, bulk delete | the rows, row locks |
| OCR worker (`management/commands/worker.py`) | its claim (record, lease), the result on its way | sweep expired leases, claim, extract in a child process, commit, record a failure | the rows; a lease per claim |
| Re-verification (`views.py:209-231`, `scripts/reverify_all.py`) | the records it read at the start | read all without a lock, verify, save each | the rows, without lock or condition |
| Requeue script (`scripts/retry_interrupted.py`) | the records it read | requeue each | the rows, without condition |
| Master workbooks (`views.py:195-231`, `auto_verify.py:7`, `maintenance.py:12`) | `Workbook` rows, one flagged active | upload, activate, expire after a day | the active flag |
| Automatic verification (`ocr_recovery.py`, `auto_verify.py`, `ocr_quality.py`) | none: evidence and master to fields, trust and verdict | reconcile, compare, gate | called by worker and re-verification |
| Comparison (`comparison.py`) | what it read of the candidates | lock candidates, look for unresolved records, report | row locks |
| Audit log (`audit.py`, `maintenance.py:16-22`) | `Audit` rows, the head digest | append under a lock on the head, verify hourly | called by every operation |
| Login (`views.py:51-80`, `models.py:4-12`) | `LoginGuard` (failures, lock), `OwnerSecurity` (last authenticator step, recovery codes) | login | a lock on the guard row |
| Database transactions (`views.py`, `worker.py`, `audit.py`) | row locks held and waited for | lock, write, log, commit or roll back | the locks of all the above |
| OCR extraction (`ocr.py`, first half of `ocr_recovery.reconcile`) | in the child: source, page, pages read, first values found | read page by page, refuse, fail, merge | its result goes through the pipe |
| Parser sandbox (`sandbox.py`) | a child process, its helpers, a pipe, a deadline | run, kill | called by worker and uploads |
| MRZ (`mrz.py`, `ocr_recovery.py`) | none | read and repair a line, recover the issue date | called by the extraction |
| Field and workbook parsing (`fields.py`, `sheets.py`) | none | conversions | called by the others |
| Backup, restore, updates (`scripts/*.sh`, `*.ps1`) | files, the database | steps that may stop anywhere | the whole database |
| Frontend (`frontend/src/main.tsx`) | open detail views | show, edit, save | the API; a revision number |

What is hard: unlocked reads that are saved later (re-verification, requeue script,
browser tabs), leases that expire under a slow extraction, crashes between a claim and
its result, two queries of one request that see different snapshots, the order of locks,
a child process that hangs, dies or leaves its own helpers behind, characters that OCR
takes for their look-alikes, counters and limits that one process tests and another
advances, and verdicts combined from evidence, trust and a master that may change
meanwhile. What makes each part correct is stated with its module below; the hazards,
each at its line and with the properties aimed at it, are in `PROJECT.json`.

## 2. The modules

### Documents: the records and everything that writes them

State: `doc` (the rows), `history` (their `Revision` rows), `active` (the master), and
one record per process: `worker`, `reverify`, `script`, `tab`. The granularity is the
database's:

- a transaction that locks its row before it reads it is one action (`Review`, `Retry`,
  `BulkDelete`, `Claim`, `Sweep`);
- an unlocked read and the write that uses it are two (`ReadRecords`, `VerifyNext`,
  `SaveVerdict`; `ScriptRead`, `ScriptRequeue`; `OpenRecord`, `Review`);
- the worker's committing transaction is `Extracted` (lock, lease check, read of the
  master), then `Commit` or `RollBack`, with the row `Locked` in between, since it reads
  the active master on its way and may still fail.

`Crash` drops a claim and leaves the row `processing`; `EndReverify` ends a
re-verification at any point (it is done, its record was deleted, or the 180 s limit of
a request killed it). A lease is the number of the claim (a uuid4 in the code), and
`late` says that its 25 minutes are over. A payload keeps who wrote it (`by`: nobody,
OCR, the owner), its number and whether its pages show several identities. A readable
number's verdict against a master is a choice from `Outcome[master][number]`, since the
remaining fields differ from one reading to the next; `Verification` says how it comes
about. Only refusals that change no state are left out.

The lines `Stored`, `Corrected`, `Reverified`... are what each writer saves in a row.
Definitions with a suffix (`Corrected_KeepsIndex`) are mutants: a plausible bug in the
definition they are named after, used by no specification.

Properties, strongest setting in which each holds:

- *whatever runs at the same time*: `ResultsUnderCurrentLease`, `ClaimsDistinct`,
  `MultiNeverApproved`, `VerdictNeedsExtraction`, `HistoryComplete`;
- *while the requeue script is not run*: `AttemptsBounded`, the refinement `QueueKept`,
  and under fairness `OutstandingEnds`: every record that waits or is processed ends;
- *while nothing is re-verified or requeued by script*: `RowAgrees` (a lease while
  processing and only then, an index that is the payload's, fields of the owner only in
  an approved record, an error only on a failed one) and `CorrectionsSeen`.

That the last group fails as soon as a re-verification runs is what `documents_human`
shows for the owner's fields (section 4).

### ExtractionQueue and DocumentsQueue: what the records promise as a queue

`ExtractionQueue` is the abstract specification: records are submitted in order, a
worker takes the one that has waited longest, at most three times each, answers only
while it holds the turn, and nothing is removed while it is taken. It knows no lease,
revision, error or verdict. `DocumentsQueue` maps `Documents` to it: `stage` is the
status with the verdicts taken together, `turns` the attempts, `holders` who works under
the lease the row carries, `answered` whether there is a payload. So a worker whose
lease was swept or replaced holds no turn, and `QueueKept` says that it never answers.
With the requeue script it does not hold.

### Comparison: a row against the records while they are written

Extends `Documents` with comparison requests. A request is one transaction of two
queries, and in READ COMMITTED each sees what was committed when it began:
`LockCandidates` (`FOR UPDATE` on the records found under the number) and `Report` (are
there unresolved records?). The steps of `Documents` go on around it, each as its
statement meets the locks: `BrowserWaits`, `WorkerWaits`, `ReverifyWaits` and
`ScriptWaits` say which rows an operation has to find `Free`, `ClaimFree` and
`FindNoneFree` are a worker's `SKIP LOCKED` query while some rows are held, and what
locks no held row (opening a record, reading all of them, the clock) waits for nobody. A
query that waits for a lock keeps the snapshot of its beginning for the rows it does not
wait for; the model lets it start after the wait. No country column is mapped.

`MatchIsOfOneApproved` says what a match was read from; `MatchIsTrue` that it is still
so when the row is reported: whatever was committed between the two, the record is then
approved, found under the row's number, and stores it. Index and payload part company in
a stale re-verification, so neither follows from the other.

### MasterWorkbooks: which workbook is active

`BeginUpdate` fixes the rows that an activation's UPDATE will clear: those active when
the statement began; `CommitUpdate` clears them and sets its own. Two activations can
therefore leave two workbooks active; `ActiveBounded` says that it is never more than
one per activation under way, `ActivationWins` that an activation no other overlapped
decides which workbook is read, `MasterNotLost` that a failed or overlapped activation
never leaves the vault without a master.

### AuditLog: the chained log

A transaction locks the head row with its first event and keeps it; entries and head are
visible at `Commit`, undone by `Abort`; ids are not. A digest is the sequence of
contents it covers, which is what a collision-free HMAC is. The maintenance command is
`Scan` (all entries) and `ReadHead`. `Damage`, once, alters (to the content `Altered`)
or removes a committed entry from outside. What a log shows of its damage is stated for
every damaged log in `Transactions`, so the two properties are not limited to one moment
of verification.

### Transactions: which locks are taken in which order

Extends `AuditLog` with the transactions that write its events. `BeginSingle`,
`BeginSeveral`, `BeginUpload`, `BeginLogin` and `BeginView` fix the rows a request will
lock, in the order of its code, or, for the queries that lock several documents, in any
order; `Lock` takes the next one when it is free. `Tell` writes an event, and so takes
the head; `Succeed` commits rows and events together; `Fail` is a refusal, a crash, a
statement that times out, or the victim of a deadlock. `Claim` skips locked rows.
Documents are reduced to what uploads and events tell apart: the stage, the file's
content, whether it was retried. The hourly verification and damage stay in `AuditLog`.

`OnlySeveralDeadlock` says that any set of the transactions modelled that wait for each
other locks several documents each (bulk delete, comparison, sweep); `UploadsSerialized`
that the owner row makes cap and duplicate test hold for uploads that run at once;
`LogTellsRecords` that the committed log tells of each record what happened to it, and
of nothing that was rolled back.

### Login: authenticator, recovery codes and the lockout

A request locks the guard row (`Enter`) and is answered (`AcceptTotp`, `AcceptRecovery`,
`Reject`, `Abort`), because a password check takes time while the clock goes on. An
authenticator code is the 30-second step it belongs to. What was read of the guard at
the start is what is counted. `uses` and `failedAt` record the history the properties
speak of.

### Mrz: the second line of the machine-readable zone

A character is its check-digit value (0-9, A-Z = 10-35, 36 for `<`), a date the number
yyyymmdd. `Printed` is what a passport carries; `Misread` replaces characters;
`ReadLine` applies both readers: `CheckedPrefix`, which repairs look-alikes by position
and refuses a line unless the three check digits of the fields hold, and `ParseTd3`,
which repairs nothing and returns what it read with the answer whether all check digits
hold, the composite one included. An invalid reading is used too: `ocr.py:508-518` puts
its values over the printed ones, with warnings, and only `reconcile` decides whether
they are trusted (`Overruled` and `Resolve`, below). `RecoverIssue` is the search for
the issue date among the dates a text shows: any of the passport's own and of others
(`Stray`: visas, stamps, misread dates), with any of them, or none, taken for birth and
expiry where the line was not accepted.

`IsPassport` is what the model takes a state to issue: a number of one to nine letters
and digits (if the state is India eight, in the form the code checks and without a
look-alike letter in second place), a birth less than a hundred years ago and an expiry
in this century.

`MisreadIsRefused` says what one misread character can do if a check digit tells it from
the printed one. In a line that `CheckedPrefix` accepts the dates are the passport's
own, and so is the number unless `RepairMisleads`: the repair of that character, or of a
whole number whose state was misread as India, gives another number with the same check
digit, which the code then accepts (section 4). A line that passes all check digits of
`ParseTd3` is the passport's own; of its invalid readings nothing is promised.
`LineIsRead` says what must not be refused. `IssueIsRecovered` says which date is
recovered when the issue date is shown and birth and expiry are known rightly or not at
all: never an earlier one, and a later one only if the text shows it, it is not to come,
and it is before the expiry where that is known. So a visa or a stamp can take its
place. A recovered date has one vote, hence is not trusted by itself.

### Verification: from readings to a verdict

What the OCR passes read (checked MRZ lines, printed values with the passes that read
them, the value recovered from raw text, the value the raw extraction kept) and the
master are inputs. `Reconcile` resolves the five critical fields and says which are
trusted, `Compare` finds the row and its tier, `Gate` turns an approval or a failure
that rests on doubtful fields into a review. `ApprovedIsConfirmed` restates, in terms of
the readings alone, what an automatic approval rests on; `AgreementNeverHurts` is
monotonicity: one more pass that reads the approved value cannot undo the approval. That
pages of several passports are never approved is not among the properties: `Reconcile`
counts the numbers of checked lines only, and forgets the zones counted before it
(section 4).

### Extraction, Sandbox and OcrJob: how the readings come about

`Extraction` is the loop in the child: sources in order, pages in order, both engines on
each page, the first value of a field kept, the only formal zone overruling it. A page
is what engines and patterns find on it; a source that cannot be opened, a page without
a size or one too many is refused, and any page may fail. `EvidenceOf` counts the votes,
and `Reference` says the same of a whole upload at once, without a loop. `Sandbox` is
the child, the helper processes it starts (Tesseract), the pipe with a message that
arrives in parts, and the worker that polls with a deadline, receives without one, and
closes: a kill of the process group, or of the child alone while it has no group yet.
The child may hang or die at any step. `OcrJob` composes them with `Verification`: the
child reads one page per step, the worker receives what it resolved and decides.

`ImplementsVerification` is `Verification`'s specification as a property of `OcrJob`,
with `Reference(upload)` as the evidence: whatever is read, refused or killed, in any
order, the verdict is the one Verification gives to the whole upload, or there is none.
`RunEnds` says that a run always ends, without a child, and without a helper unless the
child died before the worker closed it.

## 3. The runs

Every run is in `PROJECT.json`, with what it shows. Bounds, and why they suffice:

| Run | Instance | States |
|---|---|---|
| `documents_review` | 1 record, 2 workers, 2 tabs, 2 numbers, 2 corrections | 33 thousand |
| `documents_all` | 1 record, 2 workers, 1 tab, 1 re-verification, 1 script, 1 master | 2.0 million |
| `documents_live` | 2 records, 1 worker, 1 re-verification | 332 thousand |
| `comparison` | 1 record, 2 numbers, 1 worker, 1 tab, 1 re-verification, 1 script, 1 comparison | 825 thousand |
| `masters` | 4 workbooks, 2 activations | 46 thousand |
| `transactions` | 2 writers, 2 records, 2 files, a cap of 1, 4 events | 357 thousand |
| `login` | 2 requests, 1 recovery code, a lock of 3 steps, 7 failures | 16 thousand |
| `mrz` | 8 passports, any one of 44 characters misread as any other, texts of up to 2 dates | 913 thousand |
| `ocr_job` | some 340 uploads of up to 3 pages, 2 values, 7 masters | 389 thousand |

- Two workers and one record meet on every claim, lease and commit; a third worker is in
  the position of the second, and the theorems cover any number. A second record matters
  where the order of the queue does (`documents_live`), so it is there. `MaxClaims` is
  at least the 3 claims the code allows; where `AttemptsBounded` is checked, and where
  the script runs, it is 4, so that a claim too many is possible in the model.
- `MaxRevision` bounds corrections: 2 are needed for one correction to follow another
  (`CorrectionsSeen`); with 1 a correction still meets every other writer.
- `QueueCap` is 100 in the code; 1 or 2 makes it bind.
- `n1` may match its row or differ, `n2` is in no row, and an unreadable number and
  several identities are payloads of their own: every verdict is reachable. In
  `documents_live` every reading fails, so that every outcome can be retried; in
  `comparison` it is approved, since only approved records are matched.
- In `comparison` one record has two numbers, so that a correction, overwritten by a
  stale re-verification, leaves it under an index its payload does not have. With a
  second record the writers exceed the reach of a run; that several records found make
  no match, and that a worker passes over held ones, is covered by the theorems.
- `Lockout` = 3 steps stands for 15 minutes: long enough that no code is valid both
  before and after a whole lock; 7 failures exceed the 5 that lock. The theorems hold
  for every length. Time ends at `MaxClock`, requests do not, so nothing deadlocks.
- Two transactions meet in every pair of lock orders; a cycle of three needs three
  transactions that each lock two rows others want, all of the kinds that
  `OnlySeveralDeadlock` names. Two records let two statements lock them in opposite
  orders, and a cap of 1 lets two uploads compete for the last place. 4 events are an
  upload, its end, a retry or deletion, and one more that interleaves. A deadlock of the
  database is no deadlock of the model, since the victim is a `Fail`.
- The passports of `mrz` are of India (whose numbers are repaired), one of them with a
  number that begins with a P, and of two other states: one whose name is a misread away
  from IND, with a number of eight characters, and one with a number of nine, which
  leaves no filler. They have the oldest birth whose century is certain, a leap day, a
  birth of this year, and expiries before and after today, 2026-06-15.
  `MisreadIsRefused` is about one misread: check digits promise nothing for two. A text
  shows one or two of the passport's own dates and one of another, 2026-01-01: later
  than most issue dates, than the expiry of one passport, and before the birth of one.
  Two dates are the issue date and one that could be taken for it; the theorem has any
  number.
- In `ocr_job` the limit is 2 pages, so that 3 pages are one too many, in one source or
  in two. The readings of number, birth date, gender and issue date vary from nobody to
  both engines on both pages, the lines over none, one on either page, two numbers, two
  birth dates; three sets of further marks (formal zones, a noisy line, dates). A kept
  page, a refusal and a death are possible at every page of each.
- Deadlock is checked except where the model really stops: all workbooks uploaded and
  cleaned up (`masters`), the line and the text read (`mrz`), the verdict given
  (`ocr_job`).
- Symmetry is declared over workers, writers and files, activations and login requests,
  in runs that check no liveness.

Fairness. In `documents_live`: weak fairness of each worker's own steps, since the
container is restarted unless stopped (`compose.yaml:4`) and an OCR child is killed
after 1200 s (`worker.py:32`), and of the passing of lease time. Nothing is assumed of
the owner, of re-verifications, or that a worker does not crash: a crashed claim is
ended by a later sweep, and since a record is claimed at most three times crashes cannot
go on for ever. `OutstandingEnds` needs no fairness of uploads, as records are served in
order of creation. In `ocr_job`: weak fairness of the worker's steps, the deadline among
them, and of the end of a message that was begun, because the worker reads the pipe
until it is empty (`sandbox.py:38`). Nothing is assumed of the child elsewhere, nor of
its helpers.

Every property of a passing run has a mutant in `PROJECT.json` that violates it.

## 4. Where code and documents disagree

Each is a run that TLC ends with a counterexample:

- `documents_human` (`views.py:229`): a re-verification that read a record before the
  owner corrected it writes the old payload back; the correction is kept nowhere.
- `comparison_not_found` (`comparison.py:33`): a record that is processing at the first
  query and approved at the second is reported Not Found.
- `audit_alarm` (`maintenance.py:21`): an event committed between the two queries raises
  AUDIT HEAD INVALID on an undamaged log.

Seen while modelling, without a run of their own (for the first five, add the definition
to a cfg and TLC shows a trace):

- `ZonesAreSplit` of `OcrJob` (in `OcrJob.cfg`, with `Uploads <- MCSplitUploads` and
  `Evidence <- MCSplitEvidence`): `ocr.py:507` asks for records with several zones to be
  split before approval, and `ocr.py:529` flags them. `reconcile` replaces the flag by a
  count of the numbers in lines whose check digits hold (`ocr_recovery.py:396-398`), so
  two pages with zones of two numbers, one of which fails its digits, are approved.
- `ReviewSawCurrentData` of `Documents`, as the next three: the optimistic check
  (`views.py:148`) compares a number that only corrections increment, so a tab that is
  older than an extraction passes it.
- `ReverifySkipsBusyRecords`: `scripts/reverify_all.py:15-16` says records queued or
  processing are not touched; that is tested when they are read, not when they are
  saved.
- `QueueWithinCap`: "Max 100 outstanding" (`README.md:51`) is tested by uploads, not by
  retries (`views.py:162`).
- `AttemptsBounded` with the requeue script: it saves rows it read earlier, so a record
  can be claimed a fourth time (`scripts/retry_interrupted.py:28`).
- Two overlapping activations leave two active workbooks, and verification reads the one
  uploaded last, whichever was activated last (`views.py:220`, `auto_verify.py:8`).
- The active master is deleted a day after its upload (`maintenance.py:12`), while the
  interface says to upload it once (`frontend/src/main.tsx:64`).
- `README_FIRST.txt:48` says every extraction needs manual approval; five confirmed
  matches approve automatically (`auto_verify.py:104-106`).
- A single checked MRZ value is trusted although passes print another
  (`ocr_recovery.py:338`), where `ocr.py:522` wants disagreements reviewed.
- The OCR trust stored with a record outlives a correction, and a later re-verification
  judges the corrected fields by it.
- Bulk deletion, comparison and the sweep lock documents in no stated order
  (`views.py:186`, `comparison.py:32`, `worker.py:20`) and can deadlock with each other;
  the sweep is outside the worker's `try`, so as the victim it ends the worker, which is
  then restarted.
- An activation locks the active workbooks by one UPDATE and its own by the next
  statement (`views.py:220-221`); the clean-up, which deletes several workbooks by one
  statement (`maintenance.py:12`), can lock them the other way round, and one of the two
  is then the victim of a deadlock.
- Check digits tell no character from one whose value differs by ten: 0, A, K and U; 1,
  B, L, V and so on, and 0 from the filler. Such a misread passes both readers, whoever
  checks.
- The repairs of look-alikes can hide a misread from a check digit: an Indian number
  that begins with a P, misread as 2, is repaired to begin with a Z, which has the same
  check digit (`ocr_recovery.py:193`); and a state misread as IND has its number
  repaired like an Indian one, 1S345678 to I5345678, again with the same check digit
  (`ocr_recovery.py:192`).
- Two-digit years pivot on the current year in `mrz.py:19` and `ocr_recovery.py:171`,
  but on 40 in `ocr.py:176`, `ocr.py:318` and `ocr_recovery.py:31`. Only
  `checked_prefix` repairs look-alikes, so the two readers may disagree.
- A formal zone that fails its check digits still overrules what is printed
  (`ocr.py:508-518`), with a warning.
- The latest date that fits is taken for the date of issue (`ocr_recovery.py:84`): that
  of a visa or a stamp, or the expiry of an expired passport whose expiry is not known.
- One scan uploaded twice counts as two passes, and so as a confirmation
  (`ocr_recovery.py:283`).
- `except TesseractError` (`ocr.py:224`) is never reached: it is a `RuntimeError`, which
  the branch before it takes.
- A child that dies by itself leaves its Tesseract process running: the group is killed
  only if the child is alive (`sandbox.py:44`).

## 5. What is proved

Every invariant and every action property that a run checks, and both refinements, are
theorems, each for every value of the constants that satisfies the assumptions of its
module. The assumptions are typing (bounds are naturals, null values are no values), and
beyond it:

- `Documents`: `MaxClaims >= RetryLimit`, and `Outcome` gives each number a nonempty set
  of verdicts;
- `AuditLog`: `Altered` is not a content a writer logs;
- `Verification`: values and voters are finitely many, rows of a master are finitely
  many and have positions;
- `OcrJob`: the evidence of every upload (`Reference`) is evidence `Verification` takes;
- `Mrz`: today is in this century, every passport is as `IsPassport` says, dates of
  others are dates, and a character is misread as one of the 37.

A few theorems assume a set of processes empty or finite. They say so, and the property
fails without it, or its bound says nothing.

### Records (`DocumentsProofs`, `ComparisonProofs`)

- `TypeCorrect`; then `ClaimInv`, the inductive invariant of claims. `ClaimsDistinct`
  alone is not inductive: a claim takes the next number, and that no other worker holds
  it needs `Owned`, that a busy worker's lease is at most the attempts its record has
  counted, unless the record is deleted, and that a committing worker holds its lease.
  From it `ClaimsAreDistinct` and `CommitsUnderLease`.
- The lemma `RowSteps` lists the ways one row can change in one step, under `ClaimInv`;
  each invariant of rows is then preserved if each of these ways preserves it.
  `VerdictInv` adds to the row what workers and re-verifications have in hand: it gives
  `MultiSafe` and `VerdictsAreEarned`. `HistoryIsComplete` follows the cardinality of a
  record's history, `RecordsAgree` (no re-verification, no script) the agreement of the
  columns of a row, `AttemptLimit` (no script) the attempts a queued record has left.
- `CorrectionsAreSeen` (no re-verification): by `TabInv`, that the row has at least the
  revision a tab shows and, if no more, the owner's fields that the tab shows.
- `QueueIsImplemented` (no script): each way a row can change is a step of
  `ExtractionQueue` or none, by what it does to `stage`, `turns`, `holders` and
  `answered`. A stale re-verification may end a record's turn, but it answers nothing:
  what it read had been answered, and still is unless it was deleted (`ReadInv`).
- `CompareTypeCorrect`; `MatchesAreEarned`, with the finiteness of what a comparison
  finds. `MatchesAreTrue` needs `LocksInv`: that what a comparison read of its
  candidates is still so (`CandidatesStay`), that no worker is committing to one of them
  (`LocksExclude`), and that they exist. That the first is inductive is shown operation
  by operation, from what each waits for.

### Log and transactions (`TransactionsProofs`)

- `AuditLog` alone: `TypeCorrect`; `ChainIsIntact`, by an invariant that the rows of the
  open transaction extend the committed chain and that at most one is open;
  `LogOnlyGrows`. `LogIsUsed` shows that `Transactions` takes only steps of `AuditLog`,
  so they hold of it too (`ChainIntactUnderUse`, `LogGrowsUnderUse`).
- `DamageShowsUnderUse`, which is `DamageIsDetected`: `PlainInv` says that a log not
  damaged has one entry per id and contents that operations write. An altered entry then
  does not fit its own digest; a lost one does not fit the next, which builds on its
  digest; and without the last one the log does not reach the head.
- `TransactionsTyped`, and `DeadlocksAreOfSeveral`, which is `OnlySeveralDeadlock`. Its
  invariant says which locks each kind of transaction holds and still wants. In a
  deadlock nobody holds the head, whose holder wants nothing more; so nobody holds the
  owner or waits for it, whose holder wants at most the head; so nobody waits for the
  guard. What is left waits for documents, and an operation on one document holds
  nothing while it waits for it.
- `UploadsAreSerialized`: while an upload holds the owner row, what it counted and which
  files it found are still so. `LogAndRecordsAgree`: what a writer has told, and what of
  it is committed, is what became of its records.

### Masters and login (`MasterWorkbooksProofs`, `LoginProofs`)

- `TypeCorrect`, `MastersAreKept` and `ActivationsWin`, from what a commit and every
  other step do to the set of active workbooks. `ActiveIsBounded`, for finitely many
  activations: each active workbook was activated by another of them, and one that is
  under way has seen its own (`OwnersInv`).
- `LoginTyped` with `Exclusive`, the invariant that at most one request checks, that
  what it read of the guard is still so and that the login was not locked, gives
  `LockHolds`. `Spent` (a used step is at most the last one, a used recovery code is
  gone) gives `CodesAreUsedOnce`. For `GuessesAreBounded`, `Recorded`: the failures
  counted are the last ones recorded, and the one before them set the lock that the
  guard shows.

### Extraction and verdict (`VerificationProofs`, `OcrJobProofs`)

- `TrustIsConfirmed`, that a trusted field was read as `Confirmed` says,
  `CompareDecides` and `GatePasses` give `ApprovalsAreEarned` and `FailuresAreEarned`.
  `AgreementHelps`, which is `AgreementNeverHurts`: one more
  pass that reads an approved value leaves it the only one most passes read, trusted as
  before, and the other fields as they were.
- `LoopInv`: the pages read are the first ones of the upload, and fields and zones are
  those of the pages read; so the child ends with `Reconcile(Reference(upload))`.
  `JobInv` adds that a record is that or none, and gives `JobTyped` and
  `VerificationIsImplemented`. By the refinement, what holds of `Verification` holds of
  every extraction (`JobVerdictsAreEarned`). `NothingIsLeft`: a worker that is done has
  no child, and no helper unless the child died without its group.

### The machine-readable zone (`MrzProofs`)

- The weights 7, 3 and 1 have inverses modulo 10, so one character of another value
  changes the check digit (`DistinctIsSeen`), and a part of the line that differs in one
  such place and passes its check digit is the printed one (`PartIsRead`; `RepairIsRead`
  for repaired digits, since two different digits are always told apart; `NumberIsRead`
  for the number). `LineIsPrinted` says what stands where in a printed line, and
  `DatesAreRead` that the digits of a date give it back with its century.
- `MrzInv` says that the line is the printed one where it is not misread, that both
  readings come from it, and that the issue date comes from the dates seen and what is
  known. With the lemmas, and with `Told`, that a check digit tells the misread
  character as it is read and as it is repaired, which holds unless `RepairMisleads`, it
  gives `MisreadsAreRefused`, `LinesAreRead` and `IssuesAreRecovered`.

### What stays with TLC

Liveness under fairness (`OutstandingEnds`, `RunEnds`): the prover has no ENABLED. No
module has a RECURSIVE operator, and no proof uses induction over data: where a sum
(`SumExists`), a flattened sequence (in `OcrJobProofs`), the fillers taken out of a text
(`FilledIsKept`), the greatest of some dates (`GreatestNumber`) or a damaged log needs
one, it is replaced by a least counterexample, which well-foundedness of the naturals
gives.

## 6. What is not modelled

File contents, page previews and image processing, what the OCR engines and the text
patterns find on a page (inputs of `Extraction`), the names and the first line of the
MRZ, encryption (an index is the number, a digest its contents), spreadsheet parsing and
value normalization (conversions without control), sessions, reports (written once),
installation. `Transactions` leaves out corrections, which lock one row and log as a
retry does; uploads of workbooks and reports, which write one row of their own and log
apart from it; activations, which lock several workbooks and log after their commit
(section 4), and whose overlap is in `MasterWorkbooks`; and the second look that READ
COMMITTED takes at a row it waited for. `PROJECT.json` gives the reason part by part.

## 7. Plan

Written, in this order: Documents, AuditLog, Comparison (composed with Documents),
MasterWorkbooks, Login, Verification, and the proofs of these; ExtractionQueue and its
refinement, Transactions (composed with AuditLog), Mrz, Extraction, Sandbox, OcrJob
(composed with Verification); then the proofs of both refinements and of everything else
that the runs check, except for liveness.

Next, by importance:

1. `BackupRestore` and the updater: steps that stop anywhere, and spent recovery codes
   that a restore brings back (composed with Login).
2. Activation composed with Documents: which master each verdict reflects
   (`views.py:222`), and its 180 s limit.
3. The step of `OutstandingEnds` that needs no fairness: that the attempts left and the
   records before it never increase while a record is outstanding.
