----------------------------- MODULE Verification -----------------------------
(***************************************************************************)
(* How an extraction becomes a verdict: the critical fields are resolved   *)
(* from what each OCR pass read (ocr_recovery.reconcile), compared with    *)
(* the active master workbook (auto_verify) and passed through the quality *)
(* gate (ocr_quality).  Documents takes the outcome as a constant.         *)
(*                                                                         *)
(* Values are normalized.  What the passes read, and the value the raw     *)
(* extraction kept, are inputs.                                            *)
(***************************************************************************)
EXTENDS Naturals, FiniteSets

CONSTANTS
    Value,      \* normalized values of a field
    Blank,      \* no value
    Invalid,    \* a cell of the workbook that cannot be normalized
    Voter,      \* page and engine; the MRZ pass votes as Tesseract
    Evidence,   \* the extractions considered
    Sheet,      \* the master workbooks considered
    NoSheet     \* no workbook is active

Critical == {"passport_number", "dob", "gender", "date_of_issue", "date_of_expiry"}
Checked == {"passport_number", "dob", "date_of_expiry"}
FallbackVoter == "fallback"

\* A machine-readable line whose check digits hold, and the pass that read it.
Prefix == [passport_number: Value, dob: Value, date_of_expiry: Value,
           gender: Value, voter: Voter]

\* Per extraction: the checked lines, the printed values each voter read, what
\* the scan of the raw text would recover, what the raw extraction kept.
EvidenceShape ==
    [prefixes: SUBSET Prefix, printed: [Critical -> [Value -> SUBSET Voter]],
     scanned: [Critical -> Value \cup {Blank}],
     kept: [Critical -> Value \cup {Blank}]]

\* The cells of a row under the critical fields.
SheetRow == [Critical -> Value \cup {Blank, Invalid}]

ASSUME ValuesAssumption ==
    /\ Blank \notin Value /\ Invalid \notin Value \cup {Blank}
    /\ FallbackVoter \notin Voter /\ NoSheet \notin Sheet
    /\ IsFiniteSet(Value) /\ IsFiniteSet(Voter)
ASSUME InputsAssumption ==
    /\ \A e \in Evidence : e \in EvidenceShape
    /\ \A s \in Sheet :
        /\ s.mapped \subseteq Critical /\ IsFiniteSet(s.rows)
        /\ \A row \in s.rows : row.at \in Nat /\ row.cells \in SheetRow

VARIABLES
    evidence,   \* what the OCR child read
    sheet,      \* the active master
    record,     \* the resolved fields, their trust, several identities or not
    verdict     \* "none" until the record is verified

vars == <<evidence, sheet, record, verdict>>

(***************************** Reconcile ***********************************)

CheckedValues(e, f) == IF f \in Checked THEN {p[f] : p \in e.prefixes} ELSE {}

Votes(e, f, v) ==
    e.printed[f][v] \cup
    (IF f = "gender" THEN {p.voter : p \in {q \in e.prefixes : q.gender = v}}
                     ELSE {})

\* Only the issue date and the gender are recovered from the raw text, and
\* only if nobody read them; the recovery has one vote.
Recoverable == {"date_of_issue", "gender"}
AllVotes(e, f) ==
    IF f \in Recoverable /\ \A v \in Value : Votes(e, f, v) = {}
    THEN [v \in Value |-> IF v = e.scanned[f] THEN {FallbackVoter} ELSE {}]
    ELSE [v \in Value |-> Votes(e, f, v)]

\* The values with the most votes.
Leaders(votes) ==
    {v \in Value : /\ votes[v] # {}
                   /\ \A u \in Value : Cardinality(votes[u]) <= Cardinality(votes[v])}

Enough_One(voters) == Cardinality(voters) >= 1
Enough_Pair(voters) == Cardinality(voters) = 2
Enough(voters) == Cardinality(voters) >= 2

Field == [value: Value \cup {Blank}, trusted: BOOLEAN]
Untrusted(v) == [value |-> v, trusted |-> FALSE]
KeptIfAmong(e, f, options) == IF e.kept[f] \in options THEN e.kept[f] ELSE Blank

\* sorted(checked)[0], as any value: which one is shown, the value is untrusted.
FirstChecked(checked) == CHOOSE v \in checked : TRUE

Resolve_AnyLeader(e, f) ==
    LET leaders == Leaders(AllVotes(e, f)) IN
    IF leaders = {} THEN Untrusted(e.kept[f])
    ELSE [value |-> CHOOSE v \in leaders : TRUE, trusted |-> TRUE]
Resolve(e, f) ==
    LET checked == CheckedValues(e, f)
        votes == AllVotes(e, f)
        leaders == Leaders(votes) IN
    IF Cardinality(checked) = 1
    THEN [value |-> CHOOSE v \in checked : TRUE, trusted |-> TRUE]
    ELSE IF checked # {}
    THEN Untrusted(IF e.kept[f] \in checked THEN e.kept[f] ELSE FirstChecked(checked))
    ELSE IF Cardinality(leaders) = 1
    THEN LET v == CHOOSE u \in leaders : TRUE IN
         [value |-> v, trusted |-> Enough(votes[v])]
    ELSE IF leaders # {}
    THEN Untrusted(KeptIfAmong(e, f, {v \in Value : votes[v] # {}}))
    ELSE Untrusted(e.kept[f])

\* Every field that is not trusted leaves an issue, as do several identities.
Reconcile(e) ==
    LET fields == [f \in Critical |-> Resolve(e, f)]
        multi == Cardinality(CheckedValues(e, "passport_number")) > 1 IN
    [fields |-> fields, multi |-> multi,
     review |-> multi \/ \E f \in Critical : ~fields[f].trusted]

(***************************** Compare *************************************)

RowsOf(s, number) == {row \in s.rows : row.cells["passport_number"] = number}

FieldStatus(row, r, f) ==
    IF row.cells[f] = Invalid THEN "Invalid Excel value"
    ELSE IF row.cells[f] = Blank \/ r.fields[f].value = Blank THEN "Missing value"
    ELSE IF row.cells[f] = r.fields[f].value THEN "Match" ELSE "Mismatch"

Having(row, r, st) == {f \in Critical : FieldStatus(row, r, f) = st}

\* Five matches approve, three or four without a mismatch ask for review.
Tier_Four(row, r) ==
    IF Cardinality(Having(row, r, "Match")) >= 4 THEN "approved" ELSE "failed"
Tier(row, r) ==
    IF Having(row, r, "Match") = Critical THEN "approved"
    ELSE IF Cardinality(Having(row, r, "Match")) >= 3 /\ Having(row, r, "Mismatch") = {}
    THEN "review" ELSE "failed"

Compare_FirstRow(s, r) ==
    LET rows == IF s = NoSheet THEN {} ELSE RowsOf(s, r.fields["passport_number"].value) IN
    IF rows = {} THEN "failed" ELSE Tier(CHOOSE x \in rows : TRUE, r)
Compare(s, r) ==
    IF s = NoSheet THEN "review"
    ELSE IF s.mapped # Critical THEN "review"
    ELSE IF r.fields["passport_number"].value = Blank THEN "review"
    ELSE LET rows == RowsOf(s, r.fields["passport_number"].value) IN
         IF rows = {} THEN "failed"
         ELSE IF Cardinality(rows) > 1 THEN "review"
         ELSE Tier(CHOOSE x \in rows : TRUE, r)

(******************************* The gate **********************************)

Gate_None(v, r) == v
Gate(v, r) ==
    IF \/ r.multi
       \/ v = "failed" /\ ~r.fields["passport_number"].trusted
       \/ v = "approved" /\ (r.review \/ \E f \in Critical : ~r.fields[f].trusted)
    THEN "review" ELSE v

Verify(s, r) == Gate(Compare(s, r), r)

(***************************************************************************)

NoRecord == [fields |-> [f \in Critical |-> Untrusted(Blank)], multi |-> FALSE,
             review |-> TRUE]

TypeOK ==
    /\ evidence \in EvidenceShape /\ sheet \in Sheet \cup {NoSheet}
    /\ record \in [fields: [Critical -> Field], multi: BOOLEAN, review: BOOLEAN]
    /\ verdict \in {"none", "extracted", "approved", "review", "failed"}

Init ==
    /\ evidence \in Evidence /\ sheet \in Sheet \cup {NoSheet}
    /\ record = NoRecord /\ verdict = "none"

Extract ==
    /\ verdict = "none"
    /\ record' = Reconcile(evidence)
    /\ verdict' = "extracted"
    /\ UNCHANGED <<evidence, sheet>>

Decide ==
    /\ verdict = "extracted"
    /\ verdict' = Verify(sheet, record)
    /\ UNCHANGED <<evidence, sheet, record>>

Next == Extract \/ Decide
Spec == Init /\ [][Next]_vars

(**************************** Properties ***********************************)

\* What it takes to rely on a value, in terms of what was read.
Confirmed(e, f, v) ==
    \/ CheckedValues(e, f) = {v}
    \/ /\ CheckedValues(e, f) = {}
       /\ Cardinality(Votes(e, f, v)) >= 2
       /\ \A u \in Value \ {v} :
              Cardinality(Votes(e, f, u)) < Cardinality(Votes(e, f, v))

\* An approval rests on one row of the master that agrees in all five fields
\* with values that were each read in a checked line, or by two passes and by
\* more than any other value; nothing recovered from raw text, and no value
\* taken from the workbook, gets a record approved.
ApprovedIsConfirmed ==
    verdict = "approved" =>
        /\ sheet # NoSheet
        /\ Cardinality(RowsOf(sheet, record.fields["passport_number"].value)) = 1
        /\ \A f \in Critical :
            /\ Confirmed(evidence, f, record.fields[f].value)
            /\ \A row \in RowsOf(sheet, record.fields["passport_number"].value) :
                   row.cells[f] = record.fields[f].value

\* ocr_quality.py 13: "Not-found can be final only when the number itself is
\* reliably read"; nor is any other failure final on a doubtful number, and a
\* row is never refused for fields that are merely missing if three agree.
FailureIsOfKnownNumber ==
    verdict = "failed" =>
        /\ Confirmed(evidence, "passport_number",
                     record.fields["passport_number"].value)
        /\ \A row \in RowsOf(sheet, record.fields["passport_number"].value) :
            \/ Having(row, record, "Mismatch") # {}
            \/ Cardinality(Having(row, record, "Match")) < 3

\* One more pass that reads what was approved cannot undo the approval.
AddVote(e, f, v, w) == [e EXCEPT !.printed[f][v] = @ \cup {w}]
AgreementNeverHurts ==
    verdict = "approved" =>
        LET More == {AddVote(evidence, f, record.fields[f].value, w) :
                         f \in Critical, w \in Voter} IN
        \A r \in {Reconcile(e) : e \in More} : Verify(sheet, r) = "approved"
=============================================================================
