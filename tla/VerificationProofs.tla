-------------------------- MODULE VerificationProofs --------------------------
(* Theorems about Verification: what an approval and a final failure rest on, *)
(* for every number of passes, readings and values and every master workbook. *)
EXTENDS Verification, TLAPS, FiniteSetTheorems

(**************************** Finite sets **********************************)

LEMMA CheckedFinite ==
    ASSUME NEW e \in EvidenceShape, NEW f
    PROVE  CheckedValues(e, f) \subseteq Value /\ IsFiniteSet(CheckedValues(e, f))
<1>1. CheckedValues(e, f) \subseteq Value
  BY DEF CheckedValues, EvidenceShape, Prefix, Checked
<1> QED
  BY <1>1, ValuesAssumption, FS_Subset

LEMMA VotesFinite ==
    ASSUME NEW e \in EvidenceShape, NEW f \in Critical, NEW v \in Value
    PROVE  Votes(e, f, v) \subseteq Voter /\ IsFiniteSet(Votes(e, f, v))
           /\ Cardinality(Votes(e, f, v)) \in Nat
<1>1. Votes(e, f, v) \subseteq Voter
  BY DEF Votes, EvidenceShape, Prefix
<1>2. IsFiniteSet(Votes(e, f, v))
  BY <1>1, ValuesAssumption, FS_Subset
<1> QED
  BY <1>1, <1>2, FS_CardinalityType

\* The only member of a set of one.
LEMMA OnlyMember ==
    ASSUME NEW S, IsFiniteSet(S), Cardinality(S) = 1
    PROVE  (CHOOSE v \in S : TRUE) \in S /\ S = {CHOOSE v \in S : TRUE}
<1>1. PICK x : S = {x}
  BY FS_Singleton
<1> QED
  BY <1>1

(***************************** Trust ***************************************)

\* Values that are confirmed by two votes are not recovered from raw text.
LEMMA EnoughVotes ==
    ASSUME NEW e \in EvidenceShape, NEW f \in Critical, NEW v \in Value,
           Enough(AllVotes(e, f)[v])
    PROVE  \A u \in Value : AllVotes(e, f)[u] = Votes(e, f, u)
<1>1. CASE f \in Recoverable /\ \A u \in Value : Votes(e, f, u) = {}
  <2>1. AllVotes(e, f)[v] = {FallbackVoter} \/ AllVotes(e, f)[v] = {}
    BY <1>1 DEF AllVotes
  <2>2. Cardinality({FallbackVoter}) = 1 /\ Cardinality({}) = 0
    BY FS_Singleton, FS_EmptySet
  <2> QED
    BY <2>1, <2>2 DEF Enough
<1>2. CASE ~(f \in Recoverable /\ \A u \in Value : Votes(e, f, u) = {})
  BY <1>2 DEF AllVotes
<1> QED
  BY <1>1, <1>2

\* A value that leads alone has more votes than any other.
LEMMA SoleLeader ==
    ASSUME NEW e \in EvidenceShape, NEW f \in Critical, NEW v \in Value,
           Leaders(AllVotes(e, f)) = {v}, Enough(AllVotes(e, f)[v])
    PROVE  /\ Cardinality(Votes(e, f, v)) >= 2
           /\ \A u \in Value \ {v} :
                  Cardinality(Votes(e, f, u)) < Cardinality(Votes(e, f, v))
<1> DEFINE votes == AllVotes(e, f)
           N(u) == Cardinality(Votes(e, f, u))
<1>1. \A u \in Value : votes[u] = Votes(e, f, u)
  BY EnoughVotes
<1>2. \A u \in Value : N(u) \in Nat
  BY VotesFinite
<1>3. N(v) >= 2 /\ \A u \in Value : N(u) <= N(v)
  <2>1. v \in Leaders(votes)
    OBVIOUS
  <2> QED
    BY <1>1, <2>1 DEF Leaders, Enough
<1>4. ASSUME NEW u \in Value \ {v}, ~(N(u) < N(v)) PROVE FALSE
  <2>1. N(u) = N(v)
    BY <1>2, <1>3, <1>4
  <2>2. Votes(e, f, u) # {}
    BY <1>3, <2>1, FS_EmptySet
  <2>3. \A t \in Value : Cardinality(votes[t]) <= Cardinality(votes[u])
    BY <1>1, <1>3, <2>1
  <2>4. u \in Leaders(votes)
    BY <1>1, <2>2, <2>3 DEF Leaders
  <2> QED
    BY <2>4
<1> QED
  BY <1>3, <1>4

\* A field is trusted only if its value was read in a checked line, or by two
\* passes and by more than any other.
LEMMA TrustIsConfirmed ==
    ASSUME NEW e \in EvidenceShape, NEW f \in Critical, Resolve(e, f).trusted
    PROVE  Confirmed(e, f, Resolve(e, f).value)
<1> DEFINE checked == CheckedValues(e, f)
           votes == AllVotes(e, f)
           leaders == Leaders(votes)
<1>1. CASE Cardinality(checked) = 1
  <2>1. Resolve(e, f).value = CHOOSE v \in checked : TRUE
    BY <1>1 DEF Resolve
  <2>2. checked = {CHOOSE v \in checked : TRUE}
    BY <1>1, CheckedFinite, OnlyMember
  <2> QED
    BY <2>1, <2>2 DEF Confirmed
<1>2. CASE Cardinality(checked) # 1 /\ checked # {}
  BY <1>2 DEF Resolve, Untrusted
<1>3. CASE Cardinality(checked) # 1 /\ checked = {} /\ Cardinality(leaders) = 1
  <2> DEFINE v == CHOOSE u \in leaders : TRUE
  <2>1. leaders \subseteq Value
    BY DEF Leaders
  <2>2. IsFiniteSet(leaders)
    BY <2>1, ValuesAssumption, FS_Subset
  <2>3. leaders = {v} /\ v \in Value
    BY <1>3, <2>1, <2>2, OnlyMember
  <2>4. Resolve(e, f) = [value |-> v, trusted |-> Enough(votes[v])]
    BY <1>3 DEF Resolve
  <2>5. Enough(votes[v]) /\ Resolve(e, f).value = v
    BY <2>4
  <2> HIDE DEF v
  <2>6. /\ Cardinality(Votes(e, f, v)) >= 2
        /\ \A u \in Value \ {v} :
               Cardinality(Votes(e, f, u)) < Cardinality(Votes(e, f, v))
    BY <2>3, <2>5, SoleLeader
  <2> QED
    BY <1>3, <2>5, <2>6 DEF Confirmed
<1>4. CASE Cardinality(checked) # 1 /\ checked = {} /\ Cardinality(leaders) # 1
  BY <1>4 DEF Resolve, Untrusted
<1> QED
  BY <1>1, <1>2, <1>3, <1>4

(**************************** The verdict **********************************)

\* The gate lets through only what its conditions accept.
LEMMA GatePasses ==
    ASSUME NEW v, NEW r, NEW w \in {"approved", "failed"}, Gate(v, r) = w
    PROVE  /\ v = w /\ ~r.multi
           /\ w = "failed" => r.fields["passport_number"].trusted
           /\ w = "approved" => \A f \in Critical : r.fields[f].trusted
  BY DEF Gate

LEMMA RowsFinite ==
    ASSUME NEW s \in Sheet, NEW n
    PROVE  IsFiniteSet(RowsOf(s, n)) /\ Cardinality(RowsOf(s, n)) \in Nat
<1>1. IsFiniteSet(RowsOf(s, n))
  BY InputsAssumption, FS_Subset DEF RowsOf
<1> QED
  BY <1>1, FS_CardinalityType

\* What Compare decides on the rows of a number comes from the only one.
LEMMA CompareDecides ==
    ASSUME NEW s \in Sheet \cup {NoSheet}, NEW r,
           Compare(s, r) \in {"approved", "failed"}
    PROVE  /\ s \in Sheet
           /\ \/ /\ RowsOf(s, r.fields["passport_number"].value) = {}
                 /\ Compare(s, r) = "failed"
              \/ \E x : /\ RowsOf(s, r.fields["passport_number"].value) = {x}
                        /\ Compare(s, r) = Tier(x, r)
<1> DEFINE rows == RowsOf(s, r.fields["passport_number"].value)
<1>1. s \in Sheet
  BY DEF Compare
<1>2. CASE rows = {}
  BY <1>1, <1>2, ValuesAssumption DEF Compare
<1>3. CASE rows # {}
  <2>1. ~(Cardinality(rows) > 1)
    BY <1>3 DEF Compare
  <2>2. IsFiniteSet(rows) /\ Cardinality(rows) \in Nat
    BY <1>1, RowsFinite
  <2>3. Cardinality(rows) = 1
    BY <1>3, <2>1, <2>2, FS_EmptySet
  <2>4. rows = {CHOOSE x \in rows : TRUE}
    BY <2>2, <2>3, OnlyMember
  <2>5. Compare(s, r) = Tier(CHOOSE x \in rows : TRUE, r)
    BY <1>3, <2>1 DEF Compare
  <2> QED
    BY <1>1, <2>4, <2>5
<1> QED
  BY <1>2, <1>3

\* The verdict is that of the evidence and the master.
Decided ==
    /\ evidence \in EvidenceShape /\ sheet \in Sheet \cup {NoSheet}
    /\ verdict # "none" => record = Reconcile(evidence)
    /\ verdict \in {"none", "extracted"} \/ verdict = Verify(sheet, record)

LEMMA DecidedInvariant == Spec => []Decided
<1>1. Init => Decided
  BY InputsAssumption DEF Init, Decided
<1>2. Decided /\ [Next]_vars => Decided'
  <2> SUFFICES ASSUME Decided, [Next]_vars PROVE Decided'
    OBVIOUS
  <2>1. CASE Extract
    BY <2>1 DEF Extract, Decided
  <2>2. CASE Decide
    BY <2>2 DEF Decide, Decided
  <2>3. CASE UNCHANGED vars
    BY <2>3 DEF vars, Decided
  <2> QED
    BY <2>1, <2>2, <2>3 DEF Next
<1> QED
  BY <1>1, <1>2, PTL DEF Spec

\* A verdict is that of the gate, on what Compare said of resolved fields.
LEMMA VerdictFrom ==
    ASSUME Decided, verdict \in {"approved", "failed"}
    PROVE  /\ record = Reconcile(evidence)
           /\ \A f \in Critical : record.fields[f] = Resolve(evidence, f)
           /\ verdict = Gate(Compare(sheet, record), record)
<1>1. record = Reconcile(evidence) /\ verdict = Verify(sheet, record)
  BY DEF Decided
<1> QED
  BY <1>1 DEF Reconcile, Verify

\* An automatic approval rests on one row that agrees in five fields, each read
\* in a checked line or by two passes and by more than any other value.
THEOREM ApprovalsAreEarned == Spec => []ApprovedIsConfirmed
<1>1. Decided => ApprovedIsConfirmed
  <2> DEFINE rows == RowsOf(sheet, record.fields["passport_number"].value)
  <2> SUFFICES ASSUME Decided, verdict = "approved"
               PROVE  /\ sheet # NoSheet /\ Cardinality(rows) = 1
                      /\ \A f \in Critical :
                          /\ Confirmed(evidence, f, record.fields[f].value)
                          /\ \A row \in rows : row.cells[f] = record.fields[f].value
    BY DEF ApprovedIsConfirmed
  <2>1. /\ \A f \in Critical : record.fields[f] = Resolve(evidence, f)
        /\ verdict = Gate(Compare(sheet, record), record)
    BY VerdictFrom
  <2>2. /\ Compare(sheet, record) = "approved"
        /\ \A f \in Critical : record.fields[f].trusted
    BY <2>1, GatePasses
  <2>3. \A f \in Critical : Confirmed(evidence, f, record.fields[f].value)
    BY <2>1, <2>2, TrustIsConfirmed DEF Decided
  <2>4. sheet \in Sheet /\ \E x : rows = {x} /\ Tier(x, record) = "approved"
    BY <2>2, CompareDecides DEF Decided
  <2>5. PICK x : rows = {x} /\ Tier(x, record) = "approved"
    BY <2>4
  <2>6. Having(x, record, "Match") = Critical
    BY <2>5 DEF Tier
  <2>7. \A f \in Critical : x.cells[f] = record.fields[f].value
    BY <2>6 DEF Having, FieldStatus
  <2>8. Cardinality(rows) = 1
    BY <2>5, FS_Singleton
  <2> QED
    BY <2>3, <2>4, <2>5, <2>7, <2>8, ValuesAssumption
<1> QED
  BY <1>1, DecidedInvariant, PTL

\* A failure is final only on a confirmed number, and never for fields that
\* are merely missing while three agree.
THEOREM FailuresAreEarned == Spec => []FailureIsOfKnownNumber
<1>1. Decided => FailureIsOfKnownNumber
  <2> DEFINE number == record.fields["passport_number"]
             rows == RowsOf(sheet, number.value)
  <2> SUFFICES ASSUME Decided, verdict = "failed"
               PROVE  /\ Confirmed(evidence, "passport_number", number.value)
                      /\ \A row \in rows :
                          \/ Having(row, record, "Mismatch") # {}
                          \/ Cardinality(Having(row, record, "Match")) < 3
    BY DEF FailureIsOfKnownNumber
  <2>0. "passport_number" \in Critical /\ IsFiniteSet(Critical)
    <3>1. IsFiniteSet({"passport_number", "dob", "gender"})
      <4>1. IsFiniteSet({"passport_number"})
        BY FS_Singleton
      <4>2. IsFiniteSet({"passport_number"} \cup {"dob"})
        BY <4>1, FS_AddElement
      <4>3. IsFiniteSet(({"passport_number"} \cup {"dob"}) \cup {"gender"})
        BY <4>2, FS_AddElement
      <4>4. ({"passport_number"} \cup {"dob"}) \cup {"gender"}
                = {"passport_number", "dob", "gender"}
        OBVIOUS
      <4> QED
        BY <4>3, <4>4
    <3> DEFINE three == {"passport_number", "dob", "gender"}
    <3>2. IsFiniteSet(three \cup {"date_of_issue"})
      BY <3>1, FS_AddElement
    <3>3. IsFiniteSet((three \cup {"date_of_issue"}) \cup {"date_of_expiry"})
      BY <3>2, FS_AddElement
    <3>4. (three \cup {"date_of_issue"}) \cup {"date_of_expiry"} = Critical
      BY DEF Critical
    <3>5. IsFiniteSet(Critical)
      BY <3>3, <3>4
    <3> QED
      BY <3>5 DEF Critical
  <2>1. /\ \A f \in Critical : record.fields[f] = Resolve(evidence, f)
        /\ verdict = Gate(Compare(sheet, record), record)
    BY VerdictFrom
  <2>2. Compare(sheet, record) = "failed" /\ number.trusted
    BY <2>1, GatePasses
  <2>3. Confirmed(evidence, "passport_number", number.value)
    BY <2>0, <2>1, <2>2, TrustIsConfirmed DEF Decided
  <2>4. rows = {} \/ \E x : rows = {x} /\ Tier(x, record) = "failed"
    <3>1. /\ sheet \in Sheet \cup {NoSheet}
          /\ Compare(sheet, record) \in {"approved", "failed"}
      BY <2>2 DEF Decided
    <3>2. rows = {} \/ \E x : rows = {x} /\ Compare(sheet, record) = Tier(x, record)
      BY <3>1, CompareDecides
    <3> QED
      BY <2>2, <3>2
  <2>5. ASSUME NEW x \in rows, Having(x, record, "Mismatch") = {}
        PROVE  Cardinality(Having(x, record, "Match")) < 3
    <3>1. Tier(x, record) = "failed"
      BY <2>4
    <3>2. ~(Cardinality(Having(x, record, "Match")) >= 3)
      BY <2>5, <3>1 DEF Tier
    <3>3. IsFiniteSet(Having(x, record, "Match"))
      BY <2>0, FS_Subset DEF Having
    <3>4. Cardinality(Having(x, record, "Match")) \in Nat
      BY <3>3, FS_CardinalityType
    <3> QED
      BY <3>2, <3>4
  <2> QED
    BY <2>3, <2>5
<1> QED
  BY <1>1, DecidedInvariant, PTL

(************************ One more pass that agrees *************************)

\* The two ways in which a field is trusted.
LEMMA TrustedOneWay ==
    ASSUME NEW e \in EvidenceShape, NEW f \in Critical, Resolve(e, f).trusted
    PROVE  \/ Cardinality(CheckedValues(e, f)) = 1
           \/ /\ CheckedValues(e, f) = {} /\ Resolve(e, f).value \in Value
              /\ Leaders(AllVotes(e, f)) = {Resolve(e, f).value}
              /\ Enough(AllVotes(e, f)[Resolve(e, f).value])
              /\ Resolve(e, f) = [value |-> Resolve(e, f).value, trusted |-> TRUE]
<1> DEFINE checked == CheckedValues(e, f)
           leaders == Leaders(AllVotes(e, f))
           v == CHOOSE u \in leaders : TRUE
<1> SUFFICES ASSUME Cardinality(checked) # 1
             PROVE  /\ checked = {} /\ Resolve(e, f).value \in Value
                    /\ leaders = {Resolve(e, f).value}
                    /\ Enough(AllVotes(e, f)[Resolve(e, f).value])
                    /\ Resolve(e, f) = [value |-> Resolve(e, f).value, trusted |-> TRUE]
  OBVIOUS
<1>1. checked = {} /\ Cardinality(leaders) = 1
  BY DEF Resolve, Untrusted
<1>2. leaders \subseteq Value /\ IsFiniteSet(leaders)
  BY ValuesAssumption, FS_Subset DEF Leaders
<1>3. leaders = {v} /\ v \in Value
  BY <1>1, <1>2, OnlyMember
<1>4. Resolve(e, f) = [value |-> v, trusted |-> Enough(AllVotes(e, f)[v])]
  <2>1. Cardinality({}) # 1
    BY FS_EmptySet
  <2> QED
    BY <1>1, <2>1 DEF Resolve
<1> HIDE DEF v, leaders
<1>5. Resolve(e, f).value = v /\ Enough(AllVotes(e, f)[v]) = TRUE
  <2>1. Enough(AllVotes(e, f)[v]) \in BOOLEAN
    BY DEF Enough
  <2> QED
    BY <1>4, <2>1
<1> QED
  BY <1>1, <1>3, <1>4, <1>5

\* What another vote for a value changes: the voters of that value.
HasVote(n, e, f, v, w) ==
    /\ n \in EvidenceShape
    /\ n.prefixes = e.prefixes /\ n.scanned = e.scanned /\ n.kept = e.kept
    /\ \A g \in Critical, u \in Value :
           n.printed[g][u] = IF g = f /\ u = v THEN e.printed[g][u] \cup {w}
                             ELSE e.printed[g][u]
LEMMA VoteAdded ==
    ASSUME NEW e \in EvidenceShape, NEW f \in Critical, NEW v \in Value, NEW w \in Voter
    PROVE  HasVote(AddVote(e, f, v, w), e, f, v, w)
<1> PICK n : n = AddVote(e, f, v, w)
  OBVIOUS
<1>1. /\ e.printed \in [Critical -> [Value -> SUBSET Voter]]
      /\ e = [prefixes |-> e.prefixes, printed |-> e.printed, scanned |-> e.scanned,
              kept |-> e.kept]
  BY DEF EvidenceShape
<1> DEFINE printed == [e.printed EXCEPT ![f][v] = @ \cup {w}]
<1>2. /\ printed \in [Critical -> [Value -> SUBSET Voter]]
      /\ \A g \in Critical, u \in Value :
             printed[g][u] = IF g = f /\ u = v THEN e.printed[g][u] \cup {w}
                             ELSE e.printed[g][u]
  BY <1>1
<1>3. n = [e EXCEPT !.printed = printed]
  BY <1>1 DEF AddVote
<1> HIDE DEF printed
<1>4. /\ n.prefixes = e.prefixes /\ n.scanned = e.scanned /\ n.kept = e.kept
      /\ n.printed = printed
  BY <1>1, <1>3
<1>5. n \in EvidenceShape
  BY <1>2, <1>3 DEF EvidenceShape
<1>6. HasVote(n, e, f, v, w)
  BY <1>2, <1>4, <1>5 DEF HasVote
<1> QED
  BY <1>6

\* A single checked value is the value of its field.
LEMMA CheckedResolves ==
    ASSUME NEW e, NEW f, Cardinality(CheckedValues(e, f)) = 1
    PROVE  Resolve(e, f) = [value |-> CHOOSE u \in CheckedValues(e, f) : TRUE, trusted |-> TRUE]
BY DEF Resolve

\* All that a field is resolved from.
LEMMA SameResolve ==
    ASSUME NEW e, NEW n, NEW g, CheckedValues(n, g) = CheckedValues(e, g),
           AllVotes(n, g) = AllVotes(e, g), n.kept = e.kept
    PROVE  Resolve(n, g) = Resolve(e, g)
BY Zenon DEF Resolve, KeptIfAmong

\* Another vote for the value of a trusted field resolves every field alike.
LEMMA VoteResolvesAlike ==
    ASSUME NEW e \in EvidenceShape, NEW f \in Critical, NEW w \in Voter,
           Resolve(e, f).trusted, NEW v \in Value, v = Resolve(e, f).value,
           NEW g \in Critical
    PROVE  Resolve(AddVote(e, f, v, w), g) = Resolve(e, g)
<1> PICK n : n = AddVote(e, f, v, w)
  OBVIOUS
<1>1. HasVote(n, e, f, v, w)
  BY VoteAdded
<1>2. CheckedValues(n, g) = CheckedValues(e, g)
  BY <1>1 DEF HasVote, CheckedValues
<1>3. \A u \in Value : Votes(n, g, u) = IF g = f /\ u = v THEN Votes(e, g, u) \cup {w}
                                        ELSE Votes(e, g, u)
  BY <1>1 DEF HasVote, Votes
<1>4. CASE g # f
  <2>1. \A u \in Value : Votes(n, g, u) = Votes(e, g, u)
    BY <1>3, <1>4
  <2>2. AllVotes(n, g) = AllVotes(e, g)
    BY <1>1, <2>1 DEF HasVote, AllVotes
  <2> QED
    BY <1>1, <1>2, <2>2, SameResolve DEF HasVote
<1>5. CASE g = f /\ Cardinality(CheckedValues(e, f)) = 1
  BY <1>2, <1>5, CheckedResolves
<1>6. CASE g = f /\ Cardinality(CheckedValues(e, f)) # 1
  <2> DEFINE N(d, u) == Cardinality(Votes(d, f, u))
  <2>1. /\ CheckedValues(e, f) = {} /\ Leaders(AllVotes(e, f)) = {v}
        /\ Enough(AllVotes(e, f)[v])
        /\ Resolve(e, f) = [value |-> v, trusted |-> TRUE]
    BY <1>6, TrustedOneWay
  <2>2. N(e, v) >= 2 /\ \A u \in Value \ {v} : N(e, u) < N(e, v)
    BY <2>1, SoleLeader
  <2>3. \A u \in Value \ {v} : Votes(n, f, u) = Votes(e, f, u)
    BY <1>3, <1>6
  <2>4. N(n, v) \in Nat /\ N(e, v) \in Nat /\ N(e, v) <= N(n, v)
    <3>1. Votes(e, f, v) \subseteq Votes(n, f, v)
      BY <1>3, <1>6
    <3> QED
      BY <1>1, <3>1, VotesFinite, FS_Subset DEF HasVote
  <2>5. /\ \A u \in Value : N(n, u) \in Nat
        /\ \A u \in Value \ {v} : N(n, u) < N(n, v)
    <3>1. \A u \in Value : N(n, u) \in Nat
      BY <1>1, VotesFinite DEF HasVote
    <3> QED
      BY <2>2, <2>3, <2>4, <3>1
  <2>6. Votes(n, f, v) # {}
    BY <2>2, <2>4, FS_EmptySet
  <2>7. AllVotes(n, f) = [u \in Value |-> Votes(n, f, u)]
    BY <2>6 DEF AllVotes
  <2>8. Leaders(AllVotes(n, f)) = {v}
    BY <2>5, <2>6, <2>7 DEF Leaders
  <2>9. Enough(AllVotes(n, f)[v])
    BY <2>2, <2>4, <2>7 DEF Enough
  <2>10. Cardinality({v}) = 1 /\ Cardinality({}) = 0
    BY FS_Singleton, FS_EmptySet
  <2>11. Resolve(n, f) = [value |-> v, trusted |-> Enough(AllVotes(n, f)[v])]
    BY <1>2, <1>6, <2>1, <2>8, <2>10 DEF Resolve
  <2>12. Enough(AllVotes(n, f)[v]) = TRUE
    <3>1. Enough(AllVotes(n, f)[v]) \in BOOLEAN
      BY DEF Enough
    <3> QED
      BY <2>9, <3>1
  <2> QED
    BY <1>6, <2>1, <2>11, <2>12
<1> QED
  BY <1>4, <1>5, <1>6

\* One more pass that reads what was approved leaves the approval.
THEOREM AgreementHelps == Spec => []AgreementNeverHurts
<1>1. Decided => AgreementNeverHurts
  <2> SUFFICES ASSUME Decided, verdict = "approved", NEW f \in Critical, NEW w \in Voter
               PROVE  Verify(sheet, Reconcile(AddVote(evidence, f, record.fields[f].value, w)))
                          = "approved"
    BY DEF AgreementNeverHurts
  <2> DEFINE v == record.fields[f].value
             n == AddVote(evidence, f, v, w)
  <2>1. /\ evidence \in EvidenceShape /\ record = Reconcile(evidence)
        /\ \A g \in Critical : record.fields[g] = Resolve(evidence, g)
        /\ verdict = Gate(Compare(sheet, record), record)
    BY VerdictFrom DEF Decided
  <2>2. Resolve(evidence, f).trusted /\ v = Resolve(evidence, f).value
    BY <2>1, GatePasses
  <2>3. v \in Value
    <3>1. CASE CheckedValues(evidence, f) = {v}
      BY <2>1, <3>1, CheckedFinite
    <3>2. CASE CheckedValues(evidence, f) # {v}
      <4>1. Cardinality(CheckedValues(evidence, f)) # 1
        BY <2>1, <2>2, <3>2, CheckedFinite, OnlyMember DEF Resolve
      <4> QED
        BY <2>1, <2>2, <4>1, TrustedOneWay
    <3> QED
      BY <3>1, <3>2
  <2> HIDE DEF v
  <2>4. \A g \in Critical : Resolve(n, g) = Resolve(evidence, g)
    BY <2>1, <2>2, <2>3, VoteResolvesAlike
  <2>5. n.prefixes = evidence.prefixes
    BY <2>1, <2>3, VoteAdded DEF HasVote
  <2> HIDE DEF n
  <2>6. CheckedValues(n, "passport_number") = CheckedValues(evidence, "passport_number")
    BY <2>5 DEF CheckedValues
  <2>7. Reconcile(n) = Reconcile(evidence)
    BY <2>4, <2>6 DEF Reconcile
  <2>8. Verify(sheet, Reconcile(n)) = "approved"
    BY <2>1, <2>7 DEF Verify
  <2> QED
    BY <2>8 DEF n, v
<1> QED
  BY <1>1, DecidedInvariant, PTL

=============================================================================
