-------------------------- MODULE TransactionsProofs --------------------------
(* What holds of the transactions of PassportVault for every number of      *)
(* writers, records and files: their locks can deadlock only where several  *)
(* documents are locked at once, uploads are serialized, and the log tells  *)
(* of every record what happened to it.  The log itself is intact and only  *)
(* grows, for every content and every order and failure of its writers.     *)
EXTENDS Transactions, FiniteSetTheorems, WellFoundedInduction, TLAPS

(************************** The log by itself ******************************)

LEMMA EntryTyped ==
    ASSUME TypeOK, NEW w \in Writer, NEW c \in Content
    PROVE  /\ SeenHead(w) \in Digests
           /\ NewEntry(w, c) \in Entry /\ NewEntry(w, c).digest \in Digests
           /\ NewEntry(w, c).id = sequence + 1
           /\ NewEntry(w, c).previous = SeenHead(w)
           /\ NewEntry(w, c).content = c
           /\ NewEntry(w, c).digest = Digest(SeenHead(w), c)
<1>1. SeenHead(w) \in Digests
  BY DEF SeenHead, TypeOK, Transaction
<1>2. Digest(SeenHead(w), c) \in Digests
  BY <1>1 DEF Digest, Digests
<1>3. sequence + 1 \in Nat
  BY DEF TypeOK
<1> QED
  BY <1>1, <1>2, <1>3 DEF NewEntry, Entry

LEMMA LastTyped ==
    ASSUME NEW S \in SUBSET Entry PROVE LastDigest(S) \in Digests
  BY DEF LastDigest, Genesis, Digests, Entry

\* The rows, the transactions and the verifier hold values of their columns.
THEOREM TypeCorrect == Spec => []TypeOK
<1>0. /\ NoTransaction \in Transaction /\ NotStarted \in Verifier
      /\ Genesis \in Digests
  <2>1. Genesis \in Digests
    BY DEF Genesis, Digests
  <2> QED
    BY <2>1 DEF NoTransaction, Transaction, NotStarted, Verifier, Report
<1>1. Init => TypeOK
  <2> SUFFICES ASSUME Init PROVE TypeOK
    OBVIOUS
  <2>1. damaged \in BOOLEAN
    BY DEF Init
  <2>2. sequence \in Nat /\ entries \subseteq Entry /\ head \in Digests
    BY <1>0 DEF Init
  <2>3. tx \in [Writer -> Transaction] /\ verifier \in Verifier
    BY <1>0 DEF Init
  <2> QED
    BY <2>1, <2>2, <2>3 DEF TypeOK
<1>2. TypeOK /\ [Next]_vars => TypeOK'
  <2> SUFFICES ASSUME TypeOK, [Next]_vars PROVE TypeOK'
    OBVIOUS
  <2>1. ASSUME NEW w \in Writer, NEW c \in Content, Event(w, c) PROVE TypeOK'
    <3> DEFINE t == [open |-> TRUE, head |-> NewEntry(w, c).digest,
                     rows |-> tx[w].rows \cup {NewEntry(w, c)}]
    <3>1. t \in Transaction
      BY EntryTyped DEF TypeOK, Transaction
    <3>2. tx' = [tx EXCEPT ![w] = t] /\ sequence' = sequence + 1
      BY <2>1 DEF Event
    <3> HIDE DEF t
    <3>3. tx' \in [Writer -> Transaction] /\ sequence' \in Nat
      BY <3>1, <3>2 DEF TypeOK
    <3> QED
      BY <2>1, <3>3 DEF Event, TypeOK
  <2>2. ASSUME NEW w \in Writer, Commit(w) PROVE TypeOK'
    BY <1>0, <2>2 DEF Commit, TypeOK, Transaction
  <2>3. ASSUME NEW w \in Writer, Abort(w) PROVE TypeOK'
    BY <1>0, <2>3 DEF Abort, TypeOK
  <2>4. CASE Scan
    <3>1. LastDigest(entries) \in Digests
      BY LastTyped DEF TypeOK
    <3> DEFINE scanned == [scanned |-> TRUE, last |-> LastDigest(entries),
                           report |-> ""]
               invalid == [NotStarted EXCEPT !.report = "AUDIT CHAIN INVALID"]
    <3>2. scanned \in Verifier
      BY <3>1 DEF Verifier, Report
    <3>3. invalid \in Verifier
      BY <1>0 DEF Verifier, Report
    <3>4. verifier' \in {scanned, invalid}
      BY <2>4 DEF Scan
    <3> HIDE DEF scanned, invalid
    <3> QED
      BY <2>4, <3>2, <3>3, <3>4 DEF Scan, TypeOK
  <2>5. CASE ReadHead
    BY <2>5 DEF ReadHead, TypeOK, Verifier, Report
  <2>6. CASE Damage
    BY <2>6 DEF Damage, TypeOK, Entry
  <2>7. CASE UNCHANGED vars
    BY <2>7 DEF vars, TypeOK
  <2> QED
    BY <2>1, <2>2, <2>3, <2>4, <2>5, <2>6, <2>7 DEF Next
<1> QED
  BY <1>1, <1>2, PTL DEF Spec

(************************* The chain is intact *****************************)

\* The rows a transaction would leave behind, were it committed now.
After(w) == entries \cup tx[w].rows

\* One transaction at a time holds the head.  Ids are drawn under the lock, so
\* those of its entries follow all the committed ones.  Undamaged, the rows are
\* a chain to the head, and so are they with the open transaction's.
ChainInv ==
    /\ \A v, w \in Writer : tx[v].open /\ tx[w].open => v = w
    /\ \A w \in Writer : ~tx[w].open => tx[w] = NoTransaction
    /\ \A e \in entries : e.id <= sequence
    /\ \A w \in Writer : \A r \in tx[w].rows :
           r.id <= sequence /\ \A e \in entries : e.id < r.id
    /\ ~damaged =>
           /\ Linked(entries) /\ head = LastDigest(entries)
           /\ \A w \in Writer : tx[w].open =>
                  Linked(After(w)) /\ tx[w].head = LastDigest(After(w))

\* An entry made from the last digest, with an id above all others, extends
\* the chain and becomes its last.
LEMMA Extends ==
    ASSUME NEW S \in SUBSET Entry, Linked(S), NEW n \in Entry,
           \A e \in S : e.id < n.id, n.previous = LastDigest(S),
           n.digest = Digest(n.previous, n.content)
    PROVE  Linked(S \cup {n}) /\ LastDigest(S \cup {n}) = n.digest
<1> DEFINE T == S \cup {n}
<1>0. \A e \in T : e.id \in Nat
  BY DEF Entry
<1>1. Before(T, n) = S /\ \A e \in S : Before(T, e) = Before(S, e)
  BY <1>0 DEF Before
<1>2. Linked(T)
  BY <1>1 DEF Linked, Links
<1>3. n \in T /\ IsLast(T, n) /\ \A e \in T : IsLast(T, e) => e = n
  BY <1>0 DEF IsLast
<1>4. LastDigest(T) = n.digest
  BY <1>3 DEF LastDigest
<1> QED
  BY <1>2, <1>4

LEMMA EmptyChain == Linked({}) /\ LastDigest({}) = Genesis
  BY DEF Linked, LastDigest

LEMMA EventExtends ==
    ASSUME TypeOK, ChainInv, NEW w \in Writer, NEW c \in Content, Event(w, c)
    PROVE  ChainInv'
<1> DEFINE n == NewEntry(w, c)
<1>1. /\ sequence' = sequence + 1 /\ sequence \in Nat
      /\ entries' = entries /\ head' = head /\ damaged' = damaged
      /\ tx'[w].open /\ tx'[w].head = n.digest /\ tx'[w].rows = tx[w].rows \cup {n}
      /\ \A v \in Writer \ {w} : tx'[v] = tx[v] /\ ~tx[v].open
  BY DEF Event, HeadFree, TypeOK, Transaction
<1>2. n \in Entry /\ n.id = sequence + 1
  BY EntryTyped
<1>3. \A e \in entries \cup tx[w].rows : e.id \in Nat /\ e.id <= sequence
  BY DEF TypeOK, Transaction, Entry, ChainInv
<1>4. /\ \A u, v \in Writer : tx'[u].open /\ tx'[v].open => u = v
      /\ \A v \in Writer : ~tx'[v].open => tx'[v] = NoTransaction
  BY <1>1 DEF ChainInv
<1>5. \A e \in entries' : e.id <= sequence'
  BY <1>1, <1>3
<1>6. \A v \in Writer : \A r \in tx'[v].rows :
          r.id <= sequence' /\ \A e \in entries' : e.id < r.id
  <2>1. \A v \in Writer \ {w} : tx'[v].rows = {}
    BY <1>1 DEF ChainInv, NoTransaction
  <2>2. \A r \in tx[w].rows \cup {n} :
            r.id <= sequence + 1 /\ \A e \in entries : e.id < r.id
    BY <1>1, <1>2, <1>3 DEF ChainInv
  <2> QED
    BY <1>1, <2>1, <2>2
<1>7. ASSUME ~damaged
      PROVE  /\ Linked(entries') /\ head' = LastDigest(entries')
             /\ Linked(After(w)') /\ tx'[w].head = LastDigest(After(w)')
  <2>1. Linked(entries) /\ head = LastDigest(entries)
    BY <1>7 DEF ChainInv
  <2>2. Linked(After(w)) /\ SeenHead(w) = LastDigest(After(w))
    <3>1. CASE tx[w].open
      BY <1>7, <3>1 DEF ChainInv, SeenHead
    <3>2. CASE ~tx[w].open
      <4>1. After(w) = entries
        BY <3>2 DEF ChainInv, After, NoTransaction
      <4> QED
        BY <2>1, <3>2, <4>1 DEF SeenHead
    <3> QED
      BY <3>1, <3>2
  <2>3. After(w)' = After(w) \cup {n}
    BY <1>1 DEF After
  <2>4. /\ After(w) \in SUBSET Entry /\ n \in Entry
        /\ \A e \in After(w) : e.id < n.id
        /\ n.previous = LastDigest(After(w))
        /\ n.digest = Digest(n.previous, n.content)
    <3>1. After(w) \in SUBSET Entry
      BY DEF After, TypeOK, Transaction
    <3>2. \A e \in After(w) : e.id < n.id
      BY <1>1, <1>2, <1>3 DEF After
    <3> QED
      BY <2>2, <3>1, <3>2, EntryTyped
  <2>5. Linked(After(w) \cup {n}) /\ LastDigest(After(w) \cup {n}) = n.digest
    BY <2>2, <2>4, Extends
  <2> QED
    BY <1>1, <2>1, <2>3, <2>5
<1>8. ~damaged' => /\ Linked(entries') /\ head' = LastDigest(entries')
                   /\ \A v \in Writer : tx'[v].open =>
                          /\ Linked(After(v)')
                          /\ tx'[v].head = LastDigest(After(v)')
  BY <1>1, <1>7
<1> QED
  BY <1>4, <1>5, <1>6, <1>8 DEF ChainInv

LEMMA NextKeepsChain ==
    ASSUME TypeOK, ChainInv, [Next]_vars PROVE ChainInv'
<1>1. ASSUME NEW w \in Writer, Commit(w) PROVE ChainInv'
  <2>1. /\ entries' = After(w) /\ head' = tx[w].head /\ tx[w].open
        /\ tx' = [v \in Writer |-> NoTransaction]
        /\ sequence' = sequence /\ damaged' = damaged
    BY <1>1 DEF Commit, After, ChainInv, TypeOK
  <2>2. \A e \in After(w) : e.id <= sequence
    BY DEF ChainInv, After
  <2>3. ~damaged => Linked(After(w)) /\ tx[w].head = LastDigest(After(w))
    BY <2>1 DEF ChainInv
  <2>4. ~NoTransaction.open /\ NoTransaction.rows = {}
    BY DEF NoTransaction
  <2> QED
    BY <2>1, <2>2, <2>3, <2>4 DEF ChainInv
<1>2. ASSUME NEW w \in Writer, Abort(w) PROVE ChainInv'
  <2>1. /\ tx'[w] = NoTransaction /\ \A v \in Writer \ {w} : tx'[v] = tx[v]
        /\ UNCHANGED <<entries, head, sequence, damaged>>
    BY <1>2 DEF Abort, TypeOK
  <2>2. ~NoTransaction.open /\ NoTransaction.rows = {}
    BY DEF NoTransaction
  <2> QED
    BY <2>1, <2>2 DEF ChainInv, After
<1>3. CASE Scan \/ ReadHead \/ UNCHANGED vars
  <2>1. UNCHANGED <<entries, head, sequence, tx, damaged>>
    BY <1>3 DEF Scan, ReadHead, vars
  <2> QED
    BY <2>1 DEF ChainInv, After
<1>4. CASE Damage
  <2>1. /\ damaged' /\ UNCHANGED <<sequence, tx>>
        /\ \A n \in entries' : \E e \in entries : n.id = e.id
    BY <1>4 DEF Damage, TypeOK, Entry
  <2> QED
    BY <2>1 DEF ChainInv
<1> QED
  BY <1>1, <1>2, <1>3, <1>4, EventExtends DEF Next

LEMMA ChainInvariant == Spec => []ChainInv
<1>1. Init => ChainInv
  <2> SUFFICES ASSUME Init PROVE ChainInv
    OBVIOUS
  <2>1. \A w \in Writer : tx[w] = NoTransaction
    BY DEF Init
  <2>2. ~NoTransaction.open /\ NoTransaction.rows = {}
    BY DEF NoTransaction
  <2> QED
    BY <2>1, <2>2, EmptyChain DEF Init, ChainInv
<1>2. TypeOK /\ ChainInv /\ [Next]_vars => ChainInv'
  BY NextKeepsChain
<1> QED
  BY <1>1, <1>2, TypeCorrect, PTL DEF Spec

\* However the transactions that record events interleave, record several
\* entries, fail or die, the committed entries are one chain to the head.
THEOREM ChainIsIntact == Spec => []ChainIntact
<1>1. ChainInv => ChainIntact
  BY DEF ChainInv, ChainIntact
<1> QED
  BY <1>1, ChainInvariant, PTL

\* The log only grows, and only at its end.
THEOREM LogOnlyGrows == Spec => AppendOnly
<1>1. TypeOK /\ ChainInv /\ [Next]_vars =>
          [~damaged' => /\ entries \subseteq entries'
                        /\ \A e \in entries, n \in entries' \ entries :
                               e.id < n.id]_vars
  <2> SUFFICES ASSUME TypeOK, ChainInv, [Next]_vars, ~damaged'
               PROVE  /\ entries \subseteq entries'
                      /\ \A e \in entries, n \in entries' \ entries : e.id < n.id
    OBVIOUS
  <2>1. ASSUME NEW w \in Writer, Commit(w)
        PROVE  /\ entries \subseteq entries'
               /\ \A e \in entries, n \in entries' \ entries : e.id < n.id
    BY <2>1 DEF Commit, ChainInv
  <2>2. CASE entries' = entries
    BY <2>2
  <2>3. ~Damage
    BY DEF Damage
  <2> QED
    BY <2>1, <2>2, <2>3 DEF Next, Event, Abort, Scan, ReadHead, vars
<1> QED
  BY <1>1, TypeCorrect, ChainInvariant, PTL DEF Spec, AppendOnly

(************************ Types and the log's steps ************************)

RowsOK == record \in [DocId -> Record] /\ request \in [Writer -> Request]

DocumentsOf(D) == {Document(d) : d \in D}

LEMMA DocIdsFinite ==
    /\ DocId \subseteq Nat /\ IsFiniteSet(DocId)
    /\ \A D \in SUBSET DocId : IsFiniteSet(D) /\ Cardinality(D) \in Nat
<1>1. DocId \subseteq Nat /\ IsFiniteSet(DocId)
  BY FS_Interval, TransactionsAssumption DEF DocId
<1> QED
  BY <1>1, FS_Subset, FS_CardinalityType

\* The query of a statement that locks several documents meets each of them.
LEMMA OrderMeetsAll ==
    ASSUME NEW D \in SUBSET DocId, NEW s \in Orders(D)
    PROVE  /\ s \in Seq(LockedRow)
           /\ \A i \in DOMAIN s : s[i] \in DocumentsOf(D)
           /\ \A d \in D : \E i \in DOMAIN s : s[i] = Document(d)
<1> DEFINE T == DocumentsOf(D)
           n == Cardinality(D)
           f == [d \in D |-> Document(d)]
<1>1. n \in Nat /\ s \in [1..n -> T]
  BY DocIdsFinite DEF Orders, DocumentsOf
<1>2. T \subseteq LockedRow
  BY DEF DocumentsOf, LockedRow
<1>3. s \in Seq(LockedRow)
  BY <1>1, <1>2
<1>4. f \in Bijection(D, T)
  BY DEF DocumentsOf, Document, Bijection, Injection, Surjection, IsInjective
<1>5. IsFiniteSet(T) /\ Cardinality(T) = n
  <2>1. IsFiniteSet(D)
    BY DocIdsFinite
  <2>2. ExistsBijection(D, T)
    BY <1>4 DEF ExistsBijection
  <2> HIDE DEF T
  <2> QED
    BY <2>1, <2>2, FS_Bijection
<1>6. IsFiniteSet(1..n) /\ Cardinality(1..n) = n
  BY <1>1, FS_Interval
<1>7. s \in Injection(1..n, T)
  BY <1>1 DEF Orders, Injection, IsInjective
<1>8. s \in Surjection(1..n, T)
  <2> HIDE DEF T, n
  <2> QED
    BY <1>5, <1>6, <1>7, FS_Injection
<1>9. \A d \in D : \E i \in DOMAIN s : s[i] = Document(d)
  BY <1>1, <1>8 DEF Surjection, DocumentsOf
<1> QED
  BY <1>1, <1>3, <1>9

LEMMA IdleTyped == Idle \in Request
<1>1. <<>> \in Seq(LockedRow)
  OBVIOUS
<1> QED
  BY <1>1 DEF Idle, Request

LEMMA PlanTyped == ASSUME NEW kind PROVE Plan(kind) \in Seq(LockedRow)
<1>1. Owner \in LockedRow /\ Guard \in LockedRow
  BY DEF LockedRow
<1> QED
  BY <1>1 DEF Plan

\* What a request asks for when it begins.
NewRequest(w, r) ==
    \/ \E f \in File : r = [Idle EXCEPT !.kind = "upload", !.file = f, !.todo = Plan("upload")]
    \/ r = [Idle EXCEPT !.kind = "login", !.todo = Plan("login")]
    \/ Exists(1) /\ r = [Idle EXCEPT !.kind = "view", !.targets = {1}]
    \/ \E kind \in Single, d \in DocId :
           r = [Idle EXCEPT !.kind = kind, !.targets = {d}, !.todo = <<Document(d)>>]
    \/ \E kind \in Several, D \in SUBSET DocId : \E s \in Orders(D) :
           D # {} /\ r = [Idle EXCEPT !.kind = kind, !.targets = D, !.todo = s]
BeginStep(w) == \E r : NewRequest(w, r) /\ Begin(w, r)

\* The ways a request goes on.
LEMMA Steps ==
    ASSUME TransactionsNext
    PROVE  \/ \E w \in Writer : \/ BeginStep(w)
                                \/ Lock(w) \/ Admit(w) \/ Succeed(w) \/ Fail(w)
                                \/ \E d \in DocId : Tell(w, d)
           \/ \E d \in DocId : Claim(d)
<1>1. ASSUME NEW w \in Writer, NEW f \in File, BeginUpload(w, f) PROVE BeginStep(w)
  BY <1>1 DEF BeginUpload, BeginStep, NewRequest
<1>2. ASSUME NEW w \in Writer, BeginLogin(w) PROVE BeginStep(w)
  BY <1>2 DEF BeginLogin, BeginStep, NewRequest
<1>3. ASSUME NEW w \in Writer, BeginView(w) PROVE BeginStep(w)
  BY <1>3 DEF BeginView, BeginStep, NewRequest
<1>4. ASSUME NEW w \in Writer, NEW kind \in Single, NEW d \in DocId, BeginSingle(w, kind, d)
      PROVE  BeginStep(w)
  BY <1>4 DEF BeginSingle, BeginStep, NewRequest
<1>5. ASSUME NEW w \in Writer, NEW kind \in Several, NEW D \in (SUBSET DocId) \ {{}},
             BeginSeveral(w, kind, D)
      PROVE  BeginStep(w)
  <2>1. PICK s \in Orders(D) :
            Begin(w, [Idle EXCEPT !.kind = kind, !.targets = D, !.todo = s])
    BY <1>5 DEF BeginSeveral
  <2> DEFINE r == [Idle EXCEPT !.kind = kind, !.targets = D, !.todo = s]
  <2>2. D \in SUBSET DocId /\ D # {}
    OBVIOUS
  <2>3. NewRequest(w, r)
    BY <2>2 DEF NewRequest
  <2> HIDE DEF r
  <2>4. Begin(w, r)
    BY <2>1 DEF r
  <2> QED
    BY <2>3, <2>4 DEF BeginStep
<1> QED
  BY <1>1, <1>2, <1>3, <1>4, <1>5 DEF TransactionsNext

LEMMA NewRequestTyped ==
    ASSUME NEW w \in Writer, NEW r, NewRequest(w, r) PROVE r \in Request
<1>0. 1 \in DocId
  BY TransactionsAssumption DEF DocId
<1>1. ASSUME NEW f \in File,
             r = [Idle EXCEPT !.kind = "upload", !.file = f, !.todo = Plan("upload")]
      PROVE  r \in Request
  BY <1>1, IdleTyped, PlanTyped DEF Request
<1>2. CASE r = [Idle EXCEPT !.kind = "login", !.todo = Plan("login")]
  BY <1>2, IdleTyped, PlanTyped DEF Request
<1>3. CASE r = [Idle EXCEPT !.kind = "view", !.targets = {1}]
  BY <1>0, <1>3, IdleTyped DEF Request
<1>4. ASSUME NEW kind \in Single, NEW d \in DocId,
             r = [Idle EXCEPT !.kind = kind, !.targets = {d}, !.todo = <<Document(d)>>]
      PROVE  r \in Request
  <2>1. <<Document(d)>> \in Seq(LockedRow)
    BY DEF LockedRow
  <2> QED
    BY <1>4, <2>1, IdleTyped DEF Request
<1>5. ASSUME NEW kind \in Several, NEW D \in SUBSET DocId, NEW s \in Orders(D),
             r = [Idle EXCEPT !.kind = kind, !.targets = D, !.todo = s]
      PROVE  r \in Request
  BY <1>5, IdleTyped, OrderMeetsAll DEF Request
<1> QED
  BY <1>1, <1>2, <1>3, <1>4, <1>5 DEF NewRequest

\* A request locks the next row.
LEMMA LockStep ==
    ASSUME RowsOK, NEW w \in Writer, Lock(w)
    PROVE  LET r == request[w]  q == request'[w] IN
           /\ r.todo # <<>> /\ q \in Request /\ request' \in [Writer -> Request]
           /\ \A v \in Writer \ {w} : request'[v] = request[v]
           /\ q.kind = r.kind /\ q.file = r.file /\ q.targets = r.targets /\ q.told = r.told
           /\ q.held = r.held \cup {Head(r.todo)} /\ q.todo = Tail(r.todo)
           /\ UNCHANGED record /\ UNCHANGED vars
<1> DEFINE r == request[w]
           q == [r EXCEPT !.held = @ \cup {Head(r.todo)}, !.todo = Tail(@)]
<1>1. r \in Request /\ r.todo # <<>>
  BY DEF RowsOK, Lock
<1>2. r.todo \in Seq(LockedRow) /\ Head(r.todo) \in LockedRow /\ Tail(r.todo) \in Seq(LockedRow)
  BY <1>1 DEF Request
<1>3. q \in Request
  BY <1>1, <1>2 DEF Request
<1>4. request' = [request EXCEPT ![w] = q]
  BY DEF Lock
<1>5. /\ q.kind = r.kind /\ q.file = r.file /\ q.targets = r.targets /\ q.told = r.told
      /\ q.held = r.held \cup {Head(r.todo)} /\ q.todo = Tail(r.todo)
  BY <1>1 DEF Request
<1>6. UNCHANGED record /\ UNCHANGED vars
  BY DEF Lock, logVars, vars
<1> HIDE DEF q
<1>7. request'[w] = q /\ request' \in [Writer -> Request]
      /\ \A v \in Writer \ {w} : request'[v] = request[v]
  BY <1>3, <1>4 DEF RowsOK
<1> QED
  BY <1>1, <1>3, <1>5, <1>6, <1>7

\* An upload is admitted under the owner's lock.
LEMMA AdmitStep ==
    ASSUME RowsOK, NEW w \in Writer, Admit(w)
    PROVE  LET r == request[w]  q == request'[w] IN
           /\ r.kind = "upload" /\ r.todo = <<>> /\ r.targets = {} /\ Admitted(r.file)
           /\ q \in Request /\ request' \in [Writer -> Request]
           /\ \A v \in Writer \ {w} : request'[v] = request[v]
           /\ q.kind = r.kind /\ q.file = r.file /\ q.told = r.told
           /\ q.held = r.held /\ q.todo = r.todo
           /\ \E d \in DocId : q.targets = {d} /\ record[d].stage = "absent"
           /\ UNCHANGED record /\ UNCHANGED vars
<1>1. PICK d \in DocId : NewDoc(d) /\ request' = [request EXCEPT ![w].targets = {d}]
  BY DEF Admit
<1> DEFINE r == request[w]
           q == [r EXCEPT !.targets = {d}]
<1>2. r \in Request
  BY DEF RowsOK
<1>3. /\ q \in Request /\ q.kind = r.kind /\ q.file = r.file /\ q.told = r.told
      /\ q.held = r.held /\ q.todo = r.todo /\ q.targets = {d}
  BY <1>2 DEF Request
<1>4. request' = [request EXCEPT ![w] = q]
  BY <1>1
<1> HIDE DEF q
<1>5. request'[w] = q /\ request' \in [Writer -> Request]
      /\ \A v \in Writer \ {w} : request'[v] = request[v]
  BY <1>3, <1>4 DEF RowsOK
<1>6. record[d].stage = "absent"
  BY <1>1 DEF NewDoc
<1>7. /\ r.kind = "upload" /\ r.todo = <<>> /\ r.targets = {} /\ Admitted(r.file)
      /\ UNCHANGED record /\ UNCHANGED vars
  BY DEF Admit, logVars, vars
<1> QED
  BY <1>3, <1>5, <1>6, <1>7

\* A request records an event.
LEMMA TellStep ==
    ASSUME RowsOK, NEW w \in Writer, NEW d \in DocId, Tell(w, d)
    PROVE  LET r == request[w]  q == request'[w] IN
           /\ r.kind \in Logged /\ d \in r.targets /\ d \notin r.told
           /\ r.todo = <<>> /\ Allowed(w)
           /\ q \in Request /\ request' \in [Writer -> Request]
           /\ \A v \in Writer \ {w} : request'[v] = request[v]
           /\ q.kind = r.kind /\ q.file = r.file /\ q.targets = r.targets
           /\ q.held = r.held /\ q.todo = r.todo /\ q.told = r.told \cup {d}
           /\ <<ActionOf(r.kind), d>> \in Content
           /\ Event(w, <<ActionOf(r.kind), d>>)
           /\ UNCHANGED record
<1> DEFINE r == request[w]
           q == [r EXCEPT !.told = @ \cup {d}]
<1>1. r \in Request
  BY DEF RowsOK
<1>2. /\ r.kind \in Logged /\ d \in r.targets /\ d \notin r.told
      /\ r.todo = <<>> /\ Allowed(w) /\ Event(w, <<ActionOf(r.kind), d>>)
      /\ UNCHANGED record
  BY DEF Tell, Ready
<1>3. /\ q \in Request /\ q.kind = r.kind /\ q.file = r.file /\ q.targets = r.targets
      /\ q.held = r.held /\ q.todo = r.todo /\ q.told = r.told \cup {d}
  BY <1>1 DEF Request
<1>4. request' = [request EXCEPT ![w] = q]
  BY DEF Tell
<1>5. ActionOf(r.kind) \in Action
  BY <1>2 DEF ActionOf, Action, Logged, Single
<1>6. <<ActionOf(r.kind), d>> \in Content
  BY <1>5, TransactionsAssumption
<1> HIDE DEF q
<1>7. request'[w] = q /\ request' \in [Writer -> Request]
      /\ \A v \in Writer \ {w} : request'[v] = request[v]
  BY <1>3, <1>4 DEF RowsOK
<1> QED
  BY <1>2, <1>3, <1>6, <1>7

\* A transaction ends, with its rows written or not.
LEMMA EndStep ==
    ASSUME RowsOK, NEW w \in Writer, Succeed(w) \/ Fail(w)
    PROVE  /\ request'[w] = Idle /\ request' \in [Writer -> Request]
           /\ \A v \in Writer \ {w} : request'[v] = request[v]
  BY IdleTyped DEF RowsOK, Succeed, Fail

LEMMA WrittenTyped ==
    ASSUME RowsOK, NEW w \in Writer, NEW d \in DocId PROVE Written(w, d) \in Record
<1>1. record[d] \in Record /\ request[w].file \in File \cup {NoFile}
  BY DEF RowsOK, Request
<1> QED
  BY <1>1 DEF Written, Record, Stage

\* Every step of the transactions is a step of the log, or leaves it alone.
LEMMA StepsTyped ==
    ASSUME RowsOK, [TransactionsNext]_<<vars, recordVars>>
    PROVE  RowsOK' /\ [Next]_vars
<1>1. ASSUME NEW w \in Writer, BeginStep(w) PROVE RowsOK' /\ UNCHANGED vars
  <2>1. PICK r : NewRequest(w, r) /\ Begin(w, r)
    BY <1>1 DEF BeginStep
  <2> QED
    BY <2>1, NewRequestTyped DEF Begin, RowsOK, logVars, vars
<1>2. ASSUME NEW w \in Writer, Lock(w) PROVE RowsOK' /\ UNCHANGED vars
  BY <1>2, LockStep DEF RowsOK
<1>3. ASSUME NEW w \in Writer, Admit(w) PROVE RowsOK' /\ UNCHANGED vars
  BY <1>3, AdmitStep DEF RowsOK
<1>4. ASSUME NEW w \in Writer, NEW d \in DocId, Tell(w, d) PROVE RowsOK' /\ Next
  BY <1>4, TellStep DEF RowsOK, Next
<1>5. ASSUME NEW w \in Writer, Succeed(w) PROVE RowsOK' /\ [Next]_vars
  <2>1. record' \in [DocId -> Record]
    BY <1>5, WrittenTyped DEF Succeed
  <2>2. Commit(w) \/ UNCHANGED vars
    BY <1>5 DEF Succeed
  <2> QED
    BY <1>5, <2>1, <2>2, EndStep DEF RowsOK, Next
<1>6. ASSUME NEW w \in Writer, Fail(w) PROVE RowsOK' /\ [Next]_vars
  <2>1. UNCHANGED record /\ (Abort(w) \/ UNCHANGED vars)
    BY <1>6 DEF Fail
  <2> QED
    BY <1>6, <2>1, EndStep DEF RowsOK, Next
<1>7. ASSUME NEW d \in DocId, Claim(d) PROVE RowsOK' /\ UNCHANGED vars
  BY <1>7 DEF Claim, RowsOK, Record, Stage
<1>8. CASE UNCHANGED <<vars, recordVars>>
  BY <1>8 DEF RowsOK, recordVars, vars
<1> QED
  BY <1>1, <1>2, <1>3, <1>4, <1>5, <1>6, <1>7, <1>8, Steps

LEMMA RowsTyped == TransactionsSpec => []RowsOK
<1>1. TransactionsInit => RowsOK
  BY IdleTyped DEF TransactionsInit, RowsOK, Record, Stage
<1>2. RowsOK /\ [TransactionsNext]_<<vars, recordVars>> => RowsOK'
  BY StepsTyped
<1> QED
  BY <1>1, <1>2, PTL DEF TransactionsSpec

\* The transactions use the log as AuditLog says, and so the log's theorems
\* hold of it whatever the operations that write events do.
THEOREM LogIsUsed == TransactionsSpec => Spec
<1>1. TransactionsInit => Init
  BY DEF TransactionsInit
<1>2. RowsOK /\ [TransactionsNext]_<<vars, recordVars>> => [Next]_vars
  BY StepsTyped
<1> QED
  BY <1>1, <1>2, RowsTyped, PTL DEF TransactionsSpec, Spec

\* Requests and records hold values of their kinds.
THEOREM TransactionsTyped == TransactionsSpec => []TransactionsTypeOK
<1>1. TypeOK /\ RowsOK => TransactionsTypeOK
  BY DEF TransactionsTypeOK, RowsOK
<1> QED
  BY <1>1, LogIsUsed, TypeCorrect, RowsTyped, PTL

(*************************** Locks and deadlocks ***************************)

\* What a request holds and still asks for: an upload the owner, a login the
\* guard and then the owner, an operation on one document that document, and
\* a statement on several documents those and nothing else.
Asks(r, rows, held) == r.todo = rows /\ r.held = held
LocksOf(r) ==
    /\ r.kind = "none" => r = Idle
    /\ r.kind = "view" => Asks(r, <<>>, {})
    /\ r.kind = "upload" => \/ Asks(r, <<Owner>>, {}) /\ r.targets = {}
                            \/ Asks(r, <<>>, {Owner})
    /\ r.kind = "login" => \/ Asks(r, <<Guard, Owner>>, {})
                           \/ Asks(r, <<Owner>>, {Guard})
                           \/ Asks(r, <<>>, {Guard, Owner})
    /\ r.kind = "login" => r.targets = {}
    /\ r.kind \in Single =>
           \E d \in DocId : /\ r.targets = {d}
                            /\ \/ Asks(r, <<Document(d)>>, {})
                               \/ Asks(r, <<>>, {Document(d)})
    /\ r.kind \in Several =>
           /\ r.held \subseteq DocumentsOf(r.targets)
           /\ \A i \in DOMAIN r.todo : r.todo[i] \in DocumentsOf(r.targets)
           /\ \A d \in r.targets :
                  Document(d) \in r.held \/ \E i \in DOMAIN r.todo : r.todo[i] = Document(d)

\* A row is locked by one request at a time.
Exclusive == \A v, w \in Writer : v # w => request[v].held \cap request[w].held = {}

LockInv == Exclusive /\ \A w \in Writer : LocksOf(request[w])

LEMMA IdleLocks == LocksOf(Idle) /\ Idle.held = {} /\ Idle.kind = "none"
  BY DEF LocksOf, Idle, Single, Several

LEMMA NewLocks ==
    ASSUME NEW w \in Writer, NEW r, NewRequest(w, r) PROVE LocksOf(r) /\ r.held = {}
<1> USE DEF Single, Several
<1>1. ASSUME NEW f \in File,
             r = [Idle EXCEPT !.kind = "upload", !.file = f, !.todo = Plan("upload")]
      PROVE  LocksOf(r) /\ r.held = {}
  BY <1>1 DEF LocksOf, Idle, Plan, Asks
<1>2. ASSUME r = [Idle EXCEPT !.kind = "login", !.todo = Plan("login")]
      PROVE  LocksOf(r) /\ r.held = {}
  BY <1>2 DEF LocksOf, Idle, Plan, Asks
<1>3. ASSUME r = [Idle EXCEPT !.kind = "view", !.targets = {1}]
      PROVE  LocksOf(r) /\ r.held = {}
  BY <1>3 DEF LocksOf, Idle, Asks
<1>4. ASSUME NEW kind \in Single, NEW d \in DocId,
             r = [Idle EXCEPT !.kind = kind, !.targets = {d}, !.todo = <<Document(d)>>]
      PROVE  LocksOf(r) /\ r.held = {}
  BY <1>4 DEF LocksOf, Idle, Asks
<1>5. ASSUME NEW kind \in Several, NEW D \in SUBSET DocId, NEW s \in Orders(D),
             r = [Idle EXCEPT !.kind = kind, !.targets = D, !.todo = s]
      PROVE  LocksOf(r) /\ r.held = {}
  <2>1. r.kind = kind /\ r.targets = D /\ r.todo = s /\ r.held = {}
    BY <1>5 DEF Idle
  <2> QED
    BY <2>1, OrderMeetsAll DEF LocksOf
<1> QED
  BY <1>1, <1>2, <1>3, <1>4, <1>5 DEF NewRequest

\* The next row is moved from what is asked for to what is held.
LEMMA LockKeeps ==
    ASSUME NEW r \in Request, NEW q \in Request, LocksOf(r), r.todo # <<>>,
           q.kind = r.kind, q.targets = r.targets,
           q.held = r.held \cup {Head(r.todo)}, q.todo = Tail(r.todo)
    PROVE  LocksOf(q)
<1>0. r.todo \in Seq(LockedRow)
  BY DEF Request
<1>1. r.kind \notin {"none", "view"}
  BY DEF LocksOf, Asks, Idle
<1>2. CASE r.kind = "upload"
  <2>1. r.todo = <<Owner>> /\ r.held = {}
    BY <1>2 DEF LocksOf, Asks
  <2>2. q.todo = <<>> /\ q.held = {Owner}
    BY <2>1
  <2> QED
    BY <1>2, <2>2 DEF LocksOf, Asks, Single, Several
<1>3. CASE r.kind = "login"
  <2>1. \/ r.todo = <<Guard, Owner>> /\ r.held = {}
        \/ r.todo = <<Owner>> /\ r.held = {Guard}
    BY <1>3 DEF LocksOf, Asks
  <2>2. Head(<<Guard, Owner>>) = Guard /\ Tail(<<Guard, Owner>>) = <<Owner>>
        /\ Head(<<Owner>>) = Owner /\ Tail(<<Owner>>) = <<>>
    OBVIOUS
  <2>3. \/ q.todo = <<Owner>> /\ q.held = {Guard}
        \/ q.todo = <<>> /\ q.held = {Guard, Owner}
    BY <2>1, <2>2
  <2> QED
    BY <1>3, <2>3 DEF LocksOf, Asks, Single, Several
<1>4. CASE r.kind \in Single
  <2>1. PICK d \in DocId :
            r.targets = {d} /\ r.todo = <<Document(d)>> /\ r.held = {}
    BY <1>4 DEF LocksOf, Asks
  <2>2. q.todo = <<>> /\ q.held = {Document(d)}
    BY <2>1
  <2> QED
    BY <1>4, <2>1, <2>2 DEF LocksOf, Asks, Single, Several
<1>5. CASE r.kind \in Several
  <2>1. /\ Head(r.todo) = r.todo[1] /\ 1 \in DOMAIN r.todo
        /\ \A i \in DOMAIN r.todo :
              i = 1 \/ (i - 1 \in DOMAIN q.todo /\ q.todo[i - 1] = r.todo[i])
        /\ \A i \in DOMAIN q.todo : i + 1 \in DOMAIN r.todo /\ q.todo[i] = r.todo[i + 1]
    BY <1>0
  <2>2. q.held \subseteq DocumentsOf(q.targets)
    BY <1>5, <2>1 DEF LocksOf
  <2>3. \A i \in DOMAIN q.todo : q.todo[i] \in DocumentsOf(q.targets)
    BY <1>5, <2>1 DEF LocksOf
  <2>4. ASSUME NEW d \in q.targets
        PROVE  Document(d) \in q.held \/ \E i \in DOMAIN q.todo : q.todo[i] = Document(d)
    <3>1. CASE Document(d) \in r.held
      BY <3>1
    <3>2. ASSUME NEW i \in DOMAIN r.todo, r.todo[i] = Document(d)
          PROVE  Document(d) \in q.held \/ \E j \in DOMAIN q.todo : q.todo[j] = Document(d)
      BY <2>1, <3>2
    <3> QED
      BY <1>5, <3>1, <3>2 DEF LocksOf
  <2> QED
    BY <1>5, <2>2, <2>3, <2>4 DEF LocksOf, Single, Several
<1> QED
  BY <1>1, <1>2, <1>3, <1>4, <1>5 DEF Request

\* What else a request does changes no lock.
LEMMA SameLocks ==
    ASSUME NEW r, NEW q, LocksOf(r), r.kind # "none", q.kind = r.kind,
           q.held = r.held, q.todo = r.todo,
           q.targets = r.targets \/ (r.kind = "upload" /\ r.todo = <<>>)
    PROVE  LocksOf(q)
<1>1. CASE q.targets = r.targets
  BY <1>1 DEF LocksOf, Asks
<1>2. CASE r.kind = "upload" /\ r.todo = <<>>
  BY <1>2 DEF LocksOf, Asks, Single, Several
<1> QED
  BY <1>1, <1>2

LEMMA StepsKeepLocks ==
    ASSUME RowsOK, LockInv, [TransactionsNext]_<<vars, recordVars>>
    PROVE  LockInv'
<1>1. ASSUME NEW w \in Writer, BeginStep(w) PROVE LockInv'
  <2>1. PICK r : NewRequest(w, r) /\ Begin(w, r)
    BY <1>1 DEF BeginStep
  <2>2. request'[w] = r /\ \A v \in Writer \ {w} : request'[v] = request[v]
    BY <2>1 DEF Begin, RowsOK
  <2> QED
    BY <2>1, <2>2, NewLocks DEF LockInv, Exclusive
<1>2. ASSUME NEW w \in Writer, Lock(w) PROVE LockInv'
  <2>1. LocksOf(request'[w])
    BY <1>2, LockStep, LockKeeps DEF RowsOK, LockInv
  <2>2. \A v \in Writer : Head(request[w].todo) \notin request[v].held
    BY <1>2 DEF Lock, Holds
  <2> QED
    BY <1>2, <2>1, <2>2, LockStep DEF LockInv, Exclusive
<1>3. ASSUME NEW w \in Writer, Admit(w) PROVE LockInv'
  <2>1. LocksOf(request'[w])
    BY <1>3, AdmitStep, SameLocks DEF LockInv
  <2> QED
    BY <1>3, <2>1, AdmitStep DEF LockInv, Exclusive
<1>4. ASSUME NEW w \in Writer, NEW d \in DocId, Tell(w, d) PROVE LockInv'
  <2>1. /\ request[w].kind \in Logged /\ request'[w].kind = request[w].kind
        /\ request'[w].targets = request[w].targets
        /\ request'[w].held = request[w].held /\ request'[w].todo = request[w].todo
        /\ \A v \in Writer \ {w} : request'[v] = request[v]
    BY <1>4, TellStep
  <2>2. request[w].kind # "none"
    BY <2>1 DEF Logged, Single
  <2>3. LocksOf(request'[w])
    BY <2>1, <2>2, SameLocks DEF LockInv
  <2> QED
    BY <2>1, <2>3 DEF LockInv, Exclusive
<1>5. ASSUME NEW w \in Writer, Succeed(w) \/ Fail(w) PROVE LockInv'
  BY <1>5, EndStep, IdleLocks DEF LockInv, Exclusive
<1>6. CASE UNCHANGED request
  BY <1>6 DEF LockInv, Exclusive
<1> QED
  BY <1>1, <1>2, <1>3, <1>4, <1>5, <1>6, Steps DEF Claim, recordVars

LEMMA LocksKept == TransactionsSpec => []LockInv
<1>1. TransactionsInit => LockInv
  BY IdleLocks DEF TransactionsInit, LockInv, Exclusive
<1>2. RowsOK /\ LockInv /\ [TransactionsNext]_<<vars, recordVars>> => LockInv'
  BY StepsKeepLocks
<1> QED
  BY <1>1, <1>2, RowsTyped, PTL DEF TransactionsSpec

(************************ Events and admissions ****************************)

\* A request has an open transaction of the log exactly while it has told
\* something; then its rows are locked, as its operation needs them to be,
\* and what it told is what its uncommitted entries say.
Told(w) ==
    /\ request[w].told \subseteq request[w].targets
    /\ tx[w].open <=> request[w].told # {}
    /\ request[w].told # {} =>
           request[w].kind \in Logged /\ request[w].todo = <<>> /\ Allowed(w)
    /\ {r.content : r \in tx[w].rows} =
           {<<ActionOf(request[w].kind), d>> : d \in request[w].told}

Fresh == {d \in Outstanding : ~record[d].again}

\* An admitted upload still has its place and a file that no record has.
Admission(w) ==
    request[w].kind = "upload" /\ request[w].targets # {} =>
        /\ request[w].todo = <<>>
        /\ \E d \in DocId : request[w].targets = {d} /\ record[d].stage = "absent"
        /\ Cardinality(Fresh) < QueueCap
        /\ \A e \in DocId : Exists(e) => record[e].file # request[w].file

RequestInv == \A w \in Writer : Told(w) /\ Admission(w)

LEMMA NothingTold ==
    ASSUME NEW w \in Writer, request[w].told = {}, tx[w] = NoTransaction
    PROVE  Told(w)
  BY DEF Told, NoTransaction

\* An operation that committed had its rows locked and told of all of them.
LEMMA SucceedStep ==
    ASSUME TypeOK, RowsOK, RequestInv, NEW w \in Writer, Succeed(w)
    PROVE  /\ request[w].kind # "none" /\ request[w].todo = <<>>
           /\ record' = [d \in DocId |-> Written(w, d)]
           /\ request[w].kind \in Logged =>
                  /\ request[w].told = request[w].targets /\ request[w].targets # {}
                  /\ Allowed(w) /\ Commit(w)
           /\ request[w].kind \notin Logged => ~tx[w].open /\ UNCHANGED vars
  BY DEF Succeed, Complete, RequestInv, Told

\* What a committing operation does to a row.
LEMMA SucceedWrites ==
    ASSUME TypeOK, RowsOK, LockInv, RequestInv, NEW w \in Writer, Succeed(w),
           NEW d \in DocId, record'[d] # record[d]
    PROVE  /\ d \in request[w].targets
           /\ \/ /\ request[w].kind = "upload" /\ record[d].stage = "absent"
                 /\ record'[d] = [stage |-> "queued", file |-> request[w].file,
                                  again |-> FALSE]
              \/ /\ Document(d) \in request[w].held
                 /\ \/ /\ request[w].kind = "retry" /\ record[d].stage = "ended"
                       /\ record'[d] = [record[d] EXCEPT !.stage = "queued", !.again = TRUE]
                    \/ /\ request[w].kind \in {"finish", "sweep"}
                       /\ record[d].stage = "processing"
                       /\ record'[d] = [record[d] EXCEPT !.stage = "ended"]
                    \/ /\ request[w].kind \in {"delete", "bulk"} /\ Exists(d)
                       /\ record[d].stage # "processing"
                       /\ record'[d] = [record[d] EXCEPT !.stage = "deleted"]
<1> DEFINE r == request[w]
<1>1. record'[d] = Written(w, d) /\ r.todo = <<>> /\ r.kind # "none"
  BY SucceedStep
<1>2. d \in r.targets
  BY <1>1 DEF Written
<1>3. r.kind \in Single \cup Several => Document(d) \in r.held
  <2>1. LocksOf(r)
    BY DEF LockInv
  <2> QED
    BY <1>1, <1>2, <2>1 DEF LocksOf, Asks
<1>4. r.kind \in Logged => Allowed(w)
  BY SucceedStep
<1>5. r.kind = "upload" => record[d].stage = "absent"
  BY <1>2 DEF RequestInv, Admission
<1> USE DEF Single, Several, Logged
<1>6. CASE r.kind = "upload"
  BY <1>1, <1>2, <1>5, <1>6 DEF Written
<1>7. CASE r.kind = "retry"
  BY <1>1, <1>2, <1>3, <1>4, <1>7 DEF Written, Allowed
<1>8. CASE r.kind = "finish"
  BY <1>1, <1>2, <1>3, <1>4, <1>8 DEF Written, Allowed
<1>9. CASE r.kind = "sweep"
  BY <1>1, <1>2, <1>3, <1>9 DEF Written
<1>10. CASE r.kind \in {"delete", "bulk"}
  BY <1>1, <1>2, <1>3, <1>4, <1>10 DEF Written, Allowed
<1>11. r.kind \in {"upload", "retry", "finish", "sweep", "delete", "bulk"}
  BY <1>1 DEF Written
<1> QED
  BY <1>2, <1>6, <1>7, <1>8, <1>9, <1>10, <1>11

\* A row that one request holds is written by no other.
LEMMA HeldRowsKept ==
    ASSUME TypeOK, RowsOK, LockInv, RequestInv, TransactionsNext,
           NEW w \in Writer, NEW d \in DocId, Document(d) \in request[w].held,
           record[d].stage # "absent", ~Succeed(w)
    PROVE  record'[d] = record[d]
<1>1. ASSUME NEW v \in Writer, Succeed(v) PROVE record'[d] = record[d]
  BY <1>1, SucceedWrites DEF LockInv, Exclusive
<1>2. ASSUME NEW e \in DocId, Claim(e) PROVE record'[d] = record[d]
  <2>1. e # d /\ record' = [record EXCEPT ![e].stage = "processing"]
    BY <1>2 DEF Claim, Holds
  <2> QED
    BY <2>1 DEF RowsOK
<1>3. ASSUME NEW v \in Writer, NEW e \in DocId, Tell(v, e) PROVE record' = record
  BY <1>3, TellStep
<1>4. ASSUME NEW v \in Writer, BeginStep(v) \/ Lock(v) \/ Admit(v) \/ Fail(v)
      PROVE  record' = record
  BY <1>4 DEF BeginStep, Begin, Lock, Admit, Fail
<1> QED
  BY <1>1, <1>2, <1>3, <1>4, Steps

LEMMA FreshFinite == IsFiniteSet(Fresh) /\ Cardinality(Fresh) \in Nat /\ Fresh \subseteq DocId
<1>1. Fresh \subseteq DocId
  BY DEF Fresh, Outstanding
<1> QED
  BY <1>1, DocIdsFinite

\* Where no upload commits, no file, no record and no first turn is new.
LEMMA QuietSteps ==
    ASSUME TypeOK, RowsOK, LockInv, RequestInv, TransactionsNext,
           \A w \in Writer : Succeed(w) => request[w].kind # "upload"
    PROVE  /\ \A d \in DocId :
                  /\ record'[d].file = record[d].file
                  /\ record[d].stage = "absent" <=> record'[d].stage = "absent"
                  /\ Exists(d)' => Exists(d)
           /\ Fresh' \subseteq Fresh /\ Cardinality(Fresh') <= Cardinality(Fresh)
<1>1. ASSUME NEW d \in DocId
      PROVE  /\ record'[d].file = record[d].file
             /\ record[d].stage = "absent" <=> record'[d].stage = "absent"
             /\ Exists(d)' => Exists(d)
             /\ d \in Fresh' => d \in Fresh
  <2>0. record[d] \in Record
    BY DEF RowsOK
  <2>1. CASE record'[d] = record[d]
    BY <2>1 DEF Exists, Fresh, Outstanding
  <2>2. ASSUME NEW w \in Writer, Succeed(w), record'[d] # record[d]
        PROVE  /\ record'[d].file = record[d].file
               /\ record[d].stage = "absent" <=> record'[d].stage = "absent"
               /\ Exists(d)' => Exists(d)
               /\ d \in Fresh' => d \in Fresh
    <3>1. \/ /\ record[d].stage = "ended"
             /\ record'[d] = [record[d] EXCEPT !.stage = "queued", !.again = TRUE]
          \/ /\ record[d].stage = "processing"
             /\ record'[d] = [record[d] EXCEPT !.stage = "ended"]
          \/ /\ Exists(d)
             /\ record'[d] = [record[d] EXCEPT !.stage = "deleted"]
      BY <2>2, SucceedWrites
    <3> QED
      BY <2>0, <3>1 DEF Record, Exists, Fresh, Outstanding
  <2>3. ASSUME NEW e \in DocId, Claim(e)
        PROVE  /\ record'[d].file = record[d].file
               /\ record[d].stage = "absent" <=> record'[d].stage = "absent"
               /\ Exists(d)' => Exists(d)
               /\ d \in Fresh' => d \in Fresh
    BY <2>0, <2>1, <2>3 DEF Claim, RowsOK, Record, Exists, Fresh, Outstanding
  <2>4. ASSUME NEW v \in Writer,
               BeginStep(v) \/ Lock(v) \/ Admit(v) \/ Fail(v) \/ \E e \in DocId : Tell(v, e)
        PROVE  record' = record
    BY <2>4 DEF BeginStep, Begin, Lock, Admit, Fail, Tell
  <2> QED
    BY <2>1, <2>2, <2>3, <2>4, Steps
<1>2. Fresh' \subseteq Fresh
  BY <1>1 DEF Fresh, Outstanding
<1>3. Cardinality(Fresh') <= Cardinality(Fresh)
  BY <1>2, FreshFinite, FS_Subset
<1> QED
  BY <1>1, <1>2, <1>3

\* What the steps of others leave of a request.
LEMMA OthersKeep ==
    ASSUME TypeOK, RowsOK, LockInv, RequestInv, TransactionsNext,
           NEW w \in Writer, request'[w] = request[w], tx'[w] = tx[w]
    PROVE  Told(w)' /\ Admission(w)'
<1> DEFINE r == request[w]
<1>1. r \in Request /\ LocksOf(r) /\ Told(w) /\ Admission(w)
  BY DEF RowsOK, LockInv, RequestInv
<1>2. r.kind # "none" => ~Succeed(w)
  BY EndStep, IdleLocks
<1>3. ASSUME r.told # {} PROVE Allowed(w)'
  <2>1. r.kind \in Logged /\ r.todo = <<>> /\ Allowed(w)
    BY <1>1, <1>3 DEF Told
  <2>2. CASE r.kind \in {"upload", "view"}
    BY <2>2 DEF Allowed
  <2>3. CASE r.kind \in Single \cup {"bulk"}
    <3>1. \A d \in r.targets : Document(d) \in r.held
      BY <1>1, <2>1, <2>3 DEF LocksOf, Asks, Several
    <3>2. \A d \in r.targets : d \in DocId /\ record[d].stage # "absent"
      BY <1>1, <2>1, <2>3 DEF Allowed, Single, Exists, Request
    <3>3. \A d \in r.targets : record'[d] = record[d]
      BY <1>2, <2>3, <3>1, <3>2, HeldRowsKept DEF Single
    <3> QED
      BY <2>1, <3>3 DEF Allowed, Exists
  <2> QED
    BY <2>1, <2>2, <2>3 DEF Logged
<1>4. ASSUME r.kind = "upload", r.targets # {} PROVE Admission(w)'
  <2>1. /\ r.todo = <<>> /\ r.held = {Owner}
        /\ \E d \in DocId : r.targets = {d} /\ record[d].stage = "absent"
        /\ Cardinality(Fresh) < QueueCap
        /\ \A e \in DocId : Exists(e) => record[e].file # r.file
    BY <1>1, <1>4 DEF Admission, LocksOf, Asks
  <2>2. ASSUME NEW v \in Writer, Succeed(v), request[v].kind = "upload" PROVE FALSE
    <3>1. v # w
      BY <1>2, <1>4, <2>2
    <3>2. request[v].held = {Owner}
      <4>1. request[v].todo = <<>> /\ LocksOf(request[v])
        BY <2>2, SucceedStep DEF LockInv
      <4> QED
        BY <2>2, <4>1 DEF LocksOf, Asks
    <3> QED
      BY <2>1, <3>1, <3>2 DEF LockInv, Exclusive
  <2>3. \A v \in Writer : Succeed(v) => request[v].kind # "upload"
    BY <2>2
  <2>4. /\ \A d \in DocId :
               /\ record'[d].file = record[d].file
               /\ record[d].stage = "absent" <=> record'[d].stage = "absent"
               /\ Exists(d)' => Exists(d)
        /\ Cardinality(Fresh') <= Cardinality(Fresh)
    BY <2>3, QuietSteps
  <2>5. Cardinality(Fresh') < QueueCap
    <3>1. IsFiniteSet(Fresh') /\ Cardinality(Fresh') \in Nat
      <4>1. Fresh' \subseteq DocId
        BY DEF Fresh, Outstanding
      <4> QED
        BY <4>1, DocIdsFinite
    <3> QED
      BY <2>1, <2>4, <3>1, FreshFinite, TransactionsAssumption
  <2> QED
    BY <2>1, <2>4, <2>5 DEF Admission
<1>5. Admission(w)'
  BY <1>4 DEF Admission
<1> QED
  BY <1>1, <1>3, <1>5 DEF Told

LEMMA NewRequestFields ==
    ASSUME NEW w \in Writer, NEW r, NewRequest(w, r)
    PROVE  r.told = {} /\ (r.kind = "upload" => r.targets = {})
  BY DEF NewRequest, Idle, Single, Several

\* Admission is given by the count and the test under the owner's lock.
LEMMA AdmitKeeps ==
    ASSUME TypeOK, RowsOK, RequestInv, NEW w \in Writer, Admit(w)
    PROVE  Told(w)' /\ Admission(w)'
<1> DEFINE r == request[w]
<1>1. /\ r.kind = "upload" /\ r.todo = <<>> /\ r.targets = {} /\ Admitted(r.file)
      /\ request'[w].kind = r.kind /\ request'[w].file = r.file
      /\ request'[w].told = r.told /\ request'[w].todo = r.todo
      /\ \E d \in DocId : request'[w].targets = {d} /\ record[d].stage = "absent"
      /\ UNCHANGED record /\ UNCHANGED vars
  BY AdmitStep
<1>2. Told(w) /\ r.told = {}
  BY <1>1 DEF RequestInv, Told
<1>3. Told(w)'
  BY <1>1, <1>2 DEF Told, vars
<1>4. Cardinality(Fresh) < QueueCap
  <2>1. Fresh \subseteq Outstanding /\ Outstanding \in SUBSET DocId
    BY DEF Fresh, Outstanding
  <2>2. Cardinality(Fresh) <= Cardinality(Outstanding)
    BY <2>1, DocIdsFinite, FS_Subset
  <2>3. Cardinality(Outstanding) < QueueCap /\ Cardinality(Outstanding) \in Nat
    BY <1>1, <2>1, DocIdsFinite DEF Admitted
  <2> QED
    BY <2>2, <2>3, FreshFinite, TransactionsAssumption
<1>5. Fresh' = Fresh /\ \A e \in DocId : Exists(e)' <=> Exists(e)
  BY <1>1 DEF Fresh, Outstanding, Exists
<1>6. \A e \in DocId : Exists(e) => record[e].file # r.file
  BY <1>1 DEF Admitted
<1> QED
  BY <1>1, <1>3, <1>4, <1>5, <1>6 DEF Admission

\* What a request tells is in its uncommitted entries.
LEMMA TellKeeps ==
    ASSUME TypeOK, RowsOK, RequestInv, NEW w \in Writer, NEW d \in DocId, Tell(w, d)
    PROVE  Told(w)' /\ Admission(w)' /\ \A v \in Writer \ {w} : tx'[v] = tx[v]
<1> DEFINE r == request[w]
           c == <<ActionOf(r.kind), d>>
<1>1. /\ r.kind \in Logged /\ d \in r.targets /\ r.todo = <<>> /\ Allowed(w)
      /\ request'[w].kind = r.kind /\ request'[w].file = r.file
      /\ request'[w].targets = r.targets /\ request'[w].todo = r.todo
      /\ request'[w].told = r.told \cup {d}
      /\ c \in Content /\ Event(w, c) /\ UNCHANGED record
  BY TellStep
<1>2. /\ tx'[w].open /\ tx'[w].rows = tx[w].rows \cup {NewEntry(w, c)}
      /\ \A v \in Writer \ {w} : tx'[v] = tx[v]
  BY <1>1 DEF Event, TypeOK, Transaction
<1>3. NewEntry(w, c).content = c
  BY <1>1, EntryTyped
<1>4. Told(w) /\ Admission(w)
  BY DEF RequestInv
<1>5. {x.content : x \in tx'[w].rows} =
          {<<ActionOf(request'[w].kind), e>> : e \in request'[w].told}
  <2>1. {x.content : x \in tx'[w].rows} = {x.content : x \in tx[w].rows} \cup {c}
    BY <1>2, <1>3
  <2> QED
    BY <1>1, <1>4, <2>1 DEF Told
<1>6. Allowed(w)'
  BY <1>1 DEF Allowed, Exists
<1>7. Told(w)'
  BY <1>1, <1>2, <1>4, <1>5, <1>6 DEF Told
<1>8. Admission(w)'
  <2>1. Fresh' = Fresh /\ \A e \in DocId : Exists(e)' <=> Exists(e)
    BY <1>1 DEF Fresh, Outstanding, Exists
  <2> QED
    BY <1>1, <1>4, <2>1 DEF Admission
<1> QED
  BY <1>2, <1>7, <1>8

LEMMA StepsKeepRequests ==
    ASSUME TypeOK, RowsOK, LockInv, RequestInv,
           [TransactionsNext]_<<vars, recordVars>>
    PROVE  RequestInv'
<1>0. CASE UNCHANGED <<vars, recordVars>>
  <2>1. UNCHANGED <<tx, record, request>>
    BY <1>0 DEF vars, recordVars
  <2>2. Fresh' = Fresh /\ \A e \in DocId : Exists(e)' <=> Exists(e)
    BY <2>1 DEF Fresh, Outstanding, Exists
  <2>3. \A w \in Writer : Allowed(w)' <=> Allowed(w)
    BY <2>1 DEF Allowed, Exists
  <2>4. ASSUME NEW w \in Writer PROVE Told(w)' /\ Admission(w)'
    <3>1. Told(w) /\ Admission(w)
      BY DEF RequestInv
    <3> QED
      BY <2>1, <2>2, <2>3, <3>1 DEF Told, Admission
  <2> QED
    BY <2>4 DEF RequestInv
<1>1. ASSUME NEW w \in Writer, BeginStep(w), TransactionsNext PROVE RequestInv'
  <2>1. PICK r : NewRequest(w, r) /\ Begin(w, r)
    BY <1>1 DEF BeginStep
  <2>2. /\ request[w].kind = "none" /\ request'[w] = r /\ UNCHANGED tx
        /\ \A v \in Writer \ {w} : request'[v] = request[v]
    BY <2>1 DEF Begin, RowsOK, logVars
  <2>3. Told(w) /\ request[w].told = {}
    BY <2>2 DEF RequestInv, Told, Logged, Single
  <2>4. tx'[w].open = FALSE /\ tx'[w].rows = {}
    BY <2>2, <2>3 DEF Told, TypeOK, Transaction
  <2>5. Told(w)' /\ Admission(w)'
    BY <2>1, <2>2, <2>4, NewRequestFields DEF Told, Admission
  <2> QED
    BY <1>1, <2>2, <2>5, OthersKeep DEF RequestInv
<1>2. ASSUME NEW w \in Writer, Lock(w), TransactionsNext PROVE RequestInv'
  <2>1. /\ request[w].todo # <<>> /\ request'[w].kind = request[w].kind
        /\ request'[w].targets = request[w].targets
        /\ request'[w].told = request[w].told /\ request'[w].file = request[w].file
        /\ \A v \in Writer \ {w} : request'[v] = request[v]
        /\ UNCHANGED record /\ UNCHANGED vars
    BY <1>2, LockStep
  <2>2. Told(w) /\ Admission(w) /\ LocksOf(request[w])
    BY DEF RequestInv, LockInv
  <2>3. Told(w)' /\ Admission(w)'
    BY <2>1, <2>2 DEF Told, Admission, vars
  <2>4. UNCHANGED tx
    BY <2>1 DEF vars
  <2> QED
    BY <1>2, <2>1, <2>3, <2>4, OthersKeep DEF RequestInv
<1>3. ASSUME NEW w \in Writer, Admit(w), TransactionsNext PROVE RequestInv'
  <2>1. UNCHANGED tx /\ \A v \in Writer \ {w} : request'[v] = request[v]
    BY <1>3, AdmitStep DEF vars
  <2> QED
    BY <1>3, <2>1, AdmitKeeps, OthersKeep DEF RequestInv
<1>4. ASSUME NEW w \in Writer, NEW d \in DocId, Tell(w, d), TransactionsNext
      PROVE  RequestInv'
  <2>1. \A v \in Writer \ {w} : request'[v] = request[v]
    BY <1>4, TellStep
  <2> QED
    BY <1>4, <2>1, TellKeeps, OthersKeep DEF RequestInv
<1>5. ASSUME NEW w \in Writer, Succeed(w) \/ Fail(w), TransactionsNext PROVE RequestInv'
  <2>1. /\ request'[w] = Idle /\ \A v \in Writer \ {w} : request'[v] = request[v]
    BY <1>5, EndStep
  <2>2. \A v \in Writer \ {w} : tx'[v] = tx[v]
    BY <1>5 DEF Succeed, Fail, Commit, Abort, TypeOK, vars
  <2>3. ~tx'[w].open /\ tx'[w].rows = {}
    <3>1. CASE tx[w].open
      BY <1>5, <3>1 DEF Succeed, Fail, Commit, Abort, TypeOK, NoTransaction
    <3>2. CASE ~tx[w].open
      <4>1. UNCHANGED tx
        BY <1>5, <3>2 DEF Succeed, Fail, vars
      <4>2. tx[w].rows = {}
        <5>1. Told(w) /\ request[w].told = {}
          BY <3>2 DEF RequestInv, Told
        <5>2. {x.content : x \in tx[w].rows} = {}
          BY <5>1 DEF Told
        <5> QED
          BY <5>2
      <4> QED
        BY <3>2, <4>1, <4>2
    <3> QED
      BY <3>1, <3>2
  <2>4. Told(w)' /\ Admission(w)'
    <3>1. Idle.told = {} /\ Idle.kind = "none"
      BY DEF Idle
    <3>2. request'[w].told = {} /\ request'[w].kind # "upload"
      BY <2>1, <3>1
    <3>3. Admission(w)'
      BY <3>2 DEF Admission
    <3>4. {x.content : x \in tx'[w].rows} =
              {<<ActionOf(request'[w].kind), d>> : d \in request'[w].told}
      BY <2>3, <3>2
    <3> QED
      BY <2>3, <3>2, <3>3, <3>4 DEF Told
  <2> QED
    BY <1>5, <2>1, <2>2, <2>4, OthersKeep DEF RequestInv
<1>6. ASSUME NEW d \in DocId, Claim(d), TransactionsNext PROVE RequestInv'
  <2>1. UNCHANGED <<request, tx>>
    BY <1>6 DEF Claim, vars
  <2> QED
    BY <1>6, <2>1, OthersKeep DEF RequestInv
<1> QED
  BY <1>0, <1>1, <1>2, <1>3, <1>4, <1>5, <1>6, Steps

LEMMA RequestsKept == TransactionsSpec => []RequestInv
<1>1. TransactionsInit => RequestInv
  <2> SUFFICES ASSUME TransactionsInit, NEW w \in Writer PROVE Told(w) /\ Admission(w)
    BY DEF RequestInv
  <2>1. request[w] = Idle /\ tx[w] = NoTransaction
    BY DEF TransactionsInit, Init
  <2>2. request[w].told = {} /\ request[w].kind # "upload"
    BY <2>1 DEF Idle
  <2> QED
    BY <2>1, <2>2, NothingTold DEF Admission
<1>2. TypeOK /\ RowsOK /\ LockInv /\ RequestInv
          /\ [TransactionsNext]_<<vars, recordVars>> => RequestInv'
  BY StepsKeepRequests
<1> QED
  BY <1>1, <1>2, LogIsUsed, TypeCorrect, RowsTyped, LocksKept, PTL DEF TransactionsSpec

(*************************** The properties ********************************)

\* Whatever waits in a deadlock are statements that lock several documents:
\* who holds the head of the log waits for nothing, then neither does who
\* holds the owner, and an operation on one document holds nothing it waits with.
THEOREM DeadlocksAreOfSeveral == TransactionsSpec => []OnlySeveralDeadlock
<1>1. ASSUME ChainInv, RowsOK, LockInv, RequestInv, NEW S \in SUBSET Writer,
             Deadlocked(S), NEW w \in S
      PROVE  request[w].kind \in Several
  <2>1. \A u \in S : Told(u) /\ LocksOf(request[u]) /\ request[u] \in Request
    BY <1>1 DEF RequestInv, LockInv, RowsOK
  <2>2. ASSUME NEW u \in S, request[u].todo = <<>> PROVE FALSE
    <3>1. PICK v \in S \cap WaitsFor(u) : TRUE
      BY <1>1 DEF Deadlocked
    <3>2. v \in S /\ v # u /\ v \in Writer /\ tx[v].open
      BY <2>2, <3>1 DEF WaitsFor
    <3>3. request[v].todo = <<>>
      BY <2>1, <3>2 DEF Told
    <3>4. PICK x \in S \cap WaitsFor(v) : TRUE
      BY <1>1, <3>2 DEF Deadlocked
    <3>5. x # v /\ tx[x].open
      BY <3>3, <3>4 DEF WaitsFor
    <3> QED
      BY <1>1, <3>2, <3>4, <3>5 DEF ChainInv
  <2>3. PICK v \in S : w \in WaitsFor(v)
    BY <1>1 DEF Deadlocked
  <2>4. request[w].held # {}
    BY <2>2, <2>3 DEF WaitsFor, Holds
  <2>5. request[w].kind \notin Single \cup {"none", "view", "upload"}
    BY <2>1, <2>2, <2>4 DEF LocksOf, Asks, Idle
  <2>6. ASSUME request[w].kind = "login" PROVE FALSE
    <3>1. request[w].todo = <<Owner>> /\ request[w].held = {Guard}
      BY <2>1, <2>2, <2>4, <2>6 DEF LocksOf, Asks
    <3>2. PICK x \in S \cap WaitsFor(w) : TRUE
      BY <1>1 DEF Deadlocked
    <3>3. Owner \in request[x].held /\ x \in S
      BY <3>1, <3>2 DEF WaitsFor, Holds
    <3>4. request[x].todo # <<>>
      BY <2>2, <3>3
    <3>5. Owner # Guard /\ \A d : Owner # Document(d)
      BY DEF Owner, Guard, Document
    <3>6. request[x].kind \notin {"none", "view", "upload", "login"}
      BY <2>1, <3>3, <3>4, <3>5 DEF LocksOf, Asks, Idle
    <3>7. request[x].kind \notin Single
      BY <2>1, <3>3, <3>4 DEF LocksOf, Asks
    <3>8. request[x].kind \notin Several
      BY <2>1, <3>3, <3>5 DEF LocksOf, DocumentsOf
    <3> QED
      BY <2>1, <3>3, <3>6, <3>7, <3>8 DEF Request
  <2> QED
    BY <2>1, <2>5, <2>6 DEF Request
<1>2. ChainInv /\ RowsOK /\ LockInv /\ RequestInv => OnlySeveralDeadlock
  BY <1>1 DEF OnlySeveralDeadlock
<1> QED
  BY <1>2, LogIsUsed, ChainInvariant, RowsTyped, LocksKept, RequestsKept, PTL

LEMMA SerializedStep ==
    ASSUME TypeOK, RowsOK, LockInv, RequestInv, UploadsSerialized,
           [TransactionsNext]_<<vars, recordVars>>
    PROVE  UploadsSerialized'
<1>0. IsFiniteSet(Fresh') /\ Cardinality(Fresh') \in Nat
  <2>1. Fresh' \subseteq DocId
    BY DEF Fresh, Outstanding
  <2> QED
    BY <2>1, DocIdsFinite
<1>1. Cardinality(Fresh) <= QueueCap
      /\ \A d, e \in DocId : d # e /\ Exists(d) /\ Exists(e) => record[d].file # record[e].file
  BY DEF UploadsSerialized, Fresh
<1>2. ASSUME NEW w \in Writer, Succeed(w), request[w].kind = "upload" PROVE UploadsSerialized'
  <2>1. /\ request[w].targets # {} /\ record' = [d \in DocId |-> Written(w, d)]
    BY <1>2, SucceedStep DEF Logged
  <2>2. PICK d \in DocId :
            /\ request[w].targets = {d} /\ record[d].stage = "absent"
            /\ Cardinality(Fresh) < QueueCap
            /\ \A e \in DocId : Exists(e) => record[e].file # request[w].file
    BY <1>2, <2>1 DEF RequestInv, Admission
  <2>3. /\ record'[d] = [stage |-> "queued", file |-> request[w].file, again |-> FALSE]
        /\ \A e \in DocId \ {d} : record'[e] = record[e]
    BY <1>2, <2>1, <2>2 DEF Written
  <2>4. Exists(d)' /\ \A e \in DocId \ {d} : Exists(e)' <=> Exists(e)
    BY <2>3 DEF Exists
  <2>5. \A a, b \in DocId : a # b /\ Exists(a)' /\ Exists(b)' => record'[a].file # record'[b].file
    BY <1>1, <2>2, <2>3, <2>4
  <2>6. Fresh' = Fresh \cup {d} /\ d \notin Fresh
    BY <2>2, <2>3 DEF Fresh, Outstanding
  <2>7. Cardinality(Fresh') <= QueueCap
    <3>1. Cardinality(Fresh \cup {d}) = Cardinality(Fresh) + 1
      BY <2>6, FreshFinite, FS_AddElement
    <3>2. Cardinality(Fresh) < QueueCap
      BY <2>2
    <3> QED
      BY <2>6, <3>1, <3>2, FreshFinite, TransactionsAssumption
  <2> QED
    BY <2>5, <2>7 DEF UploadsSerialized, Fresh
<1>3. ASSUME TransactionsNext, \A w \in Writer : Succeed(w) => request[w].kind # "upload"
      PROVE  UploadsSerialized'
  <2>1. /\ \A d \in DocId : record'[d].file = record[d].file /\ (Exists(d)' => Exists(d))
        /\ Cardinality(Fresh') <= Cardinality(Fresh)
    BY <1>3, QuietSteps
  <2>2. Cardinality(Fresh') <= QueueCap
    BY <1>0, <1>1, <2>1, FreshFinite, TransactionsAssumption
  <2> QED
    BY <1>1, <2>1, <2>2 DEF UploadsSerialized, Fresh
<1>4. CASE UNCHANGED <<vars, recordVars>>
  BY <1>4 DEF UploadsSerialized, Outstanding, Exists, recordVars
<1> QED
  BY <1>2, <1>3, <1>4

\* However many uploads run at the same time, no file is stored twice and
\* first turns stay within the cap.
THEOREM UploadsAreSerialized == TransactionsSpec => []UploadsSerialized
<1>1. TransactionsInit => UploadsSerialized
  <2> SUFFICES ASSUME TransactionsInit PROVE UploadsSerialized
    OBVIOUS
  <2>1. \A d \in DocId : record[d].stage = "absent"
    BY DEF TransactionsInit
  <2>2. {d \in Outstanding : ~record[d].again} = {} /\ \A d \in DocId : ~Exists(d)
    BY <2>1 DEF Outstanding, Exists
  <2>3. Cardinality({}) <= QueueCap
    BY FS_EmptySet, TransactionsAssumption
  <2> QED
    BY <2>2, <2>3 DEF UploadsSerialized
<1>2. TypeOK /\ RowsOK /\ LockInv /\ RequestInv /\ UploadsSerialized
          /\ [TransactionsNext]_<<vars, recordVars>> => UploadsSerialized'
  BY SerializedStep
<1> QED
  BY <1>1, <1>2, LogIsUsed, TypeCorrect, RowsTyped, LocksKept, RequestsKept, PTL
     DEF TransactionsSpec

\* What an entry of the log says of a record.
Logs(S, a, d) == \E e \in S : e.content = <<a, d>>
Agrees(S, d) ==
    /\ record[d].stage # "absent" <=> Logs(S, "upload", d)
    /\ record[d].stage = "deleted" <=> Logs(S, "delete", d)
    /\ record[d].again => Logs(S, "retry", d)

LEMMA SucceedAgrees ==
    ASSUME TypeOK, RowsOK, LockInv, RequestInv, NEW w \in Writer, Succeed(w),
           NEW d \in DocId, Agrees(entries, d)
    PROVE  Agrees(entries, d)'
<1> DEFINE r == request[w]
<1>0. record[d] \in Record /\ r \in Request
  BY DEF RowsOK
<1>1. CASE r.kind \notin Logged
  <2>1. UNCHANGED entries
    BY <1>1, SucceedStep DEF vars
  <2>2. record'[d] = record[d]
        \/ (record[d].stage = "processing" /\ record'[d] = [record[d] EXCEPT !.stage = "ended"])
    BY <1>1, SucceedWrites DEF Logged, Single
  <2>3. /\ record'[d].again = record[d].again
        /\ record'[d].stage = "absent" <=> record[d].stage = "absent"
        /\ record'[d].stage = "deleted" <=> record[d].stage = "deleted"
    BY <1>0, <2>2 DEF Record
  <2> QED
    BY <2>1, <2>3 DEF Agrees, Logs
<1>2. CASE r.kind \in Logged
  <2>1. /\ r.told = r.targets /\ Allowed(w) /\ entries' = entries \cup tx[w].rows
        /\ record'[d] = Written(w, d)
    BY <1>2, SucceedStep DEF Commit
  <2>2. {x.content : x \in tx[w].rows} = {<<ActionOf(r.kind), e>> : e \in r.targets}
    BY <2>1 DEF RequestInv, Told
  <2>3. ASSUME NEW a
        PROVE  Logs(entries', a, d) <=>
                   Logs(entries, a, d) \/ (a = ActionOf(r.kind) /\ d \in r.targets)
    <3>1. Logs(tx[w].rows, a, d) <=> <<a, d>> \in {x.content : x \in tx[w].rows}
      BY DEF Logs
    <3>2. <<a, d>> \in {<<ActionOf(r.kind), e>> : e \in r.targets}
              <=> a = ActionOf(r.kind) /\ d \in r.targets
      OBVIOUS
    <3> QED
      BY <2>1, <2>2, <3>1, <3>2 DEF Logs
  <2>4. CASE d \notin r.targets
    <3>1. record'[d] = record[d]
      BY <2>1, <2>4 DEF Written
    <3> QED
      BY <2>3, <2>4, <3>1 DEF Agrees
  <2>5. CASE d \in r.targets /\ r.kind = "upload"
    <3>1. record[d].stage = "absent" /\ record'[d].stage = "queued" /\ ~record'[d].again
      BY <2>1, <2>5 DEF Written, RequestInv, Admission
    <3> QED
      BY <2>3, <2>5, <3>1 DEF Agrees, ActionOf
  <2>6. CASE d \in r.targets /\ r.kind = "retry"
    <3>1. record[d].stage = "ended" /\ record'[d].stage = "queued"
      BY <1>0, <2>1, <2>6 DEF Written, Allowed, Record
    <3> QED
      BY <2>3, <2>6, <3>1 DEF Agrees, ActionOf
  <2>7. CASE d \in r.targets /\ r.kind = "finish"
    <3>1. /\ record[d].stage = "processing" /\ record'[d].stage = "ended"
          /\ record'[d].again = record[d].again
      BY <1>0, <2>1, <2>7 DEF Written, Allowed, Record
    <3> QED
      BY <2>3, <2>7, <3>1 DEF Agrees, ActionOf
  <2>8. CASE d \in r.targets /\ r.kind \in {"delete", "bulk"}
    <3>1. /\ record[d].stage # "absent" /\ record'[d].stage = "deleted"
          /\ record'[d].again = record[d].again
      BY <1>0, <2>1, <2>8 DEF Written, Allowed, Record, Exists
    <3>2. ActionOf(r.kind) = "delete"
      BY <2>8 DEF ActionOf
    <3> QED
      BY <2>3, <2>8, <3>1, <3>2 DEF Agrees
  <2>9. CASE r.kind = "view"
    <3>1. record'[d] = record[d]
      BY <2>1, <2>9 DEF Written
    <3> QED
      BY <2>3, <2>9, <3>1 DEF Agrees, ActionOf
  <2> QED
    BY <1>2, <2>4, <2>5, <2>6, <2>7, <2>8, <2>9 DEF Logged, Single
<1> QED
  BY <1>1, <1>2

\* Whatever is refused, killed or rolled back, a record is there, deleted or
\* retried only if the committed log says so, and the log says it of no other.
THEOREM LogAndRecordsAgree == TransactionsSpec => []LogTellsRecords
<1> DEFINE Inv == \A d \in DocId : Agrees(entries, d)
<1>1. TransactionsInit => Inv
  BY DEF TransactionsInit, Init, Agrees, Logs
<1>2. TypeOK /\ RowsOK /\ LockInv /\ RequestInv /\ Inv
          /\ [TransactionsNext]_<<vars, recordVars>> => Inv'
  <2> SUFFICES ASSUME TypeOK, RowsOK, LockInv, RequestInv, Inv,
                      [TransactionsNext]_<<vars, recordVars>>, NEW d \in DocId
               PROVE  Agrees(entries, d)'
    OBVIOUS
  <2>0. record[d] \in Record /\ Agrees(entries, d)
    BY DEF RowsOK
  <2>1. ASSUME NEW w \in Writer, Succeed(w) PROVE Agrees(entries, d)'
    BY <2>0, <2>1, SucceedAgrees
  <2>2. ASSUME NEW e \in DocId, Claim(e) PROVE Agrees(entries, d)'
    <3>1. /\ UNCHANGED entries /\ record'[d].again = record[d].again
          /\ record'[d].stage = "absent" <=> record[d].stage = "absent"
          /\ record'[d].stage = "deleted" <=> record[d].stage = "deleted"
      BY <2>0, <2>2 DEF Claim, RowsOK, Record, vars
    <3> QED
      BY <2>0, <3>1 DEF Agrees, Logs
  <2>3. CASE UNCHANGED <<entries, record>>
    BY <2>0, <2>3 DEF Agrees, Logs
  <2>4. ASSUME NEW w \in Writer, BeginStep(w) \/ Lock(w) \/ Admit(w) \/ Fail(w)
        PROVE  UNCHANGED <<entries, record>>
    BY <2>4 DEF BeginStep, Begin, Lock, Admit, Fail, Abort, logVars, vars
  <2>5. ASSUME NEW w \in Writer, NEW e \in DocId, Tell(w, e)
        PROVE  UNCHANGED <<entries, record>>
    BY <2>5, TellStep DEF Event
  <2>6. CASE UNCHANGED <<vars, recordVars>>
    BY <2>3, <2>6 DEF vars, recordVars
  <2> QED
    BY <2>1, <2>2, <2>3, <2>4, <2>5, <2>6, Steps
<1>3. Inv => LogTellsRecords
  BY DEF LogTellsRecords, Agrees, Logs
<1> HIDE DEF Inv
<1> QED
  BY <1>1, <1>2, <1>3, LogIsUsed, TypeCorrect, RowsTyped, LocksKept, RequestsKept, PTL
     DEF TransactionsSpec

\* The chain of the log is intact under the operations that write to it.
THEOREM ChainIntactUnderUse == TransactionsSpec => []ChainIntact
  BY LogIsUsed, ChainIsIntact, PTL

\* No operation takes anything from the log or puts anything before it.
THEOREM LogGrowsUnderUse == TransactionsSpec => AppendOnly
  BY LogIsUsed, LogOnlyGrows, PTL

(************************ Damage to the log shows ***************************)

\* Undamaged, the rows that are committed or would be bear different ids and
\* say what operations say.
Plain(S) ==
    /\ \A e, n \in S : e.id = n.id => e = n
    /\ \A e \in S : e.content \in Content
PlainInv == ~damaged => Plain(entries) /\ \A w \in Writer : Plain(After(w))

LEMMA LogStaysPlain ==
    ASSUME TypeOK, ChainInv, PlainInv, [Next]_vars PROVE PlainInv'
<1> SUFFICES ASSUME ~damaged'
             PROVE  Plain(entries)' /\ \A v \in Writer : Plain(After(v))'
  BY DEF PlainInv
<1>0. ~damaged /\ Plain(entries) /\ \A v \in Writer : Plain(After(v))
  <2>1. ASSUME NEW w \in Writer, Commit(w) \/ Abort(w) \/ \E c \in Content : Event(w, c)
        PROVE  damaged' = damaged
    BY <2>1 DEF Commit, Abort, Event
  <2>2. ASSUME Scan \/ ReadHead \/ Damage \/ UNCHANGED vars
        PROVE  damaged' \/ damaged' = damaged
    BY <2>2 DEF Scan, ReadHead, Damage, vars
  <2> QED
    BY <2>1, <2>2 DEF Next, PlainInv
<1>1. ASSUME NEW w \in Writer, NEW c \in Content, Event(w, c)
      PROVE  Plain(entries)' /\ \A v \in Writer : Plain(After(v))'
  <2> DEFINE n == NewEntry(w, c)
  <2>1. /\ entries' = entries /\ tx'[w].rows = tx[w].rows \cup {n}
        /\ \A v \in Writer \ {w} : tx'[v] = tx[v]
    BY <1>1 DEF Event, TypeOK
  <2>2. n.id = sequence + 1 /\ n.content \in Content
    BY EntryTyped
  <2>3. \A e \in After(w) : e.id \in Nat /\ e.id <= sequence
    BY DEF ChainInv, After, TypeOK, Transaction, Entry
  <2>4. After(w)' = After(w) \cup {n} /\ \A v \in Writer \ {w} : After(v)' = After(v)
    BY <2>1 DEF After
  <2>5. sequence \in Nat /\ \A e \in After(w) : e.id # n.id
    BY <2>2, <2>3 DEF TypeOK
  <2> HIDE DEF n
  <2>6. Plain(After(w) \cup {n})
    BY <1>0, <2>2, <2>5 DEF Plain
  <2> QED
    BY <1>0, <2>1, <2>4, <2>6 DEF Plain
<1>2. ASSUME NEW w \in Writer, Commit(w)
      PROVE  Plain(entries)' /\ \A v \in Writer : Plain(After(v))'
  <2>1. entries' = After(w) /\ tx' = [v \in Writer |-> NoTransaction]
    BY <1>2 DEF Commit, After, ChainInv, TypeOK
  <2>2. \A v \in Writer : After(v)' = After(w)
    BY <2>1 DEF After, NoTransaction
  <2> QED
    BY <1>0, <2>1, <2>2 DEF Plain
<1>3. ASSUME NEW w \in Writer, Abort(w)
      PROVE  Plain(entries)' /\ \A v \in Writer : Plain(After(v))'
  <2>1. /\ tx'[w] = NoTransaction /\ \A v \in Writer \ {w} : tx'[v] = tx[v]
        /\ entries' = entries
    BY <1>3 DEF Abort, TypeOK
  <2>2. After(w)' = entries /\ \A v \in Writer \ {w} : After(v)' = After(v)
    BY <2>1 DEF After, NoTransaction
  <2> QED
    BY <1>0, <2>1, <2>2 DEF Plain
<1>4. CASE Scan \/ ReadHead \/ UNCHANGED vars
  BY <1>0, <1>4 DEF Scan, ReadHead, vars, Plain, After
<1>5. ~Damage
  BY DEF Damage
<1> QED
  BY <1>1, <1>2, <1>3, <1>4, <1>5 DEF Next

LEMMA LogIsPlain == Spec => []PlainInv
<1>1. Init => PlainInv
  BY DEF Init, NoTransaction, PlainInv, Plain, After
<1>2. TypeOK /\ ChainInv /\ PlainInv /\ [Next]_vars => PlainInv'
  BY LogStaysPlain
<1> QED
  BY <1>1, <1>2, TypeCorrect, ChainInvariant, PTL DEF Spec

\* No operation damages the log.
LEMMA NothingDamaged == TransactionsSpec => []~damaged
<1>1. TransactionsInit => ~damaged
  BY DEF TransactionsInit, Init
<1>2. ~damaged /\ [TransactionsNext]_<<vars, recordVars>> => ~damaged'
  <2> SUFFICES ASSUME ~damaged, [TransactionsNext]_<<vars, recordVars>> PROVE ~damaged'
    OBVIOUS
  <2>1. ASSUME NEW w \in Writer, BeginStep(w) \/ Lock(w) \/ Admit(w)
        PROVE  ~damaged'
    BY <2>1 DEF BeginStep, Begin, Lock, Admit
  <2>2. ASSUME NEW w \in Writer, NEW d \in DocId, Tell(w, d) PROVE ~damaged'
    BY <2>2 DEF Tell, Event
  <2>3. ASSUME NEW w \in Writer, Succeed(w) \/ Fail(w) PROVE ~damaged'
    BY <2>3 DEF Succeed, Fail, Commit, Abort, vars
  <2>4. ASSUME NEW d \in DocId, Claim(d) PROVE ~damaged'
    BY <2>4 DEF Claim, vars
  <2>5. CASE UNCHANGED <<vars, recordVars>>
    BY <2>5 DEF vars
  <2> QED
    BY <2>1, <2>2, <2>3, <2>4, <2>5, Steps
<1> QED
  BY <1>1, <1>2, PTL DEF TransactionsSpec

LEMMA LeastNumber ==
    ASSUME NEW T \in SUBSET Nat, T # {} PROVE \E x \in T : \A y \in T : x <= y
<1> DEFINE R == {p \in Nat \X Nat : p[1] < p[2]}
<1>1. IsWellFoundedOn(R, Nat)
  BY NatLessThanWellFounded DEF OpToRel
<1> HIDE DEF R
<1>2. PICK x \in T : \A y \in T : <<y, x>> \notin R
  BY <1>1, WFMin
<1>3. \A y \in T : ~(y < x)
  BY <1>2 DEF R
<1> QED
  BY <1>3

\* A digest tells the content it was made from, and is not the one before.
LEMMA DigestsDiffer ==
    ASSUME NEW p \in Digests, NEW c \in Content
    PROVE  /\ Digest(p, c) # Digest(p, Altered)
           /\ Len(Digest(p, c)) = Len(p) + 1 /\ Digest(p, c) # p
<1>1. /\ p \in Seq(Content \cup {Altered}) /\ Len(p) \in Nat
      /\ c \in Content \cup {Altered} /\ Altered \in Content \cup {Altered}
  BY DEF Digests
<1>2. /\ Append(p, c)[Len(p) + 1] = c /\ Append(p, Altered)[Len(p) + 1] = Altered
      /\ Len(Append(p, c)) = Len(p) + 1
  BY <1>1
<1>3. c # Altered /\ Len(p) + 1 # Len(p)
  BY <1>1, AlteredAssumption
<1> QED
  BY <1>2, <1>3 DEF Digest

\* The last entry of a part of the log lends it its digest.
LEMMA LastOf ==
    ASSUME NEW S \in SUBSET Entry, \A e, n \in S : e.id = n.id => e = n,
           NEW e \in S, IsLast(S, e)
    PROVE  LastDigest(S) = e.digest
<1>1. \A n \in S : IsLast(S, n) => n = e
  BY DEF IsLast, Entry
<1> QED
  BY <1>1 DEF LastDigest

LEMMA DamageShows ==
    ASSUME TypeOK, Plain(entries), Linked(entries), head = LastDigest(entries),
           NEW S \in DamagedLogs, Linked(S)
    PROVE  ~IsPrefix(head, LastDigest(S))
<1>0. PICK e \in entries : \/ S = entries \ {e}
                           \/ S = (entries \ {e}) \cup {[e EXCEPT !.content = Altered]}
  BY DEF DamagedLogs
<1>1. /\ e \in Entry /\ e.id \in Nat /\ e.previous \in Digests /\ e.content \in Content
      /\ \A n \in entries : n \in Entry /\ n.id \in Nat
  BY DEF TypeOK, Entry, Plain
<1>2. /\ e.previous = LastDigest(Before(entries, e))
      /\ e.digest = Digest(e.previous, e.content)
  BY DEF Linked, Links
<1>3. CASE S = (entries \ {e}) \cup {[e EXCEPT !.content = Altered]}
  <2> DEFINE n == [e EXCEPT !.content = Altered]
  <2>1. n \in S /\ n.digest = e.digest /\ n.previous = e.previous /\ n.content = Altered
    BY <1>1, <1>3 DEF Entry
  <2> HIDE DEF n
  <2>2. e.digest = Digest(e.previous, Altered)
    BY <2>1 DEF Linked, Links
  <2> QED
    BY <1>1, <1>2, <2>2, DigestsDiffer
<1>4. CASE S = entries \ {e} /\ IsLast(entries, e)
  <2>1. \A n \in S : n.id < e.id
    BY <1>1, <1>4 DEF IsLast, Plain
  <2>2. S = Before(entries, e)
    BY <1>1, <1>4, <2>1 DEF Before
  <2>3. head = e.digest
    BY <1>4, LastOf DEF Plain, TypeOK
  <2>4. Len(head) = Len(e.previous) + 1 /\ Len(e.previous) \in Nat
    BY <1>1, <1>2, <2>3, DigestsDiffer DEF Digests
  <2> QED
    BY <1>2, <2>2, <2>4 DEF IsPrefix
<1>5. CASE S = entries \ {e} /\ ~IsLast(entries, e)
  <2> DEFINE T == {n.id : n \in {m \in entries : e.id < m.id}}
  <2>1. T \in SUBSET Nat /\ T # {}
    BY <1>1, <1>5 DEF IsLast
  <2>2. PICK n \in entries : e.id < n.id /\ \A m \in entries : e.id < m.id => n.id <= m.id
    <3>1. PICK x \in T : \A y \in T : x <= y
      <4> HIDE DEF T
      <4> QED
        BY <2>1, LeastNumber
    <3> QED
      BY <3>1
  <2>3. n \in S /\ n.id \in Nat
    BY <1>1, <1>5, <2>2
  <2>4. Before(S, n) = Before(entries, e)
    <3>1. ASSUME NEW b \in entries PROVE b.id < n.id /\ b # e <=> b.id < e.id
      <4>1. b.id \in Nat /\ (b.id = e.id => b = e) /\ (e.id < b.id => n.id <= b.id)
        BY <1>1, <2>2 DEF Plain
      <4> QED
        BY <1>1, <2>2, <2>3, <4>1
    <3> QED
      BY <1>5, <3>1 DEF Before
  <2>5. LastDigest(Before(entries, n)) = e.digest
    <3>1. e \in Before(entries, n) /\ Before(entries, n) \in SUBSET Entry
      BY <1>1, <2>2 DEF Before
    <3>2. IsLast(Before(entries, n), e)
      BY <1>1, <2>2, <2>3 DEF IsLast, Before
    <3>3. \A a, b \in Before(entries, n) : a.id = b.id => a = b
      BY DEF Before, Plain
    <3> QED
      BY <3>1, <3>2, <3>3, LastOf
  <2>6. n.previous = e.previous /\ n.previous = e.digest
    BY <1>2, <2>2, <2>3, <2>4, <2>5 DEF Linked, Links
  <2> QED
    BY <1>1, <1>2, <2>6, DigestsDiffer
<1> QED
  BY <1>0, <1>3, <1>4, <1>5

\* Wherever an entry of the log is lost or altered, the last one included, the
\* verification tells, at once or after any number of further events.
THEOREM DamageShowsUnderUse == TransactionsSpec => []DamageIsDetected
<1>1. ~damaged /\ TypeOK /\ ChainInv /\ PlainInv => DamageIsDetected
  BY DamageShows DEF DamageIsDetected, ChainInv, PlainInv
<1> QED
  BY <1>1, NothingDamaged, LogIsUsed, TypeCorrect, ChainInvariant, LogIsPlain, PTL
=============================================================================
