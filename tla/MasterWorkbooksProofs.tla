------------------------- MODULE MasterWorkbooksProofs -------------------------
(* Theorems about MasterWorkbooks, for every number of workbooks and of        *)
(* activations at the same time.                                               *)
EXTENDS MasterWorkbooks, TLAPS, FiniteSetTheorems

LEMMA NullsTyped ==
    /\ NoBook \in BookRow /\ ~NoBook.deleted /\ ~NoBook.active
    /\ NoRequest \in Request /\ NoRequest.pc = "idle"
  BY DEF NoBook, BookRow, NoRequest, Request, None

LEMMA NextTyped ==
    ASSUME TypeOK, [Next]_vars PROVE TypeOK'
<1>1. ASSUME NEW b \in Book, UploadBook(b) PROVE TypeOK'
  BY <1>1 DEF UploadBook, TypeOK, BookRow
<1>2. ASSUME NEW b \in Book, DayPasses(b) PROVE TypeOK'
  BY <1>2 DEF DayPasses, TypeOK, BookRow
<1>3. ASSUME NEW r \in Activator, NEW b \in Book, CheckBook(r, b) PROVE TypeOK'
  <2>1. [NoRequest EXCEPT !.pc = "checked", !.book = b] \in Request
    BY NullsTyped DEF Request
  <2>2. [NoRequest EXCEPT !.pc = "checked", !.book = b].book # None
    BY DEF NoRequest, Book, None
  <2> QED
    BY <1>3, <2>1, <2>2 DEF CheckBook, TypeOK
<1>4. ASSUME NEW r \in Activator, BeginUpdate(r) PROVE TypeOK'
  BY <1>4 DEF BeginUpdate, TypeOK, Request, Active
<1>5. ASSUME NEW r \in Activator, CommitUpdate(r) PROVE TypeOK'
  <2> DEFINE b == request[r].book
  <2>1. Stored(b) /\ b \in Book
    BY <1>5 DEF CommitUpdate, TypeOK, Request
  <2>2. Cleared(r) \in [Book -> BookRow]
    BY DEF Cleared, TypeOK, BookRow
  <2>3. \A c \in Book : Cleared(r)[c].stored = book[c].stored
                        /\ Cleared(r)[c].deleted = book[c].deleted
                        /\ (Cleared(r)[c].active => book[c].active)
    BY DEF Cleared, TypeOK, BookRow
  <2>4. book' = [Cleared(r) EXCEPT ![b].active = TRUE]
    BY <1>5 DEF CommitUpdate
  <2>5. book' \in [Book -> BookRow]
    BY <2>1, <2>2, <2>4 DEF BookRow
  <2>6. ASSUME NEW c \in Book
        PROVE  /\ book'[c].deleted => book'[c].stored
               /\ book'[c].active => book'[c].stored /\ ~book'[c].deleted
    BY <2>1, <2>2, <2>3, <2>4, <2>6 DEF TypeOK, Stored, BookRow
  <2>7. /\ request' \in [Activator -> Request]
        /\ \A q \in Activator :
               request'[q].pc # "idle" => request'[q].book # None
    BY <1>5, NullsTyped DEF CommitUpdate, TypeOK
  <2> QED
    BY <2>5, <2>6, <2>7 DEF TypeOK
<1>6. ASSUME NEW r \in Activator, RollBack(r) PROVE TypeOK'
  BY <1>6, NullsTyped DEF RollBack, AfterRollBack, TypeOK
<1>7. CASE Clean
  BY <1>7 DEF Clean, Expired, Stored, TypeOK, BookRow
<1>8. CASE UNCHANGED vars
  BY <1>8 DEF vars, TypeOK
<1> QED
  BY <1>1, <1>2, <1>3, <1>4, <1>5, <1>6, <1>7, <1>8 DEF Next, ActivateStep

\* Every reachable state is well typed, and a deleted workbook is never active.
THEOREM TypeCorrect == Spec => []TypeOK
<1>1. Init => TypeOK
  BY NullsTyped DEF Init, TypeOK
<1>2. TypeOK /\ [Next]_vars => TypeOK'
  BY NextTyped
<1> QED
  BY <1>1, <1>2, PTL DEF Spec

\* What a commit leaves active: its own workbook, and what it did not see.
LEMMA CommitEffect ==
    ASSUME TypeOK, TypeOK', NEW r \in Activator, CommitUpdate(r)
    PROVE  /\ request[r].book \in Book
           /\ Active' = (Active \ request[r].seen) \cup {request[r].book}
<1> DEFINE b == request[r].book
<1>1. Stored(b) /\ b \in Book
  BY DEF CommitUpdate, TypeOK, Request
<1>2. book' = [Cleared(r) EXCEPT ![b].active = TRUE]
  BY DEF CommitUpdate
<1>3. ASSUME NEW c \in Book
      PROVE  c \in Active' <=> c \in (Active \ request[r].seen) \cup {b}
  <2>1. /\ Cleared(r)[c].stored = book[c].stored
        /\ Cleared(r)[c].deleted = book[c].deleted
        /\ Cleared(r)[c].active <=> book[c].active /\ c \notin request[r].seen
    BY DEF Cleared, TypeOK, BookRow
  <2>2. Cleared(r) \in [Book -> BookRow]
    BY DEF Cleared, TypeOK, BookRow
  <2>3. /\ book'[c].stored = book[c].stored /\ book'[c].deleted = book[c].deleted
        /\ book'[c].active <=> c = b \/ (book[c].active /\ c \notin request[r].seen)
    BY <1>1, <1>2, <2>1, <2>2 DEF BookRow
  <2> QED
    BY <1>1, <2>3 DEF Active, Stored
<1> QED
  BY <1>1, <1>3 DEF Active

\* The other steps, but for the cleaning of old workbooks, keep what is active.
LEMMA OthersKeepActive ==
    ASSUME TypeOK, [Next]_vars, ~Clean, ~\E r \in Activator : CommitUpdate(r)
    PROVE  Active' = Active
<1>1. ASSUME NEW b \in Book, UploadBook(b) PROVE Active' = Active
  <2>1. ~book[b].stored /\ book' = [book EXCEPT ![b].stored = TRUE]
    BY <1>1 DEF UploadBook
  <2> QED
    BY <2>1 DEF Active, Stored, TypeOK, BookRow
<1>2. ASSUME NEW b \in Book, DayPasses(b) PROVE Active' = Active
  BY <1>2 DEF DayPasses, Active, Stored, TypeOK, BookRow
<1>3. CASE UNCHANGED book
  BY <1>3 DEF Active, Stored
<1> QED
  BY <1>1, <1>2, <1>3 DEF Next, ActivateStep, CheckBook, BeginUpdate, RollBack,
                          AfterRollBack, vars

\* Failed and overlapping activations never leave the vault without a master:
\* one is lost only to its age.
THEOREM MastersAreKept == Spec => MasterNotLost
<1>1. TypeOK /\ TypeOK' /\ [Next]_vars
      => (Active # {} /\ Active' = {} => \A b \in Active : book[b].old)
  <2> SUFFICES ASSUME TypeOK, TypeOK', [Next]_vars, Active' = {},
                      NEW b \in Active
               PROVE  book[b].old
    OBVIOUS
  <2>1. ~\E r \in Activator : CommitUpdate(r)
    BY CommitEffect
  <2>2. Clean
    BY <2>1, OthersKeepActive
  <2>3. ASSUME ~Expired(b) PROVE FALSE
    <3>1. b \in Book /\ book'[b] = book[b]
      BY <2>2, <2>3 DEF Clean, Active, TypeOK
    <3>2. b \in Active'
      BY <3>1 DEF Active, Stored
    <3> QED
      BY <3>2
  <2> QED
    BY <2>3 DEF Expired
<1> QED
  BY <1>1, TypeCorrect, PTL DEF Spec, MasterNotLost

\* An activation that nobody overlapped decides which workbook is read.
THEOREM ActivationsWin == Spec => ActivationWins
<1>1. TypeOK /\ TypeOK' /\ [Next]_vars =>
        \A r \in Activator :
            /\ request[r].pc = "clearing" /\ request'[r] = NoRequest /\ book' # book
            /\ request[r].seen = Active
            => ActiveMaster' = request[r].book
  <2> SUFFICES ASSUME TypeOK, TypeOK', [Next]_vars, NEW r \in Activator,
                      request[r].pc = "clearing", request'[r] = NoRequest,
                      book' # book, request[r].seen = Active
               PROVE  ActiveMaster' = request[r].book
    OBVIOUS
  <2>0. NoRequest.pc = "idle"
    BY DEF NoRequest
  <2>1. request' # request
    BY <2>0
  <2>2. PICK q \in Activator : CommitUpdate(q)
    BY <2>1 DEF Next, UploadBook, DayPasses, Clean, ActivateStep, CheckBook,
                BeginUpdate, RollBack, AfterRollBack, vars
  <2>3. q = r
    BY <2>0, <2>2 DEF CommitUpdate, TypeOK
  <2>4. Active' = {request[r].book}
    BY <2>2, <2>3, CommitEffect
  <2>5. request[r].book \in Nat
    BY <2>2, <2>3, CommitEffect DEF Book
  <2> QED
    BY <2>4, <2>5 DEF ActiveMaster
<1> QED
  BY <1>1, TypeCorrect, PTL DEF Spec, ActivationWins

(*********************** How many can be active ****************************)

\* The active workbooks were made active by different activations, and one
\* that is clearing again saw the workbook it made active.
MadeBy(by) ==
    /\ by \in [Active -> Activator]
    /\ \A b, c \in Active : by[b] = by[c] => b = c
    /\ \A b \in Active :
           request[by[b]].pc = "clearing" => b \in request[by[b]].seen
OwnersInv == \E by : MadeBy(by)

\* Steps that commit nothing keep the owners of what stays active.
LEMMA OwnersStay ==
    ASSUME NEW by, MadeBy(by), Active' \subseteq Active,
           \A r \in Activator : request'[r].pc = "clearing" =>
               \/ request[r].pc = "clearing" /\ request'[r].seen = request[r].seen
               \/ request'[r].seen = Active
    PROVE  OwnersInv'
<1>0. PICK new : new = [b \in Active' |-> by[b]]
  OBVIOUS
<1>1. new \in [Active' -> Activator]
  BY <1>0 DEF MadeBy
<1>2. \A b, c \in Active' : new[b] = new[c] => b = c
  BY <1>0 DEF MadeBy
<1>3. \A b \in Active' : request'[new[b]].pc = "clearing" => b \in request'[new[b]].seen
  BY <1>0, <1>1 DEF MadeBy
<1>4. MadeBy(new)'
  BY <1>1, <1>2, <1>3 DEF MadeBy
<1> QED
  BY <1>4 DEF OwnersInv

LEMMA CommitMakesOwner ==
    ASSUME TypeOK, TypeOK', NEW by, MadeBy(by), NEW r \in Activator, CommitUpdate(r)
    PROVE  OwnersInv'
<1>1. PICK b \in Book : b = request[r].book
  BY CommitEffect
<1>2. Active' = (Active \ request[r].seen) \cup {b}
  BY <1>1, CommitEffect
<1>3. /\ request[r].pc = "clearing" /\ request'[r].pc = "idle"
      /\ \A q \in Activator \ {r} : request'[q] = request[q]
  BY DEF CommitUpdate, NoRequest, TypeOK
<1>0. PICK new : new = [c \in Active' |-> IF c = b THEN r ELSE by[c]]
  OBVIOUS
<1>4. \A c \in Active' : c # b => c \in Active /\ by[c] # r /\ by[c] \in Activator
  BY <1>2, <1>3 DEF MadeBy
<1>5. new \in [Active' -> Activator]
  BY <1>0, <1>4
<1>6. \A c, d \in Active' : new[c] = new[d] => c = d
  BY <1>0, <1>4 DEF MadeBy
<1>7. \A c \in Active' : request'[new[c]].pc = "clearing" => c \in request'[new[c]].seen
  BY <1>0, <1>3, <1>4 DEF MadeBy
<1>8. MadeBy(new)'
  BY <1>5, <1>6, <1>7 DEF MadeBy
<1> QED
  BY <1>8 DEF OwnersInv

\* Overlapping activations leave at most one active workbook each.
THEOREM ActiveIsBounded == ASSUME IsFiniteSet(Activator) PROVE Spec => []ActiveBounded
<1>1. Init => OwnersInv
  <2> SUFFICES ASSUME Init PROVE OwnersInv
    OBVIOUS
  <2>1. Active = {}
    BY NullsTyped DEF Init, Active
  <2>2. MadeBy([b \in {} |-> {}])
    BY <2>1 DEF MadeBy
  <2> QED
    BY <2>2 DEF OwnersInv
<1>2. TypeOK /\ TypeOK' /\ OwnersInv /\ [Next]_vars => OwnersInv'
  <2> SUFFICES ASSUME TypeOK, TypeOK', OwnersInv, [Next]_vars PROVE OwnersInv'
    OBVIOUS
  <2>1. PICK by : MadeBy(by)
    BY DEF OwnersInv
  <2>2. ASSUME NEW r \in Activator, CommitUpdate(r) PROVE OwnersInv'
    BY <2>1, <2>2, CommitMakesOwner
  <2>3. CASE Clean
    <3>1. Active' \subseteq Active /\ request' = request
      BY <2>3 DEF Clean, Active, Stored, TypeOK, BookRow
    <3> QED
      BY <2>1, <3>1, OwnersStay
  <2>4. CASE ~Clean /\ ~\E r \in Activator : CommitUpdate(r)
    <3>1. Active' = Active
      BY <2>4, OthersKeepActive
    <3>2. ASSUME NEW r \in Activator, request'[r].pc = "clearing"
          PROVE  \/ request[r].pc = "clearing" /\ request'[r].seen = request[r].seen
                 \/ request'[r].seen = Active
      <4>1. ASSUME NEW q \in Activator, ActivateStep(q), ~CommitUpdate(q)
            PROVE  request'[r] = request[r] \/ BeginUpdate(r) \/ request'[r].pc # "clearing"
        <5>1. q # r => request'[r] = request[r]
          BY <4>1 DEF ActivateStep, CheckBook, BeginUpdate, RollBack, TypeOK
        <5>2. ASSUME NEW b \in Book, CheckBook(r, b) PROVE request'[r].pc = "checked"
          BY <5>2 DEF CheckBook, NoRequest, TypeOK
        <5>3. RollBack(r) => request'[r].pc = "idle"
          BY DEF RollBack, NoRequest, TypeOK
        <5> QED
          BY <4>1, <5>1, <5>2, <5>3 DEF ActivateStep
      <4>2. BeginUpdate(r) => request'[r].seen = Active
        BY DEF BeginUpdate, TypeOK, Request
      <4>3. request' = request \/ \E q \in Activator : ActivateStep(q)
        BY <2>4 DEF Next, UploadBook, DayPasses, vars
      <4> QED
        BY <2>4, <3>2, <4>1, <4>2, <4>3
    <3> QED
      BY <2>1, <3>1, <3>2, OwnersStay
  <2> QED
    BY <2>2, <2>3, <2>4
<1>3. OwnersInv => ActiveBounded
  <2> SUFFICES ASSUME NEW by, MadeBy(by) PROVE ActiveBounded
    BY DEF OwnersInv
  <2>1. by \in Injection(Active, Activator)
    BY DEF MadeBy, Injection, IsInjective
  <2> QED
    BY <2>1, FS_Injection DEF ActiveBounded
<1> QED
  BY <1>1, <1>2, <1>3, TypeCorrect, PTL DEF Spec
=============================================================================
