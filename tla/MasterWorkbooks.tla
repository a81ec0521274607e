---------------------------- MODULE MasterWorkbooks ----------------------------
(***************************************************************************)
(* The workbooks of PassportVault and which of them is the active master:  *)
(* uploads and activations by browser requests (views.py), verification,   *)
(* which reads the newest active one (auto_verify.py), and the hourly      *)
(* maintenance, which removes workbooks older than a day.                  *)
(*                                                                         *)
(* An activation reads its workbook, then runs a transaction: one UPDATE   *)
(* clears the flag of the rows that were active when it began (it waits    *)
(* for rows another transaction has changed), then it sets its own.        *)
(***************************************************************************)
EXTENDS Naturals, FiniteSets

CONSTANTS
    NBooks,     \* workbooks ever uploaded (bound)
    Activator   \* requests that activate a master

ASSUME BooksAssumption == NBooks \in Nat

Book == 1..NBooks            \* in order of creation
None == 0

VARIABLES
    book,      \* the Workbook rows
    request    \* per activation: the workbook it activates and what it saw

vars == <<book, request>>

(***************************** Types ***************************************)

BookRow == [stored: BOOLEAN, active: BOOLEAN, old: BOOLEAN, deleted: BOOLEAN]
NoBook == [stored |-> FALSE, active |-> FALSE, old |-> FALSE, deleted |-> FALSE]
Request == [pc: {"idle", "checked", "clearing"}, book: Book \cup {None},
            seen: SUBSET Book]
NoRequest == [pc |-> "idle", book |-> None, seen |-> {}]

\* An active workbook is stored, a request under way has its workbook.
TypeOK ==
    /\ book \in [Book -> BookRow]
    /\ \A b \in Book :
        /\ book[b].deleted => book[b].stored
        /\ book[b].active => book[b].stored /\ ~book[b].deleted
    /\ request \in [Activator -> Request]
    /\ \A r \in Activator : request[r].pc # "idle" => request[r].book # None

(**************************** Requests *************************************)

Stored_Ever(b) == book[b].stored
Stored(b) == book[b].stored /\ ~book[b].deleted
Active == {b \in Book : Stored(b) /\ book[b].active}

\* auto_verify._active_master: the newest active workbook.
ActiveMaster ==
    IF Active = {} THEN None
    ELSE CHOOSE b \in Active : \A c \in Active : c <= b

Init ==
    /\ book = [b \in Book |-> NoBook]
    /\ request = [r \in Activator |-> NoRequest]

UploadBook(b) ==
    /\ ~book[b].stored /\ \A c \in 1..(b - 1) : book[c].stored
    /\ book' = [book EXCEPT ![b].stored = TRUE]
    /\ UNCHANGED request

\* The workbook is read, its sheet and columns are checked.
CheckBook(r, b) ==
    /\ request[r].pc = "idle" /\ Stored(b)
    /\ request' = [request EXCEPT ![r] = [NoRequest EXCEPT !.pc = "checked",
                                                           !.book = b]]
    /\ UNCHANGED book

\* The UPDATE begins: the rows it will clear are those active now.
BeginUpdate(r) ==
    /\ request[r].pc = "checked"
    /\ request' = [request EXCEPT ![r].pc = "clearing", ![r].seen = Active]
    /\ UNCHANGED book

\* The transaction commits.  A row it saw that another one has cleared since
\* is left alone; one that was made active only since is not cleared.
Cleared_None(r) == book
Cleared(r) ==
    [b \in Book |-> IF b \in request[r].seen
                    THEN [book[b] EXCEPT !.active = FALSE] ELSE book[b]]
CommitUpdate(r) ==
    LET b == request[r].book IN
    /\ request[r].pc = "clearing" /\ Stored(b)
    /\ book' = [Cleared(r) EXCEPT ![b].active = TRUE]
    /\ request' = [request EXCEPT ![r] = NoRequest]

\* save(update_fields) matched no row: the whole transaction is rolled back.
\* Likewise if the process dies.
AfterRollBack_KeepsClearing(r) == Cleared(r)
AfterRollBack(r) == book
RollBack(r) ==
    /\ request[r].pc = "clearing"
    /\ book' = AfterRollBack(r)
    /\ request' = [request EXCEPT ![r] = NoRequest]

(*************************** Maintenance ***********************************)

DayPasses(b) ==
    /\ Stored(b) /\ ~book[b].old
    /\ \A c \in 1..(b - 1) : book[c].old
    /\ book' = [book EXCEPT ![b].old = TRUE]
    /\ UNCHANGED request

Expired(b) == Stored(b) /\ book[b].old
Clean ==
    /\ \E b \in Book : Expired(b)
    /\ book' = [b \in Book |-> IF Expired(b)
           THEN [book[b] EXCEPT !.deleted = TRUE, !.active = FALSE] ELSE book[b]]
    /\ UNCHANGED request

ActivateStep(r) ==
    \/ \E b \in Book : CheckBook(r, b)
    \/ BeginUpdate(r) \/ CommitUpdate(r) \/ RollBack(r)

Next ==
    \/ \E b \in Book : UploadBook(b) \/ DayPasses(b)
    \/ \E r \in Activator : ActivateStep(r)
    \/ Clean

Spec == Init /\ [][Next]_vars

(**************************** Properties ***********************************)

\* Whatever activations fail or race, an active master is lost only to its
\* age: a vault that had one verifies against one.
MasterNotLost ==
    [][Active # {} /\ Active' = {} => \A b \in Active : book[b].old]_vars

\* Concurrent activations may leave several workbooks active, one for each of
\* them and no more; with one at a time there is at most one (views.py 220).
ActiveBounded == Cardinality(Active) <= Cardinality(Activator)

\* The workbook an activation makes active is the one verification reads from
\* then on, unless another activation overlapped it.
ActivationWins ==
    [][\A r \in Activator :
        /\ request[r].pc = "clearing" /\ request'[r] = NoRequest /\ book' # book
        /\ request[r].seen = Active
        => ActiveMaster' = request[r].book]_vars
=============================================================================
