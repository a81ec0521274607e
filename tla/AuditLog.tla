------------------------------- MODULE AuditLog -------------------------------
(***************************************************************************)
(* The audit chain of PassportVault: audit.event appends an entry that     *)
(* carries the digest of the one before it, under a lock on the one row    *)
(* that holds the last digest (AuditHead); the hourly maintenance command  *)
(* verifies the chain against that row.                                    *)
(*                                                                         *)
(* event runs in a transaction of its own or inside the transaction of the *)
(* operation it records, which may record several entries and may fail     *)
(* after them: the entries and the new head are then undone, the ids they  *)
(* drew are not.                                                           *)
(***************************************************************************)
EXTENDS Naturals, Sequences, FiniteSets

CONSTANTS
    Writer,     \* processes whose transactions record events
    Content,    \* what an entry says: time, actor, action and target
    Altered,    \* what an entry altered from outside says
    MaxEvents   \* bound on the ids drawn

ASSUME EventsAssumption == MaxEvents \in Nat
ASSUME AlteredAssumption == Altered \notin Content

VARIABLES
    entries,   \* the committed Audit rows
    head,      \* AuditHead.digest
    sequence,  \* the last id drawn from the table's sequence
    tx,        \* per writer: its open transaction's entries and head
    verifier,  \* the maintenance command
    damaged    \* a row was lost or altered behind the application's back

vars == <<entries, head, sequence, tx, verifier, damaged>>

(***************************** Types ***************************************)

\* An HMAC over an entry and the digest before it: no two agree, so a digest
\* stands for all the contents it was computed from.
Genesis == <<>>
Digest(previous, content) == Append(previous, content)
Digests == Seq(Content)

Entry == [id: Nat, content: Content \cup {Altered}, previous: Digests, digest: Digests]
Transaction == [open: BOOLEAN, head: Digests, rows: SUBSET Entry]
NoTransaction == [open |-> FALSE, head |-> Genesis, rows |-> {}]
Report == {"", "valid", "AUDIT CHAIN INVALID", "AUDIT HEAD INVALID"}
Verifier == [scanned: BOOLEAN, last: Digests, report: Report]
NotStarted == [scanned |-> FALSE, last |-> Genesis, report |-> ""]

TypeOK ==
    /\ entries \subseteq Entry
    /\ head \in Digests
    /\ sequence \in Nat
    /\ tx \in [Writer -> Transaction]
    /\ verifier \in Verifier
    /\ damaged \in BOOLEAN

(************************* Recording an event ******************************)

Init ==
    /\ entries = {}
    /\ head = Genesis
    /\ sequence = 0
    /\ tx = [w \in Writer |-> NoTransaction]
    /\ verifier = NotStarted
    /\ damaged = FALSE

\* A name with a suffix is a mutant: a plausible bug that no specification
\* uses, which shows what a property would catch.

\* The head row is locked from a transaction's first event to its end.
HeadFree_Always(w) == TRUE
HeadFree(w) == \A v \in Writer \ {w} : ~tx[v].open

\* The head as the transaction sees it: its own last update, or the latest
\* committed one.
SeenHead(w) == IF tx[w].open THEN tx[w].head ELSE head

NewEntry_Swapped(w, c) ==
    [id |-> sequence + 1, content |-> c, previous |-> c, digest |-> SeenHead(w)]
NewEntry_Committed(w, c) ==
    [id |-> sequence + 1, content |-> c, previous |-> head,
     digest |-> Digest(head, c)]
NewEntry(w, c) ==
    [id |-> sequence + 1, content |-> c, previous |-> SeenHead(w),
     digest |-> Digest(SeenHead(w), c)]

Event(w, c) ==
    /\ HeadFree(w)
    /\ sequence < MaxEvents
    /\ sequence' = sequence + 1
    /\ tx' = [tx EXCEPT ![w] =
           [open |-> TRUE, head |-> NewEntry(w, c).digest,
            rows |-> tx[w].rows \cup {NewEntry(w, c)}]]
    /\ UNCHANGED <<entries, head, verifier, damaged>>

Commit(w) ==
    /\ tx[w].open
    /\ entries' = entries \cup tx[w].rows
    /\ head' = tx[w].head
    /\ tx' = [tx EXCEPT ![w] = NoTransaction]
    /\ UNCHANGED <<sequence, verifier, damaged>>

\* The operation failed after its event, or its process died.
Abort(w) ==
    /\ tx[w].open
    /\ tx' = [tx EXCEPT ![w] = NoTransaction]
    /\ UNCHANGED <<entries, head, sequence, verifier, damaged>>

(*************************** Verification **********************************)

Before(S, e) == {b \in S : b.id < e.id}
IsLast(S, e) == \A b \in S : b.id <= e.id
LastDigest(S) ==
    IF \E e \in S : IsLast(S, e)
    THEN (CHOOSE e \in S : IsLast(S, e)).digest ELSE Genesis

\* maintenance.py 19: each entry is as it was recorded, after the one before.
Links(S, e) ==
    /\ e.previous = LastDigest(Before(S, e))
    /\ e.digest = Digest(e.previous, e.content)
Linked_Digests(S) ==
    \A e \in S : e.digest = Digest(e.previous, e.content)
Linked(S) == \A e \in S : Links(S, e)

\* One query reads every entry.
Scan ==
    /\ ~verifier.scanned
    /\ verifier' = IF Linked(entries)
           THEN [scanned |-> TRUE, last |-> LastDigest(entries), report |-> ""]
           ELSE [NotStarted EXCEPT !.report = "AUDIT CHAIN INVALID"]
    /\ UNCHANGED <<entries, head, sequence, tx, damaged>>

\* Another one reads the head.
HeadMatches == head = verifier.last

ReadHead ==
    /\ verifier.scanned
    /\ verifier' = [verifier EXCEPT !.scanned = FALSE,
           !.report = IF HeadMatches THEN "valid" ELSE "AUDIT HEAD INVALID"]
    /\ UNCHANGED <<entries, head, sequence, tx, damaged>>

\* Once, a committed entry is lost or altered outside the application.
Damage ==
    /\ ~damaged
    /\ \E e \in entries :
        \/ entries' = entries \ {e}
        \/ entries' = (entries \ {e}) \cup {[e EXCEPT !.content = Altered]}
    /\ damaged' = TRUE
    /\ UNCHANGED <<head, sequence, tx, verifier>>

Next ==
    \/ \E w \in Writer : Commit(w) \/ Abort(w) \/ \E c \in Content : Event(w, c)
    \/ Scan \/ ReadHead \/ Damage

Spec == Init /\ [][Next]_vars

(**************************** Properties ***********************************)

\* However transactions interleave and fail, the entries in order of their
\* ids are one chain from the genesis value to the head: no two entries
\* follow the same one, none is skipped (audit.py 9-16).
ChainIntact == ~damaged => Linked(entries) /\ head = LastDigest(entries)

\* What is committed to the log stays there, in front of what comes later.
AppendOnly ==
    [][~damaged' => /\ entries \subseteq entries'
                    /\ \A e \in entries, n \in entries' \ entries : e.id < n.id]_vars

\* maintenance.py 22: AUDIT HEAD INVALID is reported of a log whose head does
\* not belong to its entries.
AlarmMeansDamage == verifier.report = "AUDIT HEAD INVALID" => damaged
=============================================================================
