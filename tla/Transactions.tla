----------------------------- MODULE Transactions -----------------------------
(***************************************************************************)
(* The database transactions of PassportVault, lock by lock.  A request or *)
(* a worker locks document rows (one, or several in the order in which its *)
(* query meets them), the owner's row or the login guard, and last, with   *)
(* its first audit event, the head of the audit log (AuditLog); its        *)
(* changes and its events become visible together when it commits.  What   *)
(* is in a record beyond its place in the queue is left to Documents; the  *)
(* hourly verification, and damage to the log, to AuditLog.                *)
(***************************************************************************)
EXTENDS AuditLog, SequencesExt

CONSTANTS
    NDocs,      \* records ever uploaded (bound)
    File,       \* contents of uploads
    NoFile,
    QueueCap    \* 100 in views.py

DocId == 1..NDocs
Single == {"retry", "delete", "finish"}       \* kinds that lock one document
Several == {"bulk", "compare", "sweep"}       \* kinds that lock any number
Logged == Single \cup {"upload", "bulk", "view"}   \* events in the transaction
Action == {"upload", "retry", "delete", "finish", "view"}

ASSUME TransactionsAssumption ==
    /\ NDocs \in Nat \ {0} /\ QueueCap \in Nat /\ NoFile \notin File
    /\ Content = Action \X DocId

VARIABLES
    record,     \* the committed document rows
    request     \* per writer: the transaction it runs

recordVars == <<record, request>>
logVars == <<entries, head, sequence, tx>>

Document(d) == <<"document", d>>
Owner == <<"owner", 0>>
Guard == <<"guard", 0>>
LockedRow == {Document(d) : d \in DocId} \cup {Owner, Guard}

Stage == {"absent", "queued", "processing", "ended", "deleted"}
Record == [stage: Stage, file: File \cup {NoFile}, again: BOOLEAN]
Request == [kind: Single \cup Several \cup {"none", "upload", "login", "view"},
            file: File \cup {NoFile}, targets: SUBSET DocId,
            todo: Seq(LockedRow), held: SUBSET LockedRow, told: SUBSET DocId]
Idle == [kind |-> "none", file |-> NoFile, targets |-> {}, todo |-> <<>>,
         held |-> {}, told |-> {}]

TransactionsTypeOK ==
    /\ TypeOK
    /\ record \in [DocId -> Record]
    /\ request \in [Writer -> Request]

TransactionsInit ==
    /\ Init
    /\ record = [d \in DocId |-> [stage |-> "absent", file |-> NoFile,
                                  again |-> FALSE]]
    /\ request = [w \in Writer |-> Idle]

Exists(d) == record[d].stage \notin {"absent", "deleted"}
Outstanding == {d \in DocId : record[d].stage \in {"queued", "processing"}}

(************************* Asking for locks ********************************)

\* A query locks the rows it finds in no stated order.
Orders(D) ==
    {s \in [1..Cardinality(D) -> {Document(d) : d \in D}] :
        \A i, j \in DOMAIN s : s[i] = s[j] => i = j}

Plan_NoOwner(kind) == IF kind = "login" THEN <<Guard, Owner>> ELSE <<>>
Plan(kind) ==
    CASE kind = "upload" -> <<Owner>>
      [] kind = "login" -> <<Guard, Owner>>     \* auth_login writes last_login
      [] OTHER -> <<>>

Begin(w, new) ==
    /\ request[w].kind = "none"
    /\ request' = [request EXCEPT ![w] = new]
    /\ UNCHANGED <<record, logVars, verifier, damaged>>

BeginUpload(w, f) ==
    Begin(w, [Idle EXCEPT !.kind = "upload", !.file = f, !.todo = Plan("upload")])
BeginLogin(w) ==
    Begin(w, [Idle EXCEPT !.kind = "login", !.todo = Plan("login")])
\* A request that only logs: which record it shows makes no difference.
BeginView(w) ==
    Exists(1) /\ Begin(w, [Idle EXCEPT !.kind = "view", !.targets = {1}])
BeginSingle(w, kind, d) ==
    /\ Exists(d)
    /\ Begin(w, [Idle EXCEPT !.kind = kind, !.targets = {d}, !.todo = <<Document(d)>>])
\* Bulk delete or comparison of one document locks as a deletion does.
BeginSeveral(w, kind, D) ==
    /\ \A d \in D : Exists(d)
    /\ kind = "sweep" \/ Cardinality(D) > 1
    /\ \E s \in Orders(D) :
           Begin(w, [Idle EXCEPT !.kind = kind, !.targets = D, !.todo = s])

Holds(v, row) == row \in request[v].held

Lock(w) ==
    /\ request[w].todo # <<>>
    /\ \A v \in Writer : ~Holds(v, Head(request[w].todo))
    /\ request' = [request EXCEPT ![w].held = @ \cup {Head(request[w].todo)},
                                  ![w].todo = Tail(@)]
    /\ UNCHANGED <<record, logVars, verifier, damaged>>

(************************ Working under locks ******************************)

\* The second count and the duplicate test, and the inserted row.
Admitted(f) ==
    /\ Cardinality(Outstanding) < QueueCap
    /\ \A d \in DocId : Exists(d) => record[d].file # f
NewDoc(d) ==
    /\ record[d].stage = "absent"
    /\ \A v \in Writer : request[v].kind = "upload" => d \notin request[v].targets
Admit(w) ==
    /\ request[w].kind = "upload" /\ request[w].todo = <<>>
    /\ request[w].targets = {} /\ Admitted(request[w].file)
    /\ \E d \in DocId :
        /\ NewDoc(d) /\ \A e \in DocId : NewDoc(e) => d <= e
        /\ request' = [request EXCEPT ![w].targets = {d}]
    /\ UNCHANGED <<record, logVars, verifier, damaged>>

\* What the locked rows must be for the operation to go on.
Allowed(w) ==
    \A d \in request[w].targets :
        CASE request[w].kind = "retry" -> record[d].stage = "ended"
          [] request[w].kind = "finish" -> record[d].stage = "processing"
          [] request[w].kind \in {"delete", "bulk"} ->
                 Exists(d) /\ record[d].stage # "processing"
          [] OTHER -> TRUE

ActionOf(kind) == IF kind = "bulk" THEN "delete" ELSE kind

\* An event inside the transaction, once its rows are locked.
Ready_Early(w) == TRUE
Ready(w) == request[w].todo = <<>>
Tell(w, d) ==
    /\ request[w].kind \in Logged /\ d \in request[w].targets \ request[w].told
    /\ Ready(w) /\ Allowed(w)
    /\ Event(w, <<ActionOf(request[w].kind), d>>)
    /\ request' = [request EXCEPT ![w].told = @ \cup {d}]
    /\ UNCHANGED record

Written(w, d) ==
    LET row == record[d] IN
    IF d \notin request[w].targets THEN row
    ELSE CASE request[w].kind = "upload" ->
                [stage |-> "queued", file |-> request[w].file, again |-> FALSE]
           [] request[w].kind = "retry" ->
                [row EXCEPT !.stage = "queued", !.again = TRUE]
           [] request[w].kind = "finish" -> [row EXCEPT !.stage = "ended"]
           [] request[w].kind = "sweep" /\ row.stage = "processing" ->
                [row EXCEPT !.stage = "ended"]
           [] request[w].kind \in {"delete", "bulk"} ->
                [row EXCEPT !.stage = "deleted"]
           [] OTHER -> row

Complete_Untold(w) == request[w].todo = <<>> /\ request[w].targets # {}
Complete(w) ==
    /\ request[w].todo = <<>>
    /\ request[w].kind \in Logged =>
           /\ request[w].told = request[w].targets /\ request[w].told # {}

Succeed(w) ==
    /\ request[w].kind # "none" /\ Complete(w)
    /\ record' = [d \in DocId |-> Written(w, d)]
    /\ request' = [request EXCEPT ![w] = Idle]
    /\ IF tx[w].open THEN Commit(w) ELSE UNCHANGED vars

\* The operation is refused or fails, its process dies, or the database picks
\* it as the victim of a deadlock.
Fail(w) ==
    /\ request[w].kind # "none"
    /\ request' = [request EXCEPT ![w] = Idle]
    /\ UNCHANGED record
    /\ IF tx[w].open THEN Abort(w) ELSE UNCHANGED vars

\* A worker's claim skips locked rows and logs nothing.
Claim(d) ==
    /\ record[d].stage = "queued" /\ \A w \in Writer : ~Holds(w, Document(d))
    /\ record' = [record EXCEPT ![d].stage = "processing"]
    /\ UNCHANGED <<request, vars>>

TransactionsNext ==
    \/ \E w \in Writer :
        \/ \E f \in File : BeginUpload(w, f)
        \/ BeginLogin(w) \/ BeginView(w)
        \/ \E kind \in Single, d \in DocId : BeginSingle(w, kind, d)
        \/ \E kind \in Several, D \in (SUBSET DocId) \ {{}} : BeginSeveral(w, kind, D)
        \/ Lock(w) \/ Admit(w) \/ \E d \in DocId : Tell(w, d)
        \/ Succeed(w) \/ Fail(w)
    \/ \E d \in DocId : Claim(d)

TransactionsSpec ==
    TransactionsInit /\ [][TransactionsNext]_<<vars, recordVars>>

(**************************** Properties ***********************************)

\* For what a transaction is waiting: the next row of its query, or the head
\* of the log for its next event.
WaitsFor(w) ==
    IF request[w].todo # <<>>
    THEN {v \in Writer \ {w} : Holds(v, Head(request[w].todo))}
    ELSE IF request[w].kind \in Logged /\ request[w].told # request[w].targets
    THEN {v \in Writer \ {w} : tx[v].open} ELSE {}

\* Each waits for one of them and is waited for by one of them.
Deadlocked(S) ==
    \A w \in S : S \cap WaitsFor(w) # {} /\ \E v \in S : w \in WaitsFor(v)

\* Of the kinds of transactions modelled, only the statements that lock several
\* documents in no order (bulk delete, comparison, the sweep) can end in a
\* deadlock: no upload, login, retry, single deletion, stored result or event
\* does, since the head of the log is always taken last (views.py 55-67,
\* 119-130, 146-192, worker.py 20-46).  An activation, whose UPDATE locks
\* several workbooks (views.py 219-221), is not among the kinds.
OnlySeveralDeadlock ==
    \A S \in SUBSET Writer :
        Deadlocked(S) => \A w \in S : request[w].kind \in Several

\* Uploads at the same time do not slip past each other's tests: no two
\* records hold the same file, and records in their first turn stay within the
\* cap, retries aside, which pass it (views.py 119-127).
UploadsSerialized ==
    /\ \A d, e \in DocId :
        d # e /\ Exists(d) /\ Exists(e) => record[d].file # record[e].file
    /\ Cardinality({d \in Outstanding : ~record[d].again}) <= QueueCap

\* A log from which an entry was lost, or in which one was altered, the last
\* one included, never passes the verification (maintenance.py 19-22): not
\* against the head of the moment, nor against any head that events committed
\* between its two queries lead to, which all extend the present one.
DamagedLogs ==
    {entries \ {e} : e \in entries} \cup
    {(entries \ {e}) \cup {[e EXCEPT !.content = Altered]} : e \in entries}
DamageIsDetected ==
    \A S \in DamagedLogs : Linked(S) => ~IsPrefix(head, LastDigest(S))

\* The log and the records tell one story, whatever was refused, killed or
\* rolled back: a record was uploaded, or deleted, exactly if an entry says so
\* and was retried only if one does (views.py 130, 154, 162, 171, 190).
LogTellsRecords ==
    \A d \in DocId :
        LET logged(a) == \E e \in entries : e.content = <<a, d>> IN
        /\ record[d].stage # "absent" <=> logged("upload")
        /\ record[d].stage = "deleted" <=> logged("delete")
        /\ record[d].again => logged("retry")
=============================================================================
