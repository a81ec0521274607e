--------------------------------- MODULE Login ---------------------------------
(***************************************************************************)
(* Signing in to PassportVault (views.login): the owner's authenticator    *)
(* and recovery codes (OwnerSecurity), and the count of failures that      *)
(* locks the login for everybody (LoginGuard).                             *)
(*                                                                         *)
(* A request locks the guard row and keeps it until its transaction ends.  *)
(* Checking a password takes time, so a request is two actions: it enters, *)
(* and it is answered.  What it read of the guard when it entered is what  *)
(* it saves.                                                               *)
(***************************************************************************)
EXTENDS Integers, Sequences

CONSTANTS
    Request,    \* login requests under way at the same time
    Recovery,   \* recovery codes printed at setup
    Lockout,    \* length of a lock, in steps of the authenticator (15 min)
    MaxClock,   \* bound on the clock
    MaxFailed   \* bound on failures between two successes

ASSUME LockoutAssumption == Lockout \in Nat \ {0}
ASSUME BoundsAssumption == MaxClock \in Nat /\ MaxFailed \in Nat

FailureLimit == 5
Step == 1..(MaxClock + 1)       \* 30 s each; a code names its step
ASSUME CodesAssumption == Recovery \cap Step = {}
Code == Step \cup Recovery

VARIABLES
    clock,      \* the current step
    guard,      \* the LoginGuard row
    security,   \* the OwnerSecurity row
    request,    \* per request: whether it holds the guard, and what it read
    uses,       \* how often each code was accepted
    failedAt    \* when requests failed since the last success

vars == <<clock, guard, security, request, uses, failedAt>>

(***************************** Types ***************************************)

Guard == [failures: Nat, until: Nat]     \* until 0: never locked
NoGuard == [failures |-> 0, until |-> 0]
Pending == [pc: {"idle", "checking"}, guard: Guard]
Idle == [pc |-> "idle", guard |-> NoGuard]

TypeOK ==
    /\ clock \in Nat
    /\ guard \in [failures: 0..(FailureLimit - 1), until: Nat]
    /\ security \in [last: Nat, recovery: SUBSET Recovery]
    /\ request \in [Request -> Pending]
    /\ uses \in [Code -> Nat]
    /\ failedAt \in Seq(Nat)

\* createowner.py 31: the code that set up the authenticator is spent.
Init ==
    /\ clock = 0
    /\ guard = NoGuard
    /\ security = [last |-> 0, recovery |-> Recovery]
    /\ request = [r \in Request |-> Idle]
    /\ uses = [c \in Code |-> 0]
    /\ failedAt = <<>>

(***************************** A request ***********************************)

GuardFree_Always == TRUE
GuardFree == \A r \in Request : request[r].pc = "idle"

\* The row is locked and says that the login is not.
Enter(r) ==
    /\ request[r].pc = "idle" /\ GuardFree
    /\ guard.until <= clock
    /\ request' = [request EXCEPT ![r] = [pc |-> "checking", guard |-> guard]]
    /\ UNCHANGED <<clock, guard, security, uses, failedAt>>

\* The login is locked: the request is answered at once and nothing changes.
Refuse(r) ==
    /\ request[r].pc = "idle" /\ GuardFree
    /\ guard.until > clock
    /\ UNCHANGED vars

Fresh_SameStep(s) == s >= security.last /\ s \in (clock - 1)..(clock + 1)
Fresh(s) == s > security.last /\ s \in (clock - 1)..(clock + 1)

Succeed(r, c) ==
    /\ guard' = NoGuard
    /\ uses' = [uses EXCEPT ![c] = @ + 1]
    /\ failedAt' = <<>>
    /\ request' = [request EXCEPT ![r] = Idle]
    /\ UNCHANGED clock

AcceptTotp(r, s) ==
    /\ request[r].pc = "checking" /\ Fresh(s)
    /\ security' = [security EXCEPT !.last = s]
    /\ Succeed(r, s)

\* security.recovery.pop(i)
Unspent_Kept(c) == security.recovery
Unspent(c) == security.recovery \ {c}
AcceptRecovery(r, c) ==
    /\ request[r].pc = "checking" /\ c \in security.recovery
    /\ security' = [security EXCEPT !.recovery = Unspent(c)]
    /\ Succeed(r, c)

\* The fifth failure locks the login and starts a new count.
Counted_Late(g) ==
    IF g.failures + 1 > FailureLimit
    THEN [failures |-> 0, until |-> clock + Lockout]
    ELSE [g EXCEPT !.failures = @ + 1]
Counted(g) ==
    IF g.failures + 1 >= FailureLimit
    THEN [failures |-> 0, until |-> clock + Lockout]
    ELSE [g EXCEPT !.failures = @ + 1]

\* A wrong name, password or code, or no authenticator set up.
Reject(r) ==
    /\ request[r].pc = "checking" /\ Len(failedAt) < MaxFailed
    /\ guard' = Counted(request[r].guard)
    /\ failedAt' = Append(failedAt, clock)
    /\ request' = [request EXCEPT ![r] = Idle]
    /\ UNCHANGED <<clock, security, uses>>

\* The process dies or the transaction raises: nothing is saved.
Abort(r) ==
    /\ request[r].pc = "checking"
    /\ request' = [request EXCEPT ![r] = Idle]
    /\ UNCHANGED <<clock, guard, security, uses, failedAt>>

Tick ==
    /\ clock < MaxClock
    /\ clock' = clock + 1
    /\ UNCHANGED <<guard, security, request, uses, failedAt>>

LoginStep(r) ==
    \/ Enter(r) \/ Refuse(r) \/ Reject(r) \/ Abort(r)
    \/ \E s \in Step : AcceptTotp(r, s)
    \/ \E c \in Recovery : AcceptRecovery(r, c)

Next == Tick \/ \E r \in Request : LoginStep(r)

Spec == Init /\ [][Next]_vars

(**************************** Properties ***********************************)

\* SECURITY.md 5-6: "TOTP MFA with replay prevention; one-use hashed recovery
\* codes".  No code signs in twice, however many requests present it at once.
CodeUsedOnce == \A c \in Code : uses[c] <= 1

\* SECURITY.md 6: "global 5-failure/15-minute login lockout".  Between two
\* successes no more than five failures fall in any fifteen minutes, although
\* the count starts anew with each lock and is saved from what was read.
GuessesBounded ==
    \A i \in 1..(Len(failedAt) - FailureLimit) :
        failedAt[i + FailureLimit] - failedAt[i] >= Lockout

\* While the login is locked nobody signs in, not even a request that entered
\* before the lock was set.
NoLoginWhileLocked == [][uses' # uses => guard.until <= clock]_vars
=============================================================================
