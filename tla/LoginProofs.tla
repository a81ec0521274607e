------------------------------ MODULE LoginProofs ------------------------------
(* Theorems about Login, for every number of concurrent requests and of       *)
(* recovery codes and every length of the lock.                               *)
EXTENDS Login, TLAPS

(***************************** Typing **************************************)

LEMMA NullsTyped == NoGuard \in Guard /\ Idle \in Pending /\ Idle.pc = "idle"
  BY DEF NoGuard, Guard, Idle, Pending

LEMMA ConstantsTyped ==
    FailureLimit = 5 /\ Lockout \in Nat \ {0} /\ Step \subseteq Nat
  BY LockoutAssumption, BoundsAssumption DEF FailureLimit, Step

\* While a request checks, the guard is as it read it, the login is not
\* locked, and no other request checks.
Exclusive ==
    \A r \in Request : request[r].pc = "checking" =>
        /\ request[r].guard = guard /\ guard.until <= clock
        /\ \A q \in Request \ {r} : request[q].pc = "idle"

LEMMA SucceedTyped ==
    ASSUME TypeOK, NEW r \in Request, NEW c \in Code, Succeed(r, c)
    PROVE  /\ guard' \in [failures: 0..(FailureLimit - 1), until: Nat]
           /\ uses' \in [Code -> Nat] /\ failedAt' \in Seq(Nat)
           /\ request' \in [Request -> Pending] /\ clock' \in Nat
<1>1. NoGuard \in [failures: 0..(FailureLimit - 1), until: Nat]
  BY ConstantsTyped DEF NoGuard
<1>2. uses' \in [Code -> Nat]
  BY DEF Succeed, TypeOK
<1>3. <<>> \in Seq(Nat)
  OBVIOUS
<1> QED
  BY <1>1, <1>2, <1>3, NullsTyped DEF Succeed, TypeOK

LEMMA CountedTyped ==
    ASSUME clock \in Nat, NEW g \in [failures: 0..(FailureLimit - 1), until: Nat]
    PROVE  /\ Counted(g) \in [failures: 0..(FailureLimit - 1), until: Nat]
           /\ \/ /\ g.failures = FailureLimit - 1
                 /\ Counted(g).failures = 0
                 /\ Counted(g).until = clock + Lockout
              \/ /\ g.failures < FailureLimit - 1
                 /\ Counted(g).failures = g.failures + 1
                 /\ Counted(g).until = g.until
<1>1. g.failures \in Nat /\ g.failures <= 4 /\ g.until \in Nat
  BY ConstantsTyped
<1>2. CASE g.failures = 4
  <2>1. Counted(g) = [failures |-> 0, until |-> clock + Lockout]
    BY <1>2, ConstantsTyped DEF Counted
  <2>2. clock + Lockout \in Nat
    BY ConstantsTyped
  <2> QED
    BY <1>2, <2>1, <2>2, ConstantsTyped
<1>3. CASE g.failures < 4
  <2>1. Counted(g) = [failures |-> g.failures + 1, until |-> g.until]
    BY <1>1, <1>3, ConstantsTyped DEF Counted
  <2>2. g.failures + 1 \in 0..4
    BY <1>1, <1>3
  <2> QED
    BY <1>1, <1>3, <2>1, <2>2, ConstantsTyped
<1> QED
  BY <1>1, <1>2, <1>3

LEMMA NextTyped ==
    ASSUME TypeOK, Exclusive, [Next]_vars PROVE TypeOK'
<1> USE NullsTyped
<1>1. CASE Tick
  BY <1>1 DEF Tick, TypeOK
<1>2. ASSUME NEW r \in Request, Enter(r) PROVE TypeOK'
  <2>1. guard \in Guard
    BY ConstantsTyped DEF TypeOK, Guard
  <2> QED
    BY <1>2, <2>1 DEF Enter, TypeOK, Pending
<1>3. ASSUME NEW r \in Request, Refuse(r) \/ Abort(r) PROVE TypeOK'
  BY <1>3 DEF Refuse, Abort, vars, TypeOK
<1>4. ASSUME NEW r \in Request, Reject(r) PROVE TypeOK'
  <2>1. request[r].guard = guard
    BY <1>4 DEF Reject, Exclusive
  <2>2. guard' \in [failures: 0..(FailureLimit - 1), until: Nat]
    BY <1>4, <2>1, CountedTyped DEF Reject, TypeOK
  <2>3. failedAt' \in Seq(Nat)
    BY <1>4 DEF Reject, TypeOK
  <2> QED
    BY <1>4, <2>2, <2>3 DEF Reject, TypeOK
<1>5. ASSUME NEW r \in Request, NEW s \in Step, AcceptTotp(r, s) PROVE TypeOK'
  <2>1. security' \in [last: Nat, recovery: SUBSET Recovery]
    BY <1>5, ConstantsTyped DEF AcceptTotp, TypeOK
  <2> QED
    BY <1>5, <2>1, SucceedTyped DEF AcceptTotp, Code, TypeOK
<1>6. ASSUME NEW r \in Request, NEW c \in Recovery, AcceptRecovery(r, c)
      PROVE  TypeOK'
  <2>1. security' \in [last: Nat, recovery: SUBSET Recovery]
    BY <1>6 DEF AcceptRecovery, Unspent, TypeOK
  <2> QED
    BY <1>6, <2>1, SucceedTyped DEF AcceptRecovery, Code, TypeOK
<1>7. CASE UNCHANGED vars
  BY <1>7 DEF vars, TypeOK
<1> QED
  BY <1>1, <1>2, <1>3, <1>4, <1>5, <1>6, <1>7 DEF Next, LoginStep

\* A request that ends leaves nobody checking.
LEMMA EndsExclusive ==
    ASSUME TypeOK, Exclusive, NEW r \in Request, request[r].pc = "checking",
           request' = [request EXCEPT ![r] = Idle]
    PROVE  Exclusive' /\ \A q \in Request : request'[q].pc = "idle"
<1>1. \A q \in Request : request'[q].pc = "idle"
  BY NullsTyped DEF TypeOK, Exclusive
<1> QED
  BY <1>1 DEF Exclusive

LEMMA NextExclusive ==
    ASSUME TypeOK, Exclusive, [Next]_vars PROVE Exclusive'
<1>1. CASE Tick
  BY <1>1 DEF Tick, TypeOK, Exclusive
<1>2. ASSUME NEW r \in Request, Enter(r) PROVE Exclusive'
  <2>1. /\ request'[r].guard = guard'
        /\ guard'.until <= clock'
        /\ \A q \in Request \ {r} : request'[q].pc = "idle"
    BY <1>2 DEF Enter, GuardFree, TypeOK
  <2> QED
    BY <2>1 DEF Exclusive
<1>3. ASSUME NEW r \in Request, Refuse(r) PROVE Exclusive'
  BY <1>3 DEF Refuse, vars, Exclusive
<1>4. ASSUME NEW r \in Request, Reject(r) \/ Abort(r) PROVE Exclusive'
  BY <1>4, EndsExclusive DEF Reject, Abort
<1>5. ASSUME NEW r \in Request, NEW s \in Step, AcceptTotp(r, s)
      PROVE  Exclusive'
  BY <1>5, EndsExclusive DEF AcceptTotp, Succeed
<1>6. ASSUME NEW r \in Request, NEW c \in Recovery, AcceptRecovery(r, c)
      PROVE  Exclusive'
  BY <1>6, EndsExclusive DEF AcceptRecovery, Succeed
<1>7. CASE UNCHANGED vars
  BY <1>7 DEF vars, Exclusive
<1> QED
  BY <1>1, <1>2, <1>3, <1>4, <1>5, <1>6, <1>7 DEF Next, LoginStep

\* Every reachable state is well typed, and a request that checks a code does so alone,
\* on the guard as it read it (views.py 56-80).
THEOREM LoginTyped == Spec => [](TypeOK /\ Exclusive)
<1>1. Init => TypeOK /\ Exclusive
  BY NullsTyped, ConstantsTyped DEF Init, TypeOK, Exclusive, NoGuard
<1>2. TypeOK /\ Exclusive /\ [Next]_vars => TypeOK' /\ Exclusive'
  BY NextTyped, NextExclusive
<1> QED
  BY <1>1, <1>2, PTL DEF Spec

\* Every reachable state is well typed; the count of failures stays below five.
THEOREM TypeCorrect == Spec => []TypeOK
  BY LoginTyped, PTL

(***************************** Codes ***************************************)

\* A code that was used is spent: an authenticator step is not after the last
\* one accepted, a recovery code is no longer stored.
Spent ==
    /\ \A s \in Step : uses[s] # 0 => uses[s] = 1 /\ s <= security.last
    /\ \A c \in Recovery : uses[c] # 0 => uses[c] = 1 /\ c \notin security.recovery

LEMMA NextSpent ==
    ASSUME TypeOK, Spent, [Next]_vars PROVE Spent'
<1>1. ASSUME NEW r \in Request, NEW s \in Step, AcceptTotp(r, s) PROVE Spent'
  <2>1. /\ s > security.last /\ security'.last = s
        /\ security'.recovery = security.recovery
        /\ uses' = [uses EXCEPT ![s] = uses[s] + 1]
    BY <1>1 DEF AcceptTotp, Fresh, Succeed, TypeOK
  <2>2. security.last \in Nat /\ Step \subseteq Nat
    BY ConstantsTyped DEF TypeOK
  <2>3. uses[s] = 0
    BY <2>1, <2>2 DEF Spent
  <2>4. uses'[s] = 1 /\ \A c \in Code \ {s} : uses'[c] = uses[c]
    BY <2>1, <2>3 DEF TypeOK, Code
  <2>5. \A u \in Step : uses'[u] # 0 => uses'[u] = 1 /\ u <= security'.last
    BY <2>1, <2>2, <2>4 DEF Spent, Code
  <2>6. \A c \in Recovery :
            uses'[c] # 0 => uses'[c] = 1 /\ c \notin security'.recovery
    BY <2>1, <2>4, CodesAssumption DEF Spent, Code
  <2> QED
    BY <2>5, <2>6 DEF Spent
<1>2. ASSUME NEW r \in Request, NEW c \in Recovery, AcceptRecovery(r, c)
      PROVE  Spent'
  <2>1. /\ c \in security.recovery /\ security'.last = security.last
        /\ security'.recovery = security.recovery \ {c}
        /\ uses' = [uses EXCEPT ![c] = uses[c] + 1]
    BY <1>2 DEF AcceptRecovery, Unspent, Succeed, TypeOK
  <2>2. uses[c] = 0
    BY <2>1 DEF Spent
  <2>3. uses'[c] = 1 /\ \A d \in Code \ {c} : uses'[d] = uses[d]
    BY <2>1, <2>2 DEF TypeOK, Code
  <2>4. \A u \in Step : uses'[u] # 0 => uses'[u] = 1 /\ u <= security'.last
    BY <2>1, <2>3, CodesAssumption DEF Spent, Code
  <2>5. \A d \in Recovery :
            uses'[d] # 0 => uses'[d] = 1 /\ d \notin security'.recovery
    BY <2>1, <2>3 DEF Spent, Code
  <2> QED
    BY <2>4, <2>5 DEF Spent
<1>3. CASE UNCHANGED <<uses, security>>
  BY <1>3 DEF Spent
<1> QED
  BY <1>1, <1>2, <1>3
     DEF Next, LoginStep, Tick, Enter, Refuse, Reject, Abort, vars

\* No authenticator code and no recovery code is accepted twice, whatever
\* requests present it at the same time.
THEOREM CodesAreUsedOnce == Spec => []CodeUsedOnce
<1>1. Init => Spent
  BY DEF Init, Spent, Code
<1>2. TypeOK /\ Spent /\ [Next]_vars => Spent'
  BY NextSpent
<1>3. TypeOK /\ Spent => CodeUsedOnce
  <2> SUFFICES ASSUME TypeOK, Spent, NEW c \in Code PROVE uses[c] <= 1
    BY DEF CodeUsedOnce
  <2>1. uses[c] = 0 \/ uses[c] = 1
    BY DEF Spent, Code
  <2> QED
    BY <2>1
<1> QED
  BY <1>1, <1>2, <1>3, LoginTyped, PTL DEF Spec

(***************************** The lock ************************************)

\* While the login is locked nobody signs in.
THEOREM LockHolds == Spec => NoLoginWhileLocked
<1>1. TypeOK /\ Exclusive /\ [Next]_vars => (uses' # uses => guard.until <= clock)
  <2> SUFFICES ASSUME Exclusive, [Next]_vars, uses' # uses
               PROVE  guard.until <= clock
    OBVIOUS
  <2>1. PICK r \in Request : request[r].pc = "checking"
    BY DEF Next, LoginStep, Tick, Enter, Refuse, Reject, Abort, vars,
           AcceptTotp, AcceptRecovery
  <2> QED
    BY <2>1 DEF Exclusive
<1>2. TypeOK /\ Exclusive /\ [Next]_vars
      => [uses' # uses => guard.until <= clock]_vars
  BY <1>1
<1> QED
  BY <1>2, LoginTyped, PTL DEF Spec, NoLoginWhileLocked

(*************************** The failures **********************************)

\* Failures are recorded in the order of time.  Those counted since the last
\* lock are the last ones recorded; the one before them, if any, set the lock
\* that the guard still shows.
Recorded ==
    /\ guard.failures <= Len(failedAt)
    /\ \A i \in 1..Len(failedAt) :
           failedAt[i] <= clock /\ \A j \in i..Len(failedAt) :
                                       failedAt[i] <= failedAt[j]
    /\ guard.failures < Len(failedAt) =>
           guard.until = failedAt[Len(failedAt) - guard.failures] + Lockout

LEMMA RejectKeepsRecord ==
    ASSUME TypeOK, TypeOK', Exclusive, Recorded, GuessesBounded,
           NEW r \in Request, Reject(r)
    PROVE  Recorded' /\ GuessesBounded'
<1> DEFINE n == Len(failedAt)
           k == guard.failures
<1>1. /\ guard' = Counted(guard) /\ guard.until <= clock
      /\ failedAt' = Append(failedAt, clock) /\ clock' = clock
  BY DEF Reject, Exclusive
<1>2. /\ n \in Nat /\ k \in 0..4 /\ guard.until \in Nat /\ clock \in Nat
      /\ failedAt \in Seq(Nat)
  BY ConstantsTyped DEF TypeOK
<1>3. /\ Len(failedAt') = n + 1 /\ failedAt'[n + 1] = clock
      /\ \A i \in 1..n : failedAt'[i] = failedAt[i] /\ failedAt[i] \in Nat
  BY <1>1, <1>2
<1>4. \A i \in 1..(n + 1) :
          failedAt'[i] <= clock' /\ \A j \in i..(n + 1) : failedAt'[i] <= failedAt'[j]
  <2> SUFFICES ASSUME NEW i \in 1..(n + 1)
               PROVE  /\ failedAt'[i] <= clock
                      /\ \A j \in i..(n + 1) : failedAt'[i] <= failedAt'[j]
    BY <1>1
  <2>1. CASE i = n + 1
    BY <1>2, <1>3, <2>1
  <2>2. CASE i \in 1..n
    <3>1. failedAt'[i] <= clock
      BY <1>3, <2>2 DEF Recorded
    <3>2. ASSUME NEW j \in i..(n + 1) PROVE failedAt'[i] <= failedAt'[j]
      <4>1. CASE j = n + 1
        BY <1>3, <3>1, <4>1
      <4>2. CASE j \in i..n
        BY <1>2, <1>3, <2>2, <4>2 DEF Recorded
      <4> QED
        BY <1>2, <3>2, <4>1, <4>2
    <3> QED
      BY <3>1, <3>2
  <2> QED
    BY <1>2, <2>1, <2>2
<1>5. /\ guard'.failures <= n + 1
      /\ guard'.failures < n + 1 =>
             guard'.until = failedAt'[n + 1 - guard'.failures] + Lockout
  <2>1. guard \in [failures: 0..(FailureLimit - 1), until: Nat]
    BY DEF TypeOK
  <2>2. CASE k = 4
    <3>1. guard'.failures = 0 /\ guard'.until = clock + Lockout
      BY <1>1, <1>2, <2>1, <2>2, CountedTyped, ConstantsTyped
    <3> QED
      BY <1>2, <1>3, <3>1
  <2>3. CASE k < 4
    <3>1. guard'.failures = k + 1 /\ guard'.until = guard.until
      BY <1>1, <1>2, <2>1, <2>3, CountedTyped, ConstantsTyped
    <3>2. k <= n
      BY DEF Recorded
    <3>3. CASE k = n
      BY <1>2, <3>1, <3>3
    <3>4. CASE k < n
      <4>1. guard.until = failedAt[n - k] + Lockout
        BY <3>4 DEF Recorded
      <4>2. n - k \in 1..n /\ n + 1 - guard'.failures = n - k
        BY <1>2, <3>1, <3>4
      <4> QED
        BY <1>2, <1>3, <3>1, <3>4, <4>1, <4>2
    <3> QED
      BY <1>2, <3>2, <3>3, <3>4
  <2> QED
    BY <1>2, <2>2, <2>3
<1>6. Recorded'
  <2>1. Len(failedAt') = n + 1
    BY <1>3
  <2>2. \A i \in 1..Len(failedAt') :
            failedAt'[i] <= clock' /\ \A j \in i..Len(failedAt') :
                                          failedAt'[i] <= failedAt'[j]
    BY <1>4, <2>1
  <2>3. guard'.failures < Len(failedAt') =>
            guard'.until =
                failedAt'[Len(failedAt') - guard'.failures] + Lockout
    <3>1. guard'.failures \in Nat
      BY ConstantsTyped DEF TypeOK
    <3>2. Len(failedAt') - guard'.failures = n + 1 - guard'.failures
      BY <1>2, <2>1, <3>1
    <3> QED
      BY <1>5, <2>1, <3>2
  <2>4. guard'.failures <= Len(failedAt')
    BY <1>5, <2>1
  <2> QED
    BY <2>2, <2>3, <2>4 DEF Recorded
<1>7. ASSUME NEW i \in 1..(n + 1 - 5)
      PROVE  failedAt'[i + 5] - failedAt'[i] >= Lockout
  <2>1. CASE i = n - 4
    <3>1. n - k \in i..n /\ k < n /\ i \in 1..n
      <4>1. i \in Nat \ {0} /\ n = i + 4
        BY <1>2, <2>1
      <4>2. k <= 4 /\ k >= 0 /\ k \in Nat
        BY <1>2
      <4> HIDE DEF k, n
      <4> QED
        BY <4>1, <4>2
    <3>2. guard.until = failedAt[n - k] + Lockout
      BY <3>1 DEF Recorded
    <3>3. failedAt[i] <= failedAt[n - k]
      BY <3>1 DEF Recorded
    <3>4. failedAt'[i + 5] = clock /\ failedAt'[i] = failedAt[i]
      BY <1>2, <1>3, <2>1, <3>1
    <3>5. PICK a \in Nat, b \in Nat, u \in Nat, c \in Nat :
              /\ a = failedAt[i] /\ b = failedAt[n - k] /\ u = guard.until /\ c = clock
              /\ u <= c
      <4>1. failedAt[i] \in Nat /\ failedAt[n - k] \in Nat
        BY <1>2, <1>3, <3>1
      <4> QED
        BY <1>1, <1>2, <4>1
    <3>6. PICK l \in Nat : l = Lockout
      BY ConstantsTyped
    <3>7. u = b + l /\ a <= b
      BY <3>2, <3>3, <3>5, <3>6
    <3>8. c - a >= l
      BY <3>5, <3>7
    <3> QED
      BY <3>4, <3>5, <3>6, <3>8
  <2>2. CASE i \in 1..(n - 5)
    <3>1. failedAt[i + 5] - failedAt[i] >= Lockout
      BY <2>2, ConstantsTyped DEF GuessesBounded
    <3>2. PICK j \in 1..n : j = i + 5 /\ i \in 1..n
      BY <1>2, <2>2
    <3>3. failedAt'[j] = failedAt[j] /\ failedAt'[i] = failedAt[i]
      BY <1>3, <3>2
    <3> QED
      BY <3>1, <3>2, <3>3
  <2> QED
    BY <1>2, <2>1, <2>2
<1> QED
  BY <1>3, <1>6, <1>7, ConstantsTyped DEF GuessesBounded

LEMMA SuccessClearsRecord ==
    ASSUME guard' = NoGuard, failedAt' = <<>> PROVE Recorded' /\ GuessesBounded'
<1>1. Len(failedAt') = 0 /\ guard'.failures = 0
  BY DEF NoGuard
<1>2. Recorded'
  BY <1>1 DEF Recorded
<1>3. GuessesBounded'
  BY <1>1, ConstantsTyped DEF GuessesBounded
<1> QED
  BY <1>2, <1>3

\* Between two successes at most five failures fall in any fifteen minutes,
\* however requests overlap, fail half-way and meet the lock.
THEOREM GuessesAreBounded == Spec => []GuessesBounded
<1>1. Init => Recorded /\ GuessesBounded
  <2> SUFFICES ASSUME Init PROVE Recorded /\ GuessesBounded
    OBVIOUS
  <2>1. Len(failedAt) = 0 /\ guard.failures = 0
    BY DEF Init, NoGuard
  <2> QED
    BY <2>1, ConstantsTyped DEF Recorded, GuessesBounded
<1>2. TypeOK /\ TypeOK' /\ Exclusive /\ Recorded /\ GuessesBounded /\ [Next]_vars
      => Recorded' /\ GuessesBounded'
  <2> SUFFICES ASSUME TypeOK, TypeOK', Exclusive, Recorded, GuessesBounded,
                      [Next]_vars
               PROVE  Recorded' /\ GuessesBounded'
    OBVIOUS
  <2>1. CASE Tick
    <3>1. clock' = clock + 1 /\ failedAt' = failedAt /\ guard' = guard
      BY <2>1 DEF Tick
    <3>2. \A i \in 1..Len(failedAt) : failedAt[i] \in Nat
      BY DEF TypeOK
    <3>3. Recorded'
      BY <3>1, <3>2 DEF Recorded, TypeOK
    <3> QED
      BY <3>1, <3>3 DEF GuessesBounded
  <2>2. ASSUME NEW r \in Request, Reject(r) PROVE Recorded' /\ GuessesBounded'
    BY <2>2, RejectKeepsRecord
  <2>3. ASSUME NEW r \in Request, NEW c, Succeed(r, c)
        PROVE  Recorded' /\ GuessesBounded'
    BY <2>3, SuccessClearsRecord DEF Succeed
  <2>4. CASE UNCHANGED <<clock, guard, failedAt>>
    BY <2>4 DEF Recorded, GuessesBounded
  <2> QED
    BY <2>1, <2>2, <2>3, <2>4
       DEF Next, LoginStep, Enter, Refuse, Abort, AcceptTotp, AcceptRecovery, vars
<1> QED
  BY <1>1, <1>2, LoginTyped, PTL DEF Spec
=============================================================================
