SPECIFICATION Spec
CONSTANTS
  q1 = q1
  q2 = q2
  c1 = c1
  Request = {q1, q2}
  Recovery = {c1}
  Lockout = 3
  MaxClock = 5
  MaxFailed = 7
SYMMETRY Alike
INVARIANT TypeOK
INVARIANT CodeUsedOnce
INVARIANT GuessesBounded
PROPERTY NoLoginWhileLocked
