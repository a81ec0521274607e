SPECIFICATION Spec
CONSTANTS
  n1 = n1
  n2 = n2
  m1 = m1
  w1 = w1
  w2 = w2
  t1 = t1
  t2 = t2
  NDocs = 1
  Worker = {w1, w2}
  Reverifier = {r1}
  Script = {s1}
  Tab = {t1}
  Number = {n1, n2}
  NoNumber = NoNumber
  Master = {m1}
  NoMaster = NoMaster
  Outcome <- MCOutcome
  QueueCap = 1
  MaxRevision = 1
  MaxClaims = 4
SYMMETRY Workers
INVARIANT TypeOK
INVARIANT ResultsUnderCurrentLease
INVARIANT ClaimsDistinct
INVARIANT MultiNeverApproved
INVARIANT VerdictNeedsExtraction
INVARIANT HistoryComplete
