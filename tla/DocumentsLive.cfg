SPECIFICATION FairSpec
CONSTANTS
  n1 = n1
  n2 = n2
  m1 = m1
  w1 = w1
  w2 = w2
  t1 = t1
  t2 = t2
  NDocs = 2
  Worker = {w1}
  Reverifier = {r1}
  Script = {}
  Tab = {}
  Number = {n1}
  NoNumber = NoNumber
  Master = {m1}
  NoMaster = NoMaster
  Outcome <- MCNotInSheet
  QueueCap = 2
  MaxRevision = 0
  MaxClaims = 4
INVARIANT AttemptsBounded
PROPERTY OutstandingEnds
PROPERTY QueueKept
