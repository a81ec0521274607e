SPECIFICATION Spec
CONSTANTS
  n1 = n1
  n2 = n2
  m1 = m1
  w1 = w1
  w2 = w2
  t1 = t1
  t2 = t2
  NDocs = 1
  Worker = {w1}
  Reverifier = {r1}
  Script = {}
  Tab = {t1}
  Number = {n1, n2}
  NoNumber = NoNumber
  Master = {m1}
  NoMaster = NoMaster
  Outcome <- MCOutcome
  QueueCap = 1
  MaxRevision = 1
  MaxClaims = 3
PROPERTY HumanFieldsKept
