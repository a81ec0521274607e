SPECIFICATION CompareSpec
CONSTANTS
  n1 = n1
  n2 = n2
  m1 = m1
  NDocs = 1
  Worker = {w1}
  Reverifier = {}
  Script = {}
  Tab = {}
  Number = {n1}
  NoNumber = NoNumber
  Master = {m1}
  NoMaster = NoMaster
  Outcome <- MCInSheet
  QueueCap = 2
  MaxRevision = 1
  MaxClaims = 3
  Comparer = {c1}
PROPERTY NotFoundIsTrue
