SPECIFICATION CompareSpec
CONSTANTS
  n1 = n1
  n2 = n2
  m1 = m1
  NDocs = 1
  Worker = {w1}
  Reverifier = {r1}
  Script = {s1}
  Tab = {t1}
  Number = {n1, n2}
  NoNumber = NoNumber
  Master = {m1}
  NoMaster = NoMaster
  Outcome <- MCInSheets
  QueueCap = 2
  MaxRevision = 1
  MaxClaims = 3
  Comparer = {c1}
INVARIANT CompareTypeOK
INVARIANT MatchIsOfOneApproved
 
