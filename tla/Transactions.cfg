SPECIFICATION TransactionsSpec
CONSTANTS
  w1 = w1
  w2 = w2
  f1 = f1
  f2 = f2
  Writer = {w1, w2}
  Content <- MCContent
  Altered = altered
  MaxEvents = 4
  NDocs = 2
  File = {f1, f2}
  NoFile = NoFile
  QueueCap = 1
SYMMETRY Interchangeable
INVARIANT TransactionsTypeOK
INVARIANT ChainIntact
INVARIANT DamageIsDetected
INVARIANT OnlySeveralDeadlock
INVARIANT UploadsSerialized
INVARIANT LogTellsRecords
PROPERTY AppendOnly
