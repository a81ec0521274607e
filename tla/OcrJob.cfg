SPECIFICATION JobSpec
CONSTANTS
  Value = {1, 2}
  Blank = Blank
  Invalid = Invalid
  NoSheet = NoSheet
  Uploads <- MCUploads
  Evidence <- MCEvidence
  Voter <- MCVoter
  Sheet <- MCSheet
  MrzText = {"y", "z"}
  MaxPages = 2
INVARIANT JobTypeOK
INVARIANT ApprovedIsConfirmed
INVARIANT FailureIsOfKnownNumber
INVARIANT AgreementNeverHurts
PROPERTY ImplementsVerification
PROPERTY RunEnds
CHECK_DEADLOCK FALSE
