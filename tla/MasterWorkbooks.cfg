SPECIFICATION Spec
CONSTANTS
  r1 = r1
  r2 = r2
  NBooks = 4
  Activator = {r1, r2}
SYMMETRY Activators
INVARIANT TypeOK
INVARIANT ActiveBounded
PROPERTY MasterNotLost
PROPERTY ActivationWins
CHECK_DEADLOCK FALSE
