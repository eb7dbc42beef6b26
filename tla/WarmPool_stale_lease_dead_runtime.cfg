SPECIFICATION FairSpec
CONSTANTS
  v1 = v1
  v2 = v2
  None = None
  SeatCount = 2
  Hot = {}
  Vanilla = {v1, v2}
  Operators = {}
  MissingBasis = {}
  AttemptLimit = 0
  Mechanical = TRUE
  ControlOf <- OwnControl
  RuntimeMayDie = TRUE
  Killable = {v1}
PROPERTY StaleLeaseReclaimed
