SPECIFICATION FairSpec
CONSTANTS
  h1 = h1
  v1 = v1
  o1 = o1
  None = None
  SeatCount = 3
  Hot = {h1}
  Vanilla = {v1}
  Operators = {o1}
  MissingBasis = {3}
  AttemptLimit = 0
  Mechanical = TRUE
  ControlOf <- OwnControl
  RuntimeMayDie = TRUE
  Killable = {h1, v1}
INVARIANTS TypeOK TableShape OneGeneration QuarantineSticks
PROPERTY LifecycleLockReleased
