SPECIFICATION Spec
CONSTANTS
  h1 = h1
  v1 = v1
  o1 = o1
  None = None
  SeatCount = 2
  Hot = {h1}
  Vanilla = {v1}
  Operators = {o1}
  MissingBasis = {}
  AttemptLimit = 0
  Mechanical = TRUE
  ControlOf <- OwnControl
  RuntimeMayDie = FALSE
  Killable = {h1, v1}
INVARIANT OwnerKeepsSeat
