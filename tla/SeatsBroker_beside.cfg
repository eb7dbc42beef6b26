SPECIFICATION SumSpec
CONSTANTS
  h1 = h1
  v1 = v1
  v2 = v2
  None = None
  SeatCount = 3
  Hot = {h1}
  Vanilla = {v1, v2}
  Operators = {}
  MissingBasis = {}
  AttemptLimit = 2
  Mechanical = TRUE
  ControlOf <- AliasControl
  RuntimeMayDie = FALSE
  Killable = {h1}
  a1 = a1
  b1 = b1
  s1 = s1
  s2 = s2
  NoAttempt = NoAttempt
  Attempts = {a1, b1}
  Sessions = {s1, s2}
  SessionOf <- SessionPair
  Stubborn = {a1}
  MayBeKilled = {b1}
  SlowOwnership = FALSE
  BrokerMayCrash = TRUE
CHECK_DEADLOCK FALSE
INVARIANTS OneHolderPerControl OwnerKeepsSeat
INVARIANTS CompletedMeansGone OwnersRegistered StoppedMeansQuiet
PROPERTIES LeaseService StaleLeaseReclaimed IdleBrokerReaps EveryRequestAnswered
