SPECIFICATION BrokerSpec
CONSTANTS
  a1 = a1
  a2 = a2
  s1 = s1
  NoAttempt = NoAttempt
  Attempts = {a1, a2}
  Sessions = {s1}
  SessionOf <- MCPair
  Stubborn = {}
  MayBeKilled = {}
  SlowOwnership = FALSE
  BrokerMayCrash = FALSE
CHECK_DEADLOCK FALSE
INVARIANTS RecoveredChildGone
