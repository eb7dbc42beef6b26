SPECIFICATION FairSpec
CONSTANTS
  MaxTransactions = 3
  MaxCrashes = 2
  MaxForeign = 1
  MaxSurvivals = 1
  StopInFlight = FALSE
CHECK_DEADLOCK FALSE
INVARIANTS TreeAnchored StatusTrue
PROPERTIES RecoverySparesLease PoolNotWedged
