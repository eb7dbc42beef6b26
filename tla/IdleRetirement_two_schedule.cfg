SPECIFICATION RetirementSpec
CONSTANTS
  r1 = r1
  r2 = r2
  NoRoute = NoRoute
  Routes = {r1, r2}
  KillableRoutes = {}
INVARIANT MonitorInCharge
CHECK_DEADLOCK FALSE
