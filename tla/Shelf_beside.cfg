SPECIFICATION SumSpec
CONSTANTS
  a1 = a1
  a2 = a2
  u1 = u1
  r1 = r1
  r2 = r2
  r3 = r3
  Monitor = Monitor
  None = None
  Capacity = 2
  Attempts = {a1, a2}
  Expanders = {a1}
  OldClients = {u1}
  Killable = {a1}
  NoRoute = NoRoute
  Routes = {r1, r2, r3}
  KillableRoutes = {r1, r2}
CHECK_DEADLOCK FALSE
INVARIANTS SlotExclusion RetirementQuiescent OwnerRecordsTrue RetiredRecordTrue
PROPERTIES ShelfServes IdleRuntimeRetired EditsChecked
