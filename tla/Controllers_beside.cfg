SPECIFICATION ControllersSpec
CONSTANTS
  None = None
  Controllers = {c1, c2}
  Keys = {k1, k2, k3}
  MaxLive = 2
  MaxGenerations = 3
  MaxCrashes = 1
  Killable = {c1}
  KillInAdoption = FALSE
  MaxLaunches = 3
  MaxKills = 2
  MaxFaults = 2
  MaxPid = 4
  Runs = {c1, c2, c3}
  KillableRuns = {c1, c2}
  Groups = 2
  WorkersOutlive = FALSE
  NoRun = NoRun
  Procs = {p1, p2}
  Replays = {p1}
  KillableProcs = {p2}
  Capacity = 1
  MaxCtrlC = 1
  NoOne = NoOne
  ForkInListing = FALSE
  ReuseWhileOwned = FALSE
  SpawnMayFail = FALSE
INVARIANTS DaemonsAnchored LiveBasesBounded ReportedGroupGone ForeignGroupSpared CancelTold
PROPERTIES RestoredBasesReported UseNotEvicted
CHECK_DEADLOCK FALSE
