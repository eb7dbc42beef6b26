SPECIFICATION PublicationSpec
CONSTANTS
  Paths <- MCPaths
  Entry <- MCEntry
  Marked <- MCMarked
  Overlay <- MCOverlay
  Holdir <- MCHoldir
  Legacy <- MCLegacy
  Mount <- MCMount
  Alias = "m"
  Worlds <- MCWorlds
  MaxFiles = 3
  MaxEdits = 1
  b1 = b1
  b2 = b2
  Builds <- MCBuilds
  Plans <- MCPlans
  MaxPlan = 2
  Base <- MCBase
  LoadOrder <- MCLoadOrder
  Basename <- MCBasename
  Contents = {1, 2}
  Initially <- MCInitially
  Bundles <- MCBundles
  Reviewed = {"now"}
  Failing = {b1}
  MaxChanges = 1
  AnswerPaths <- MCAnswerPaths
  AnswerEntry <- MCAnswerEntry
  Says <- MCSays
  AnswerWorlds <- MCAnswerWorlds
  Attempts <- MCAttempts
  Names = {"a", "b"}
  Errors = {"e", "f"}
  MaxDepth = 1
  MaxEvents = 2
  CutsInName = FALSE
INVARIANTS PackageTrue ImportsAnswered PublishedIsTested AdmittedMeansSame SkippedMeansSame PassedMeansProved AttributionTrue ScanTold
CHECK_DEADLOCK FALSE
