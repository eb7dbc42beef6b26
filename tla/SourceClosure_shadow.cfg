SPECIFICATION Spec
CONSTANTS
  Paths <- MCPaths
  Entry <- MCEntry
  Marked <- MCMarked
  Overlay <- MCOverlay
  Holdir <- MCHoldir
  Legacy <- MCLegacy
  Mount <- MCMount
  Alias = "m"
  Worlds <- MCWorlds
  MaxFiles = 3
  MaxEdits = 1
INVARIANT LoadsWhatWasCaptured
CHECK_DEADLOCK FALSE
