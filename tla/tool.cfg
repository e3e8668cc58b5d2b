SPECIFICATION FairSpec
CONSTANTS
  t1 = t1
  home = home
  other = other
  Omitted = Omitted
  Tools = {t1}
  Namespaces = {home, other}
  DefaultNs = home
  ToolSpecs <- AllSpecs
  MaxMoves = 1
  MaxEdits = 3
  MaxBreaks = 1
  MaxFaults = 1
INVARIANT SharedInv
INVARIANT QuietIsInstalled
INVARIANT ReleasesGuarded
PROPERTY ReleasedClean
PROPERTY ToolsKeepLifecycle
PROPERTY InstallEnds
PROPERTY UninstallEnds
PROPERTY ToolDeletionEnds
CHECK_DEADLOCK FALSE
