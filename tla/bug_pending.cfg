SPECIFICATION ResyncSpec
CONSTANTS
  t1 = t1
  home = home
  other = other
  Omitted = Omitted
  Tools = {t1}
  Namespaces = {home, other}
  DefaultNs = home
  ToolSpecs <- OnSpecs
  MaxMoves = 0
  MaxEdits = 1
  MaxBreaks = 0
  MaxFaults = 1
PROPERTY EnabledGetsInstalled
CHECK_DEADLOCK FALSE
