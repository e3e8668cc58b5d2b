SPECIFICATION Spec
CONSTANTS
  t1 = t1
  home = home
  other = other
  Omitted = Omitted
  Tools = {t1}
  Namespaces = {home, other}
  DefaultNs = home
  ToolSpecs <- AllSpecs
  MaxMoves = 0
  MaxEdits = 2
  MaxBreaks = 0
  MaxFaults = 1
PROPERTY UninstalledFirst
CHECK_DEADLOCK FALSE
