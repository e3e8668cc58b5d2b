SPECIFICATION ResyncSpec
CONSTANTS
  s1 = s1
  good = good
  bad = bad
  NoImage = NoImage
  Scans = {s1}
  Images = {good, bad}
  Vulnerable = {bad}
  Specs <- PlainSpecs
  UserWrites <- ToolTwice
  ScansMayFail = FALSE
  JobsExpire = FALSE
  MaxFaults = 0
PROPERTY ToolDeletionCascades
CHECK_DEADLOCK FALSE
