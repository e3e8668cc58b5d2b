SPECIFICATION ResyncSpec
CONSTANTS
  s1 = s1
  good = good
  bad = bad
  NoImage = NoImage
  Scans = {s1}
  Images = {good, bad}
  Vulnerable = {bad}
  Specs <- OnOffSpecs
  UserWrites <- PolicyTwice
  ScansMayFail = TRUE
  JobsExpire = TRUE
  MaxFaults = 0
INVARIANT EveryScanReported
INVARIANT QuietIsServed
PROPERTY DisabledStops
CHECK_DEADLOCK FALSE
