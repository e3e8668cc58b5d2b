SPECIFICATION Spec
CONSTANTS
  s1 = s1
  good = good
  bad = bad
  NoImage = NoImage
  Scans = {s1}
  Images = {good, bad}
  Vulnerable = {bad}
  Specs <- ExchangeSpecs
  UserWrites <- PolicyTwice
  ScansMayFail = FALSE
  JobsExpire = FALSE
  MaxFaults = 0
INVARIANT ReevaluatedAsAsked
CHECK_DEADLOCK FALSE
