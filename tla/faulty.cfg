SPECIFICATION Spec
CONSTANTS
  s1 = s1
  good = good
  bad = bad
  NoImage = NoImage
  Scans = {s1}
  Images = {good, bad}
  Vulnerable = {}
  Specs <- ExchangeSpecs
  UserWrites <- PolicyTwice
  ScansMayFail = TRUE
  JobsExpire = FALSE
  MaxFaults = 2
SYMMETRY ImageSymmetry
INVARIANT QuietInv
INVARIANT QuietReportIsDone
INVARIANT NothingUnguarded
INVARIANT ObservedMeansReported
INVARIANT CompletedIsCurrent
PROPERTY ImplementsLifecycle
PROPERTY PolicyKeepsLifecycle
PROPERTY EvaluatedNotStale
PROPERTY ResultIsFinal
PROPERTY FinalizerReleaseClean
CHECK_DEADLOCK FALSE
