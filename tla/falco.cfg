SPECIFICATION FairSpec
CONSTANTS
  r1 = r1
  r2 = r2
  e1 = e1
  home = home
  away = away
  app1 = app1
  app2 = app2
  NoRule = NoRule
  Unlisted = Unlisted
  Absent = Absent
  Rules = {r1, r2}
  Experiments = {e1}
  Apps = {app1, app2}
  Namespaces = {home, away}
  HomeNs = home
  Installed = {"falco", "litmus"}
  Specs <- FalcoSpecs
  Leftover = TRUE
  MaxPolicyEdits = 2
  MaxRewrites = 1
  MaxFaults = 1
CHECK_DEADLOCK FALSE
INVARIANT NothingUnguarded
INVARIANT QuietInv
INVARIANT QuietReportsAreDone
INVARIANT ObservedOwnsConfigMap
PROPERTY PolicyKeepsLifecycle
PROPERTY ConfigMapFollowsSpec
PROPERTY ReportCompletes
PROPERTY OrphansCollected
