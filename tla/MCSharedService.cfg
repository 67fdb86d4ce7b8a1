CONSTANTS
  Clients = {"alice", "bob"}
  Others = {"page"}
  Stale = {"bob"}
  MaxSent = 2
  Quota <- MCQuota
  Shapes <- MCShapes
SPECIFICATION Spec
CHECK_DEADLOCK FALSE
INVARIANTS
  OneResponsePerConnection
  RunAtMostOnce
PROPERTIES
  KeepsThePromise
  OnlyDeathOrphans
