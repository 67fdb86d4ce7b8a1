CONSTANTS
  Clients = {"alice", "bob"}
  Others = {"page"}
  Stale = {"bob"}
  MaxSent = 1
  Quota <- MCOneEach
  Shapes <- MCMoreShapes
SPECIFICATION Spec
CHECK_DEADLOCK FALSE
PROPERTIES
  RequestsAreAnswered
