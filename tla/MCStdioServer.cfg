CONSTANTS
  Clients = {"client"}
  MaxSent = 3
  Shapes <- MCShapes
SPECIFICATION Spec
CHECK_DEADLOCK FALSE
INVARIANTS
  EndReleasesEverything
  RepliesAreTrue
PROPERTIES
  RequestsAreAnswered
  ServerEnds
