CONSTANTS
  Order <- MCOrder
  Http = {"claude", "codex"}
  Toml = {"codex"}
  Machines <- MCMachines
  Asks <- MCAsks
  DefaultPort = 1
  Fresh = {"g1", "g2"}
  MaxRuns = 2
  MaxFaults = 2
SPECIFICATION Spec
CHECK_DEADLOCK FALSE
INVARIANTS
  DoneMeansConnected
  OthersServersSurvive
  AgainKeepsClients
  StopIsStop
