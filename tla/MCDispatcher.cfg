CONSTANTS
  EnvironmentScale = 2
  Platforms = {"linux", "windows", "macos"}
  Desktops <- MCDesktops
  WindowAt <- MCWindow
  Items = 5
  Slots <- MCSlots
  Live = {1, 2, 4}
  LabelLife = 3
  Plans <- MCPlans
  MaxCalls = 2
  MaxChanges = 1
  Interval = 2
  PollTime = 1
  SettlesInTime = TRUE
SPECIFICATION Spec
CHECK_DEADLOCK FALSE
INVARIANTS
  ImagePointsLandWhereTheyWereSeen
  LabelsNameTheLastTree
  ImageSpaceIsTheHandedImage
  NothingIsOverlookedForLong
  TheEndIsTheEnd
PROPERTIES
  CallsReturn
