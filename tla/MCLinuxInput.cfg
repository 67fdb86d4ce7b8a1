CONSTANTS
  Keys <- MCKeys
  ModifierKeys <- MCModifierKeys
  Return = "Return"
  Control = "LeftControl"
  Buttons = {"left"}
  Chords <- MCChords
  MaxRepeat = 2
  MaxSteps = 2
  Texts <- MCTexts
  FingerCounts = {1, 3}
  FaultSets <- MCFaultSets
  Codes = {36, 37, 38, 255}
  Spares = {255}
  Keymaps <- MCKeymaps
SPECIFICATION Spec
CHECK_DEADLOCK FALSE
INVARIANTS
  ShutdownLeavesNothingDown
  OnlyAskedForStaysDown
  ModifiersSpanThePress
PROPERTIES
  LetsGoOnlyOfWhatItNames
  SpareIsHandedBack
  CallsReturn
