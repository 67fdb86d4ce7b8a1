CONSTANTS
  Keys <- MCKeys
  ModifierKeys <- MCModifierKeys
  Return = "Return"
  Control = "LeftControl"
  NoVk = {"Eject"}
  Buttons = {"left"}
  Chords <- MCChords
  ShellChords <- MCShellChords
  MaxRepeat = 2
  MaxSteps = 2
  Texts <- MCTexts
  FingerCounts = {1, 3}
  FaultSets <- MCFaultSets
SPECIFICATION Spec
CHECK_DEADLOCK FALSE
INVARIANTS
  ShutdownLeavesNothingDown
  OnlyAskedForStaysDown
  ChordKeysAreInTheLedger
  ModifiersAroundEachEvent
