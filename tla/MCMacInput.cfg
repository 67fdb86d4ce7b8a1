CONSTANTS
  Keys <- MCKeys
  ModifierKeys <- MCModifierKeys
  Return = "Return"
  CodeZero = "A"
  Unmapped = {"PlayPause"}
  FlagOf <- MCFlagOf
  Buttons = {"left", "right"}
  Chords <- MCChords
  SwipeChords <- MCSwipeChords
  MaxRepeat = 2
  MaxSteps = 3
  Texts <- MCTexts
  FingerCounts = {1, 2, 3}
  FaultSets <- MCFaultSets
SPECIFICATION Spec
CHECK_DEADLOCK FALSE
INVARIANTS
  ShutdownLeavesNothingDown
  OnlyAskedForStaysDown
  NoPhantomModifier
  PhasedScrollIsClosed
