\* Every step of the four ways to run a program is interleaved with the program's.
\* A call that has returned stops, and so does one whose program hangs.
SPECIFICATION Spec
CHECK_DEADLOCK FALSE
CONSTANTS
  Programs <- MCPrograms
  Inputs <- MCInputs
  Capacity = 2
INVARIANTS
  ResultIsComplete
  ReportsAreTrue
PROPERTIES
  DeadlineEndsTheCall
  OutputNeverDeadlocks
