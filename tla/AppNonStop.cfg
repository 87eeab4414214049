\* Nobody interrupts.
SPECIFICATION Spec
CONSTANTS
  MaxCtrlC = 0
  MaxInt = 0
INVARIANT
  FetchesNonStop
CHECK_DEADLOCK FALSE
