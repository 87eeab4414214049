\* Ctrl-C up to three times, and an interrupt of the parent alone.
SPECIFICATION FairSpec
CONSTANTS
  MaxCtrlC = 3
  MaxInt = 1
INVARIANTS
  TypeOK
  NoRegisteredChildForgotten
PROPERTY
  InterruptEnds
CHECK_DEADLOCK FALSE
