SPECIFICATION FairSpec
CONSTANTS
  MaxBytes = 4
  MaxRoom = 3
  SendRoom = 2
  Interrupts = TRUE
INVARIANTS
  EchoInOrder
  ReadsOnlyWhenWritten
  PendingFits
PROPERTY
  EchoedUnlessForgotten
CHECK_DEADLOCK FALSE
