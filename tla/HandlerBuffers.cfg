SPECIFICATION Spec
CONSTANTS
  MaxBytes = 5
  ChunkSize = 2
  SendRoom = 3
  Interrupts = TRUE
PROPERTIES
  ImplementsHandler
  EchoLoopEnds
CHECK_DEADLOCK FALSE
