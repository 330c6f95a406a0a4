SPECIFICATION MCSpec
CONSTANTS
  Cap = 7
  InitialNodes = 2
  HeadSize = 2
  PackCap = 4
INVARIANTS
  ReadInOrder
  UnreadIsVisible
  RoomForLifetime
  PackFits
  TcpWaitsOnlyBehindDrained
PROPERTY
  ImplementsBridge
CHECK_DEADLOCK FALSE
