CONSTANTS
  b1 = b1
  b2 = b2
  Buffers = {b1, b2}
  ChunkSizes = {2}
  Lengths = {1, 3}
  MaxBytes = 4
  Failures = {"chunk"}
SYMMETRY BufferSymmetry
SPECIFICATION Spec
INVARIANTS
  BuffersSound
PROPERTY
  ImplementsQueue
CHECK_DEADLOCK FALSE
