CONSTANTS
  b1 = b1
  Buffers = {b1}
  ChunkSizes = {2}
  Lengths = {1, 3}
  MaxBytes = 4
  Failures = {"chunk"}
SPECIFICATION Spec
INVARIANT
  FailureIsAnswered
CHECK_DEADLOCK FALSE
