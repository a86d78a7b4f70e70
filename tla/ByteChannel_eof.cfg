SPECIFICATION Spec
CONSTANTS
  Capacity = 3
  ChunkBytes = 2
  Total = 3
  ReadSizes = {1, 3}
  Closers = {producer}
  CloseOps = {"close"}
  Producer = producer
  WaitModes = {"asleep"}
CHECK_DEADLOCK FALSE
INVARIANT EofAfterAllBytes
