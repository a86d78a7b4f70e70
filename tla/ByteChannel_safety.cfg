SPECIFICATION FairSpec
CONSTANTS
  Capacity = 4
  ChunkBytes = 2
  Total = 5
  ReadSizes = {1, 3}
  Closers = {producer, main}
  CloseOps = {"close", "fail"}
  Producer = producer
  WaitModes = {"asleep", "polling"}
CHECK_DEADLOCK FALSE
PROPERTIES ImplementsStream PublishedIsDelivered CloseReleasesPolling
