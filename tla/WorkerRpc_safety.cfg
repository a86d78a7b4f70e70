SPECIFICATION Spec
CONSTANTS
  Hosts = {"node", "browser"}
  MaxRequests = 3
  MaxChunks = 3
CHECK_DEADLOCK FALSE
INVARIANTS StreamIsWhole CloseIsQuiescent CleanupIsNotCut
PROPERTY EveryRequestSettles
