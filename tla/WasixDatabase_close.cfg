SPECIFICATION FairSpec
CONSTANTS
  Kinds = {"stream", "reserve", "transaction"}
  MaxCalls = 3
  MaxTxOps = 1
  IsWorker = TRUE
  HasAbort = FALSE
CHECK_DEADLOCK FALSE
PROPERTY CloseEnds
