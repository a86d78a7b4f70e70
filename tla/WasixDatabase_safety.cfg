SPECIFICATION Spec
CONSTANTS
  Kinds = {"execute", "query", "raw", "stream", "backup", "tool", "reserve", "transaction"}
  MaxCalls = 3
  MaxTxOps = 2
  IsWorker = TRUE
  HasAbort = TRUE
CHECK_DEADLOCK FALSE
INVARIANTS TransactionIsAlone TransactionIsAtomic CloseExcludesTransaction
PROPERTIES NothingRunsAfterPoison ImplementsSerial
