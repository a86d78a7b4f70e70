SPECIFICATION Spec
CONSTANTS
  Clients = {c1, c2, c3}
  Kinds = {"exec", "transaction", "close", "cancel"}
  Capacity = 1
  MaxTxOps = 1
SYMMETRY ClientSymmetry
INVARIANTS WorkBeforeClose CapacityIsOffered TransactionIsAlone TeardownIsAlone CloseIsExact
CHECK_DEADLOCK FALSE
