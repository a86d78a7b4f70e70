SPECIFICATION Spec
CONSTANTS
  Clients = {c1, c2}
  Kinds = {"exec", "transaction"}
  Capacity = 2
  MaxTxOps = 1
SYMMETRY ClientSymmetry
INVARIANT NothingLeftPinned
CHECK_DEADLOCK FALSE
