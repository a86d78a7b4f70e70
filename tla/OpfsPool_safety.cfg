SPECIFICATION Spec
CONSTANTS
  Wal = {"wal"}
  Data = {"control"}
  Volatile = {"pid"}
  Seed = {"control"}
  Essential = {"control"}
  Files = {f1, f2, f3}
  Backings = {b1, b2, b3}
  None = None
  MaxWrites = 1
  MaxRefs = 2
  Reserve = 1
SYMMETRY Symmetry
INVARIANTS PublishedFilesIntact BackingsAccounted SyncedIsDurable
PROPERTY FlushedIsKept
