SPECIFICATION Spec
CONSTANTS
  Tabs = {t1, t2}
  Kinds = {"opfs", "indexedDb"}
  Paths <- MCPaths
  Ancestors <- MCAncestors
  Essential = {"PG_VERSION"}
  Volatile = {"postmaster.pid"}
  MaxOps = 2
  MaxBackings = 5
SYMMETRY Symmetry
INVARIANTS LockCoversUse PublishedReadable StoredIsPromised
PROPERTIES ReportIsHonest PublishedStays
