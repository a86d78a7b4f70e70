-------------------------- MODULE MCBrowserStorage --------------------------
(* A database with a file at the root, a directory that holds one file, and *)
(* a volatile file.                                                         *)
EXTENDS BrowserStorage, TLC

MCPaths == {"PG_VERSION", "base", "base/1", "postmaster.pid"}
MCAncestors == [p \in MCPaths |-> IF p = "base/1" THEN {"base"} ELSE {}]
Symmetry == Permutations(Tabs)
=============================================================================
