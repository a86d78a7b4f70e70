----------------------------- MODULE MCOpfsPool -----------------------------
\* The pool for the model checker: files, and backing files, are
\* interchangeable.
EXTENDS OpfsPool, TLC

Symmetry == Permutations(Files) \cup Permutations(Backings)
=============================================================================
