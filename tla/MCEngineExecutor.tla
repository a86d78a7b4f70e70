-------------------------- MODULE MCEngineExecutor --------------------------
(***************************************************************************)
(* EngineExecutor for TLC: the clients are interchangeable.                *)
(***************************************************************************)
EXTENDS EngineExecutor, TLC

ClientSymmetry == Permutations(Clients)
=============================================================================
