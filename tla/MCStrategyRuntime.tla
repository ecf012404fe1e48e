-------------------------- MODULE MCStrategyRuntime --------------------------
(* StrategyRuntime for TLC. *)
EXTENDS StrategyRuntime, TLC

Interchangeable == Permutations(Tasks) \cup Permutations(Workers)
=============================================================================
