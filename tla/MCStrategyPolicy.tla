-------------------------- MODULE MCStrategyPolicy --------------------------
(* A small instance of StrategyPolicy for TLC. *)
EXTENDS StrategyPolicy

=============================================================================
