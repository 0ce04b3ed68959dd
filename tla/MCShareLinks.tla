---------------------------- MODULE MCShareLinks ----------------------------
(* Small instances of ShareLinks for TLC. *)
EXTENDS ShareLinks, TLC

Symmetry == Permutations(Workers) \cup Permutations(Machines) \cup Permutations(Links)

=============================================================================
