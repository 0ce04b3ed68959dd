----------------------------- MODULE MCSessions -----------------------------
(***************************************************************************)
(* Instances of Sessions for TLC.  Worker threads are interchangeable, and *)
(* so are client ids and keys; accounts are not, some are administrators.  *)
(***************************************************************************)
EXTENDS Sessions, TLC

Symmetry == Permutations(Workers) \cup Permutations(Rids) \cup Permutations(Keys)
=============================================================================
