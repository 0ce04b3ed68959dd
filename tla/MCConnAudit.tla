---------------------------- MODULE MCConnAudit ----------------------------
(* A small instance of ConnAudit for TLC. *)
EXTENDS ConnAudit, TLC

Symmetry == Permutations(Users) \cup Permutations(Controllers) \cup Permutations(Ids)
            \cup Permutations(Types) \cup Permutations(Workers)

=============================================================================
