---------------------------- MODULE MCBookAccess ----------------------------
(* Small instances of BookAccess for TLC. *)
EXTENDS BookAccess, TLC

CONSTANTS admin, owner, team

\* The second user is in the group, the administrator is not.
GroupsOf == [u \in Users |-> IF u = admin THEN {} ELSE Groups]

Symmetry == Permutations(Workers) \cup Permutations(Ids)

=============================================================================
