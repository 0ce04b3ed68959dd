----------------------------- MODULE MCOidcFlow -----------------------------
(***************************************************************************)
(* Instances of OidcFlow for TLC.  Everyone's claims make the same local   *)
(* name, so that every sign-in competes for it; flows, workers and         *)
(* subjects are interchangeable.                                           *)
(***************************************************************************)
EXTENDS OidcFlow, TLC

CONSTANT Camellia   \* a user name

SameBase == [s \in Subjects |-> Camellia]

Symmetry == Permutations(Flows) \cup Permutations(Workers) \cup Permutations(Subjects)
=============================================================================
