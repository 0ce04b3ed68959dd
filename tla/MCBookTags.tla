----------------------------- MODULE MCBookTags -----------------------------
(* Small instances of BookTags for TLC. *)
EXTENDS BookTags, TLC

CONSTANTS Office, PaddedOffice, Home, Lab

\* Three names, one of them also with white space around it.
FourNames == {Office, PaddedOffice, Home, Lab}
StripPadded == [n \in FourNames |-> IF n = PaddedOffice THEN Office ELSE n]

Symmetry == Permutations(Workers) \cup Permutations(Tags) \cup Permutations(Peers)
              \cup Permutations({Home, Lab})

=============================================================================
