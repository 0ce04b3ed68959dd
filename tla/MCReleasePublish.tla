-------------------------- MODULE MCReleasePublish --------------------------
EXTENDS ReleasePublish, TLC

CONSTANTS d1, d2, r1, r2

Interchangeable == Permutations({d1, d2}) \cup Permutations({r1, r2})

=============================================================================
