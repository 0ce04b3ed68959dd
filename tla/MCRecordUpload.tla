--------------------------- MODULE MCRecordUpload ---------------------------
(***************************************************************************)
(* Instances of RecordUpload for TLC.  Workers and the data they upload    *)
(* are interchangeable.                                                    *)
(***************************************************************************)
EXTENDS RecordUpload, TLC

Symmetry == Permutations(Workers) \cup Permutations(Bytes)
=============================================================================
