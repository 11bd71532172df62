--------------------------- MODULE MCRevisionLedger ---------------------------
(* Small instances of RevisionLedger for TLC. *)
EXTENDS RevisionLedger, TLC

CONSTANTS a1, a2, v1, v2, v3, v4, w1, w2

Symmetry == Permutations(Artifacts) \cup Permutations(Revisions) \cup Permutations(Workers)

=============================================================================
