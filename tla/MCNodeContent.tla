----------------------------- MODULE MCNodeContent -----------------------------
(* Small instances of NodeContent for TLC. *)
EXTENDS NodeContent, TLC

CONSTANTS n1, n2, empty, t1, t2

Symmetry == Permutations(Nodes)

===============================================================================
