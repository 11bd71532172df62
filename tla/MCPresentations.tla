---------------------------- MODULE MCPresentations ----------------------------
(* Small instances of Presentations for TLC. *)
EXTENDS Presentations, TLC

CONSTANTS c1, c2, i1, i2, o1, o2, o3, a1, a2, k1, k2, v1, v2, v3

Symmetry == Permutations(Clients) \cup Permutations(SetIds) \cup Permutations(Ops)

===============================================================================
