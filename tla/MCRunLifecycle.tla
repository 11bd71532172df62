---------------------------- MODULE MCRunLifecycle ----------------------------
(* Small instances of RunLifecycle for TLC. *)
EXTENDS RunLifecycle, TLC

CONSTANTS r1, r2, c1, c2, auto, q1, q2, o1, o2

Symmetry == Permutations(Clients) \cup Permutations(Outputs)

=============================================================================
