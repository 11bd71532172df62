---------------------------- MODULE MCProjectEvents ----------------------------
(* Small instances of ProjectEvents for TLC. *)
EXTENDS ProjectEvents, TLC

===============================================================================
