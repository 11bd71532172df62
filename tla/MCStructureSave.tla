---------------------------- MODULE MCStructureSave ----------------------------
(* Small instances of StructureSave for TLC. *)
EXTENDS StructureSave

CONSTANTS e1, e2, a1, b1

===============================================================================
