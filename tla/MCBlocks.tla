------------------------------ MODULE MCBlocks -------------------------------
(* Model-checking instance of Blocks. *)
EXTENDS Blocks
=============================================================================
