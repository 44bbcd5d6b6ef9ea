------------------------------ MODULE MCFrames -------------------------------
(* Model-checking instances of Frames. *)
EXTENDS Frames
=============================================================================
