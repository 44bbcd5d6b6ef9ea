------------------------------ MODULE MCScreen -------------------------------
(* Model-checking instances of Screen. *)
EXTENDS Screen
=============================================================================
