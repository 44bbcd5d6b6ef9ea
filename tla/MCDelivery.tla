----------------------------- MODULE MCDelivery -----------------------------
(* Model-checking instance of Delivery. *)
EXTENDS Delivery
=============================================================================
