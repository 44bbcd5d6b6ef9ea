---------------------------- MODULE MCSnapshots -----------------------------
(* Model-checking instances of Snapshots. *)
EXTENDS Snapshots, TLC

\* Connections are interchangeable.
ClientSymmetry == Permutations(Client)
=============================================================================
