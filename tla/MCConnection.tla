---------------------------- MODULE MCConnection ----------------------------
(* Model-checking instances of Connection. *)
EXTENDS Connection, TLC

\* Connections are interchangeable, and so are session names.
PeerSymmetry == Permutations(Client) \cup Permutations(Name)
=============================================================================
