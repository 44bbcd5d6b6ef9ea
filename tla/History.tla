------------------------------- MODULE History -------------------------------
(***************************************************************************)
(* What a scrollback promises: whatever lines come, however many at once,  *)
(* it then keeps exactly the newest of the lines it had and the lines that *)
(* came, in order and as many as its capacity allows, and the newest of    *)
(* those it has when the capacity changes.                                 *)
(*                                                                         *)
(* The lines that come are an input: nothing is said about how `waiting`   *)
(* changes.                                                                *)
(***************************************************************************)
EXTENDS Integers, Sequences

VARIABLES
  kept,      \* the lines kept, the oldest first
  capacity,  \* how many lines may be kept
  waiting    \* the lines that the next Record adds, in order

vars == <<kept, capacity>>

Smaller(m, n) == IF m <= n THEN m ELSE n

\* The n newest lines of a sequence, all of them when there are fewer.
Newest(n, lines) == SubSeq(lines, Len(lines) - Smaller(n, Len(lines)) + 1, Len(lines))

Init == kept = <<>> /\ capacity \in Nat

Record ==
  /\ kept' = Newest(capacity, kept \o waiting)
  /\ capacity' = capacity

Resize ==
  /\ capacity' \in Nat
  /\ kept' = Newest(capacity', kept)

Next == Record \/ Resize

Spec == Init /\ [][Next]_vars
=============================================================================
