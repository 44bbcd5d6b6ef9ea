------------------------------ MODULE MCLayout ------------------------------
(* Model-checking instances of Layout. *)
EXTENDS Layout

\* A window with room for a floating pane, and one too small for two panes.
LargeAndTiny == {Size(11, 5), Size(2, 1)}

\* Two windows with room for a floating pane, one of which a pane of the other one
\* sticks out of.
TwoRoomy == {Size(14, 8), Size(10, 5)}

StepUpAndDown == {4}
Corner == {Rect(18, 9, 30, 3)}

\* A bound: what follows once a split is at its lower end is not explored (it
\* differs from the upper end in which child is the small one).
NoLowSplit ==
  \A i \in Windows : \A p \in DOMAIN windows[i].tree :
    \A k \in 1 .. Len(windows[i].tree[p]) : windows[i].tree[p][k].ratio > 1
=============================================================================
