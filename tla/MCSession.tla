----------------------------- MODULE MCSession ------------------------------
(* Model-checking instances of Session. *)
EXTENDS Session

\* A SwapPane that names a pane of another window leaves a leaf behind that no
\* later request removes: without this constraint the trees grow for ever.
SmallLayouts == \A i \in DOMAIN windows : Len(windows[i].layout) <= MaxPane
=============================================================================
