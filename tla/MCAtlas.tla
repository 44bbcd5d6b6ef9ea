------------------------------ MODULE MCAtlas --------------------------------
(* Model-checking instances of Atlas. *)
EXTENDS Atlas

CONSTANTS a, b, wide, tall

\* A character in the first column, and indented.
TwoColumns == {<<a>>, <<Blank, a>>}

\* Two rows of the same text, one of them indented.
SameText == {<<a, b>>, <<Blank, a, b>>}

Widths  == [g \in Bitmap |-> IF g = wide THEN 2 ELSE 1]
Heights == [g \in Bitmap |-> IF g = tall THEN 2 ELSE 1]
=============================================================================
