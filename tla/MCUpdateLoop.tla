---------------------------- MODULE MCUpdateLoop ----------------------------
(* Three rectangles: the left half, the right half and the whole row.      *)
EXTENDS UpdateLoop

MCRects == {[x |-> 0, w |-> 1], [x |-> 1, w |-> 1], [x |-> 0, w |-> 2]}
=============================================================================
