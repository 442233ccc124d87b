---------------------------- MODULE MCCopyRegion ----------------------------
(* Buffers of up to 2 by 2 pixels at up to 2 pixels from the origin, rows   *)
(* packed or padded: apart, touching, nested and crossing pairs occur.     *)
EXTENDS CopyRegion

MCBuffers ==
    {[x |-> x, y |-> row, w |-> w, h |-> h, pitch |-> w * Cpp + pad] :
        x \in 0..2, row \in 0..1, w \in 1..2, h \in 1..2, pad \in {0, 1}}
    \cup {[x |-> 0, y |-> 0, w |-> 3, h |-> 3, pitch |-> 3 * Cpp]}
=============================================================================
