----------------------------- MODULE CopyRegion -----------------------------
(***************************************************************************)
(* drmmode_copy_from_to: the copy between the root bo and a per-CRTC bo on *)
(* each switch between blit and flip mode.  Each buffer lies at its        *)
(* position on the screen; the part of the screen that both cover is       *)
(* copied, one memcpy per row, by pointers that move by the pitch.         *)
(* A pointer is the offset of a byte in its buffer.                        *)
(***************************************************************************)
EXTENDS Integers

CONSTANTS Buffers,  \* the buffers a copy may be between
          Cpp       \* bytes per pixel; assert(src_cpp == dst_cpp)

ASSUME CopyAssumption ==
    /\ Cpp \in Nat \ {0}
    /\ Buffers \subseteq [x : Nat, y : Nat, w : Nat, h : Nat, pitch : Nat]
    /\ \A b \in Buffers : b.w * Cpp <= b.pitch

VARIABLES src, dst,   \* the two buffers
          sp, dp,     \* the pointers src and dst
          y,          \* the loop counter
          written,    \* pairs of bytes copied: <<offset in dst, offset in src>>
          pc          \* "start" -> "rows" -> "done"

vars == <<src, dst, sp, dp, y, written, pc>>

Larger(a, b)  == IF a > b THEN a ELSE b
Smaller(a, b) == IF a < b THEN a ELSE b

\* On one axis: the first pixel to copy in a buffer at position p when the
\* other one is at q, and the number of pixels that both buffers have.
Start(p, q) == Larger(q - p, 0)
ExtentOfOne(p, n, q, m) == n - Start(p, q)         \* mutant: min(...) is missing
Extent(p, n, q, m) == Smaller(n - Start(p, q), m - Start(q, p))

Width  == Extent(src.x, src.w, dst.x, dst.w)
Height == Extent(src.y, src.h, dst.y, dst.h)

FirstOfRow(b, o) == Start(b.y, o.y) * b.pitch      \* mutant: x is left out

\* The first byte of buffer b to copy when the other buffer is o.
First(b, o) == Start(b.y, o.y) * b.pitch + Start(b.x, o.x) * Cpp

Init == /\ src \in Buffers /\ dst \in Buffers
        /\ sp = 0 /\ dp = 0
        /\ y = 0 /\ written = {}
        /\ pc = "start"

NoOverlap == /\ pc = "start"
             /\ Width <= 0 \/ Height <= 0
             /\ pc' = "done"
             /\ UNCHANGED <<src, dst, sp, dp, y, written>>

Begin == /\ pc = "start"
         /\ Width > 0 /\ Height > 0
         /\ sp' = First(src, dst)
         /\ dp' = First(dst, src)
         /\ pc' = "rows"
         /\ UNCHANGED <<src, dst, y, written>>

CopyRow == /\ pc = "rows" /\ y < Height
           /\ written' = written \cup {<<dp + i, sp + i>> : i \in 0..(Width * Cpp - 1)}
           /\ sp' = sp + src.pitch
           /\ dp' = dp + dst.pitch
           /\ y' = y + 1
           /\ UNCHANGED <<src, dst, pc>>

Done == /\ pc = "rows" /\ y >= Height
        /\ pc' = "done"
        /\ UNCHANGED <<src, dst, sp, dp, y, written>>

Next == NoOverlap \/ Begin \/ CopyRow \/ Done

Spec == Init /\ [][Next]_vars
-----------------------------------------------------------------------------
TypeOK ==
    /\ src \in Buffers /\ dst \in Buffers
    /\ sp \in Nat /\ dp \in Nat
    /\ y \in Nat /\ y <= src.h /\ y <= dst.h
    /\ written \subseteq Nat \X Nat
    /\ pc \in {"start", "rows", "done"}

\* No memcpy reads or writes outside the memory of a buffer, whichever of the
\* two is larger and wherever they lie.
InBounds == \A e \in written : e[1] < dst.h * dst.pitch /\ e[2] < src.h * src.pitch

\* The pixels a buffer covers on the screen, and the bytes of one of them.
Covers(b) == (b.x .. (b.x + b.w - 1)) \X (b.y .. (b.y + b.h - 1))
ByteOf(b, p, i) == (p[2] - b.y) * b.pitch + (p[1] - b.x) * Cpp + i

\* In the end exactly the pixels that both buffers cover have been copied, each
\* to its own place on the screen.
CopiesOverlap ==
    pc = "done" =>
        written = {<<ByteOf(dst, p, i), ByteOf(src, p, i)>> :
                      p \in Covers(src) \cap Covers(dst), i \in 0..(Cpp - 1)}
=============================================================================
