-------------------------- MODULE CopyRegion_proofs --------------------------
(***************************************************************************)
(* The copy between two buffers stays inside both and copies what both     *)
(* cover, for buffers of every size, position, pitch and pixel size.       *)
(***************************************************************************)
EXTENDS CopyRegion, TLAPS

\* Where a copy starts on an axis and how far it goes leaves it inside both.
LEMMA AxisInside ==
    ASSUME NEW p \in Nat, NEW n \in Nat, NEW q \in Nat, NEW m \in Nat
    PROVE  /\ Start(p, q) \in Nat
           /\ Extent(p, n, q, m) \in Int
           /\ Start(p, q) + Extent(p, n, q, m) <= n
    BY DEF Start, Extent, Larger, Smaller

LEMMA Multiply ==
    ASSUME NEW a \in Nat, NEW b \in Nat, NEW c \in Nat, a <= b
    PROVE  a * c <= b * c /\ a * c \in Nat /\ b * c \in Nat
    OBVIOUS

LEMMA NextRow ==
    ASSUME NEW r \in Nat, NEW p \in Nat
    PROVE  (r + 1) * p = r * p + p /\ r * p \in Nat
    OBVIOUS

\* Row r of a copy that starts at row a and pixel b and takes n pixels of c
\* bytes from a buffer of h rows of p bytes.
LEMMA RowInside ==
    ASSUME NEW p \in Nat, NEW c \in Nat, NEW a \in Nat, NEW r \in Nat, NEW b \in Nat,
           NEW n \in Nat, NEW w \in Nat, NEW h \in Nat, NEW i \in Nat,
           a + r < h, b + n <= w, w * c <= p, i < n * c
    PROVE  a * p + b * c + r * p + i < h * p
<1>1. (a + r + 1) * p <= h * p
    BY Multiply
<1>2. (b + n) * c <= w * c
    BY Multiply
<1>3. (a + r + 1) * p = a * p + r * p + p
    OBVIOUS
<1>4. (b + n) * c = b * c + n * c
    OBVIOUS
<1>5. /\ a * p \in Nat /\ r * p \in Nat /\ b * c \in Nat /\ n * c \in Nat
      /\ h * p \in Nat /\ w * c \in Nat
    OBVIOUS
<1>. QED
    BY <1>1, <1>2, <1>3, <1>4, <1>5

-----------------------------------------------------------------------------
\* TypeOK, InBounds, and where the pointers are while rows are copied.
Pointers ==
    /\ pc = "start" => y = 0
    /\ pc = "rows" => /\ Width > 0 /\ y <= Height
                      /\ sp = First(src, dst) + y * src.pitch
                      /\ dp = First(dst, src) + y * dst.pitch

Inv == TypeOK /\ InBounds /\ Pointers

LEMMA BufferType ==
    ASSUME NEW b \in Buffers
    PROVE  /\ b.x \in Nat /\ b.y \in Nat /\ b.w \in Nat /\ b.h \in Nat /\ b.pitch \in Nat
           /\ b.w * Cpp <= b.pitch /\ Cpp \in Nat
    BY CopyAssumption

\* Facts about the two buffers of a state.
LEMMA Geometry ==
    ASSUME src \in Buffers, dst \in Buffers
    PROVE  /\ Width \in Int /\ Height \in Int
           /\ Start(src.y, dst.y) \in Nat /\ Start(dst.y, src.y) \in Nat
           /\ Start(src.x, dst.x) \in Nat /\ Start(dst.x, src.x) \in Nat
           /\ Start(src.y, dst.y) + Height <= src.h
           /\ Start(dst.y, src.y) + Height <= dst.h
           /\ Start(src.x, dst.x) + Width <= src.w
           /\ Start(dst.x, src.x) + Width <= dst.w
           /\ First(src, dst) \in Nat /\ First(dst, src) \in Nat
<1>1. /\ src.x \in Nat /\ src.y \in Nat /\ src.w \in Nat /\ src.h \in Nat /\ src.pitch \in Nat
      /\ dst.x \in Nat /\ dst.y \in Nat /\ dst.w \in Nat /\ dst.h \in Nat /\ dst.pitch \in Nat
      /\ Cpp \in Nat
    BY BufferType
<1>2. /\ Start(src.y, dst.y) \in Nat /\ Start(src.y, dst.y) + Height <= src.h
      /\ Height \in Int /\ Height = Extent(dst.y, dst.h, src.y, src.h)
    <2>. DEFINE n == Extent(src.y, src.h, dst.y, dst.h)
    <2>1. Start(src.y, dst.y) \in Nat /\ n \in Int
        BY <1>1, AxisInside
    <2>2. Start(src.y, dst.y) + n <= src.h
        BY <1>1, AxisInside
    <2>3. n = Extent(dst.y, dst.h, src.y, src.h)
        BY <1>1 DEF Extent, Smaller, Start, Larger
    <2>. QED
        BY <2>1, <2>2, <2>3 DEF Height
<1>3. Start(dst.y, src.y) \in Nat /\ Start(dst.y, src.y) + Height <= dst.h
    BY <1>1, <1>2, AxisInside
<1>4. /\ Start(src.x, dst.x) \in Nat /\ Start(src.x, dst.x) + Width <= src.w
      /\ Width \in Int /\ Width = Extent(dst.x, dst.w, src.x, src.w)
    <2>. DEFINE n == Extent(src.x, src.w, dst.x, dst.w)
    <2>1. Start(src.x, dst.x) \in Nat /\ n \in Int
        BY <1>1, AxisInside
    <2>2. Start(src.x, dst.x) + n <= src.w
        BY <1>1, AxisInside
    <2>3. n = Extent(dst.x, dst.w, src.x, src.w)
        BY <1>1 DEF Extent, Smaller, Start, Larger
    <2>. QED
        BY <2>1, <2>2, <2>3 DEF Width
<1>5. Start(dst.x, src.x) \in Nat /\ Start(dst.x, src.x) + Width <= dst.w
    BY <1>1, <1>4, AxisInside
<1>6. First(src, dst) \in Nat /\ First(dst, src) \in Nat
    BY <1>1, <1>2, <1>3, <1>4, <1>5 DEF First
<1>. QED
    BY <1>2, <1>3, <1>4, <1>5, <1>6

LEMMA InvInit == Init => Inv
<1>. SUFFICES ASSUME Init PROVE Inv
    OBVIOUS
<1>1. src.h \in Nat /\ dst.h \in Nat
    BY BufferType DEF Init
<1>. QED
    BY <1>1 DEF Init, Inv, TypeOK, InBounds, Pointers

LEMMA InvNext == Inv /\ [Next]_vars => Inv'
<1>. SUFFICES ASSUME Inv, [Next]_vars PROVE Inv'
    OBVIOUS
<1>. USE DEF Inv
<1>a. src \in Buffers /\ dst \in Buffers
    BY DEF TypeOK
<1>0. /\ src.w \in Nat /\ src.h \in Nat /\ src.pitch \in Nat /\ src.w * Cpp <= src.pitch
      /\ dst.w \in Nat /\ dst.h \in Nat /\ dst.pitch \in Nat /\ dst.w * Cpp <= dst.pitch
      /\ Cpp \in Nat
    BY <1>a, BufferType
<1>1. CASE NoOverlap
    BY <1>1 DEF NoOverlap, TypeOK, InBounds, Pointers
<1>2. CASE Begin
    <2>1. /\ Width' = Width /\ Height' = Height
          /\ First(src, dst)' = First(src, dst) /\ First(dst, src)' = First(dst, src)
        BY <1>2 DEF Begin, Width, Height, First
    <2>2. TypeOK'
        BY <1>2, <1>a, Geometry DEF Begin, TypeOK
    <2>3. InBounds'
        BY <1>2 DEF Begin, InBounds
    <2>4. y = 0 /\ Width \in Int /\ Height \in Int
        BY <1>2, <1>a, Geometry DEF Begin, Pointers
    <2>5. Pointers'
        <3>1. 0 * src.pitch = 0 /\ 0 * dst.pitch = 0
            BY <1>0
        <3>2. First(src, dst) \in Nat /\ First(dst, src) \in Nat
            BY <1>a, Geometry
        <3>. QED
            BY <2>1, <2>4, <3>1, <3>2, <1>2 DEF Begin, Pointers
    <2>. QED
        BY <2>2, <2>3, <2>5
<1>3. CASE CopyRow
    <2>. DEFINE a == Start(src.y, dst.y)
                b == Start(src.x, dst.x)
                c == Start(dst.y, src.y)
                d == Start(dst.x, src.x)
    <2>1. /\ a \in Nat /\ b \in Nat /\ c \in Nat /\ d \in Nat
          /\ Width \in Nat /\ Height \in Int /\ y \in Nat /\ y < Height
          /\ a + Height <= src.h /\ c + Height <= dst.h
          /\ b + Width <= src.w /\ d + Width <= dst.w
        BY <1>3, <1>a, Geometry DEF CopyRow, Pointers, TypeOK
    <2>2. /\ sp = a * src.pitch + b * Cpp + y * src.pitch
          /\ dp = c * dst.pitch + d * Cpp + y * dst.pitch
        BY <1>3 DEF CopyRow, Pointers, First
    <2>3. a + y < src.h /\ c + y < dst.h
        BY <1>0, <2>1
    <2>. HIDE DEF a, b, c, d
    <2>4. \A i \in 0..(Width * Cpp - 1) :
             /\ sp + i \in Nat /\ sp + i < src.h * src.pitch
             /\ dp + i \in Nat /\ dp + i < dst.h * dst.pitch
        <3>. SUFFICES ASSUME NEW i \in 0..(Width * Cpp - 1)
                      PROVE  /\ sp + i \in Nat /\ sp + i < src.h * src.pitch
                             /\ dp + i \in Nat /\ dp + i < dst.h * dst.pitch
            OBVIOUS
        <3>1. i \in Nat /\ i < Width * Cpp
            BY <1>0, <2>1
        <3>2. a * src.pitch + b * Cpp + y * src.pitch + i < src.h * src.pitch
            BY <1>0, <2>1, <2>3, <3>1, RowInside
        <3>3. c * dst.pitch + d * Cpp + y * dst.pitch + i < dst.h * dst.pitch
            BY <1>0, <2>1, <2>3, <3>1, RowInside
        <3>4. sp \in Nat /\ dp \in Nat
            BY DEF TypeOK
        <3>. QED
            BY <2>2, <3>1, <3>2, <3>3, <3>4
    <2>5. TypeOK'
        <3>1. written' \subseteq Nat \X Nat
            BY <1>3, <2>4 DEF CopyRow, TypeOK
        <3>2. y' <= src.h /\ y' <= dst.h /\ y' \in Nat
            BY <1>0, <1>3, <2>1 DEF CopyRow
        <3>3. sp' \in Nat /\ dp' \in Nat
            BY <1>0, <1>3 DEF CopyRow, TypeOK
        <3>. QED
            BY <1>3, <3>1, <3>2, <3>3 DEF CopyRow, TypeOK
    <2>6. InBounds'
        BY <1>3, <2>4 DEF CopyRow, InBounds
    <2>7. Pointers'
        <3>1. /\ Width' = Width /\ Height' = Height
              /\ First(src, dst)' = First(src, dst) /\ First(dst, src)' = First(dst, src)
            BY <1>3 DEF CopyRow, Width, Height, First
        <3>2. /\ (y + 1) * src.pitch = y * src.pitch + src.pitch
              /\ (y + 1) * dst.pitch = y * dst.pitch + dst.pitch
            BY <1>0, <2>1, NextRow
        <3>3. First(src, dst) \in Nat /\ First(dst, src) \in Nat
            BY <1>a, Geometry
        <3>4. y * src.pitch \in Nat /\ y * dst.pitch \in Nat
            BY <1>0, <2>1, NextRow
        <3>5. sp' = First(src, dst) + (y + 1) * src.pitch
            BY <1>0, <1>3, <3>2, <3>3, <3>4 DEF CopyRow, Pointers
        <3>6. dp' = First(dst, src) + (y + 1) * dst.pitch
            BY <1>0, <1>3, <3>2, <3>3, <3>4 DEF CopyRow, Pointers
        <3>7. y' = y + 1 /\ y' <= Height /\ Width > 0 /\ src' = src /\ dst' = dst /\ pc' = "rows"
            BY <1>3, <2>1 DEF CopyRow, Pointers
        <3>. QED
            BY <3>1, <3>5, <3>6, <3>7 DEF Pointers
    <2>. QED
        BY <2>5, <2>6, <2>7
<1>4. CASE Done
    BY <1>4 DEF Done, TypeOK, InBounds, Pointers
<1>5. CASE UNCHANGED vars
    BY <1>5 DEF vars, TypeOK, InBounds, Pointers, Width, Height, First
<1>. QED
    BY <1>1, <1>2, <1>3, <1>4, <1>5 DEF Next

-----------------------------------------------------------------------------
(* What has been copied.                                                   *)

\* The bytes of rows 0..n-1 of the copy, and those of the pixels both cover.
RowAt(b, o, r) == First(b, o) + r * b.pitch
RowPairs(r) == {<<RowAt(dst, src, r) + i, RowAt(src, dst, r) + i>> : i \in 0..(Width * Cpp - 1)}
Rows(n) == UNION {RowPairs(r) : r \in 0..(n - 1)}
Overlap == {<<ByteOf(dst, p, i), ByteOf(src, p, i)>> :
               p \in Covers(src) \cap Covers(dst), i \in 0..(Cpp - 1)}

Copied ==
    /\ pc = "start" => written = {}
    /\ pc = "rows" => Height > 0 /\ written = Rows(y)
    /\ pc = "done" => written = IF Width > 0 /\ Height > 0 THEN Rows(Height) ELSE {}

LEMMA CopiedNext == Inv /\ Copied /\ [Next]_vars => Copied'
<1>. SUFFICES ASSUME Inv, Copied, [Next]_vars PROVE Copied'
    OBVIOUS
<1>1. /\ src' = src /\ dst' = dst /\ Width' = Width /\ Height' = Height
      /\ \A n : Rows(n)' = Rows(n)
    <2>1. src' = src /\ dst' = dst
        BY DEF Next, vars, NoOverlap, Begin, CopyRow, Done
    <2>. QED
        BY <2>1 DEF Width, Height, Rows, RowPairs, RowAt, First
<1>2. CASE NoOverlap
    <2>1. ~(Width > 0 /\ Height > 0)
        BY <1>2, Geometry DEF NoOverlap, Inv, TypeOK
    <2>. QED
        BY <1>1, <1>2, <2>1 DEF NoOverlap, Copied
<1>3. CASE Begin
    <2>1. Rows(0) = {}
        BY DEF Rows
    <2>2. y' = 0 /\ written' = {} /\ pc' = "rows" /\ Height > 0
        BY <1>3 DEF Begin, Copied, Inv, Pointers
    <2>3. Rows(y)' = {}
        BY <1>1, <2>1, <2>2 DEF Rows, RowPairs, RowAt, First
    <2>. QED
        BY <1>1, <2>2, <2>3 DEF Copied
<1>4. CASE CopyRow
    <2>1. y \in Nat /\ written = Rows(y) /\ pc' = "rows" /\ y' = y + 1 /\ Height > 0
        BY <1>4 DEF CopyRow, Copied, Inv, TypeOK
    <2>2. written' = written \cup RowPairs(y)
        BY <1>4 DEF CopyRow, RowPairs, RowAt, Inv, Pointers
    <2>3. Rows(y + 1) = Rows(y) \cup RowPairs(y)
        <3>1. 0..(y + 1 - 1) = 0..(y - 1) \cup {y}
            BY <2>1
        <3>. QED
            BY <3>1 DEF Rows
    <2>4. Rows(y)' = Rows(y + 1)
        BY <1>1, <2>1 DEF Rows, RowPairs, RowAt, First
    <2>. QED
        BY <1>1, <2>1, <2>2, <2>3, <2>4 DEF Copied
<1>5. CASE Done
    <2>1. y = Height /\ Width > 0
        BY <1>5, Geometry DEF Done, Inv, TypeOK, Pointers
    <2>2. Rows(Height)' = Rows(Height)
        BY <1>1 DEF Rows, RowPairs, RowAt, First
    <2>. QED
        BY <1>1, <1>5, <2>1, <2>2 DEF Done, Copied
<1>6. CASE UNCHANGED vars
    <2>1. Rows(y)' = Rows(y) /\ Rows(Height)' = Rows(Height)
        BY <1>1, <1>6 DEF vars, Rows, RowPairs, RowAt, First
    <2>. QED
        BY <1>1, <1>6, <2>1 DEF vars, Copied
<1>. QED
    BY <1>2, <1>3, <1>4, <1>5, <1>6 DEF Next

LEMMA Divide ==
    ASSUME NEW i \in Nat, NEW c \in Nat \ {0}
    PROVE  \E q \in Nat, k \in 0..(c - 1) : i = q * c + k
<1>1. i \div c \in Int /\ i \div c >= 0
    OBVIOUS
<1>2. i % c \in 0..(c - 1)
    OBVIOUS
<1>3. i = (i \div c) * c + (i % c)
    BY Z3
<1>. QED
    BY <1>1, <1>2, <1>3

\* Pixel q of a row of n pixels has its bytes among those of the row.
LEMMA PixelInRow ==
    ASSUME NEW q \in Int, q >= 0, NEW n \in Int, NEW c \in Nat \ {0}, NEW k \in 0..(c - 1)
    PROVE  q * c + k \in 0..(n * c - 1) <=> q < n
<1>1. CASE q < n
    <2>1. n \in Nat /\ q + 1 \in Nat /\ q + 1 <= n
        BY <1>1
    <2>2. (q + 1) * c <= n * c
        BY <2>1, Multiply
    <2>3. (q + 1) * c = q * c + c /\ q * c \in Nat /\ n * c \in Nat
        BY <2>1, NextRow
    <2>. QED
        BY <1>1, <2>2, <2>3
<1>2. CASE q >= n
    <2>1. n * c \in Int /\ q * c \in Int
        OBVIOUS
    <2>2. n * c <= q * c
        <3>1. (q - n) * c >= 0
            BY <1>2
        <3>2. (q - n) * c = q * c - n * c
            OBVIOUS
        <3>. QED
            BY <2>1, <3>1, <3>2
    <2>. QED
        BY <1>2, <2>1, <2>2
<1>. QED
    BY <1>1, <1>2

\* On one axis: the pixels of both buffers are an interval that starts where
\* the copy does, seen from either.
LEMMA AxisCommon ==
    ASSUME NEW p \in Nat, NEW n \in Nat, NEW q \in Nat, NEW m \in Nat
    PROVE  LET first == p + Start(p, q)
           IN  /\ first \in Nat /\ first = q + Start(q, p)
               /\ \A z : z \in p..(p + n - 1) /\ z \in q..(q + m - 1)
                             <=> z \in first..(first + Extent(p, n, q, m) - 1)
    BY DEF Start, Extent, Larger, Smaller

\* The bytes of the pixel in row r and column q of the copy.
LEMMA ByteAt ==
    ASSUME NEW b \in Buffers, NEW o \in Buffers, NEW q \in Nat, NEW r \in Nat, NEW k \in Nat
    PROVE  ByteOf(b, <<b.x + Start(b.x, o.x) + q, b.y + Start(b.y, o.y) + r>>, k)
               = RowAt(b, o, r) + (q * Cpp + k)
<1>. DEFINE s == Start(b.x, o.x)
            t == Start(b.y, o.y)
            v == b.pitch
<1>1. b.x \in Nat /\ b.y \in Nat /\ v \in Nat /\ Cpp \in Nat /\ s \in Nat /\ t \in Nat
    <2>1. /\ b.x \in Nat /\ b.y \in Nat /\ b.w \in Nat /\ b.h \in Nat /\ v \in Nat /\ Cpp \in Nat
          /\ o.x \in Nat /\ o.y \in Nat /\ o.w \in Nat /\ o.h \in Nat
        BY BufferType
    <2>. QED
        BY <2>1, AxisInside
<1>2. ByteOf(b, <<b.x + s + q, b.y + t + r>>, k) = (t + r) * v + (s + q) * Cpp + k
    <2>. DEFINE p == <<b.x + s + q, b.y + t + r>>
                n == p[1] - b.x
                m == p[2] - b.y
    <2>1. n = s + q /\ m = t + r
        <3>. HIDE DEF s, t
        <3>. QED
            BY <1>1
    <2>. HIDE DEF p, s, t
    <2>2. ByteOf(b, p, k) = m * v + n * Cpp + k
        BY DEF ByteOf
    <2>. HIDE DEF n, m
    <2>3. ByteOf(b, p, k) = (t + r) * v + (s + q) * Cpp + k
        BY <2>1, <2>2
    <2>. QED
        BY <2>3 DEF p
<1>3. RowAt(b, o, r) = t * v + s * Cpp + r * v
    BY DEF RowAt, First
<1>. HIDE DEF s, t, v
<1>4. (t + r) * v = t * v + r * v /\ (s + q) * Cpp = s * Cpp + q * Cpp
    BY <1>1
<1>5. t * v \in Int /\ r * v \in Int /\ s * Cpp \in Int /\ q * Cpp \in Int
    BY <1>1
<1>6. (t + r) * v + (s + q) * Cpp + k = t * v + s * Cpp + r * v + (q * Cpp + k)
    BY <1>4, <1>5
<1>. QED
    BY <1>2, <1>3, <1>6 DEF s, t, v

\* The rows of the copy are the pixels that both buffers cover.
LEMMA RowsAreOverlap ==
    ASSUME src \in Buffers, dst \in Buffers
    PROVE  Overlap = IF Width > 0 /\ Height > 0 THEN Rows(Height) ELSE {}
<1>. DEFINE left == src.x + Start(src.x, dst.x)
            top  == src.y + Start(src.y, dst.y)
<1>0. /\ src.x \in Nat /\ src.y \in Nat /\ src.w \in Nat /\ src.h \in Nat
      /\ dst.x \in Nat /\ dst.y \in Nat /\ dst.w \in Nat /\ dst.h \in Nat /\ Cpp \in Nat \ {0}
      /\ Width \in Int /\ Height \in Int
    BY BufferType, Geometry, CopyAssumption
<1>1. /\ left \in Nat /\ left = dst.x + Start(dst.x, src.x)
      /\ \A z : z \in src.x..(src.x + src.w - 1) /\ z \in dst.x..(dst.x + dst.w - 1)
                    <=> z \in left..(left + Width - 1)
    BY <1>0, AxisCommon DEF Width
<1>2. /\ top \in Nat /\ top = dst.y + Start(dst.y, src.y)
      /\ \A z : z \in src.y..(src.y + src.h - 1) /\ z \in dst.y..(dst.y + dst.h - 1)
                    <=> z \in top..(top + Height - 1)
    BY <1>0, AxisCommon DEF Height
<1>3. Covers(src) \cap Covers(dst) = (left..(left + Width - 1)) \X (top..(top + Height - 1))
    <2>. HIDE DEF left, top
    <2>. QED
        BY <1>1, <1>2 DEF Covers
<1>4. ASSUME NEW q \in Nat, NEW r \in Nat, NEW k \in Nat
      PROVE  /\ ByteOf(src, <<left + q, top + r>>, k) = RowAt(src, dst, r) + (q * Cpp + k)
             /\ ByteOf(dst, <<left + q, top + r>>, k) = RowAt(dst, src, r) + (q * Cpp + k)
    <2>1. ByteOf(src, <<left + q, top + r>>, k) = RowAt(src, dst, r) + (q * Cpp + k)
        BY ByteAt
    <2>2. ByteOf(dst, <<dst.x + Start(dst.x, src.x) + q, dst.y + Start(dst.y, src.y) + r>>, k)
              = RowAt(dst, src, r) + (q * Cpp + k)
        BY ByteAt
    <2>. QED
        BY <1>1, <1>2, <2>1, <2>2
<1>. HIDE DEF left, top
<1>. DEFINE pair(q, r, k) == <<RowAt(dst, src, r) + (q * Cpp + k), RowAt(src, dst, r) + (q * Cpp + k)>>
<1>5. ASSUME NEW e
      PROVE  e \in Overlap <=> \E q, r \in Nat, k \in 0..(Cpp - 1) :
                                   q < Width /\ r < Height /\ e = pair(q, r, k)
    <2>1. ASSUME e \in Overlap
          PROVE  \E q, r \in Nat, k \in 0..(Cpp - 1) : q < Width /\ r < Height /\ e = pair(q, r, k)
        <3>1. PICK p \in (left..(left + Width - 1)) \X (top..(top + Height - 1)), k \in 0..(Cpp - 1) :
                 e = <<ByteOf(dst, p, k), ByteOf(src, p, k)>>
            BY <1>3, <2>1 DEF Overlap
        <3>. DEFINE q == p[1] - left
                    r == p[2] - top
        <3>2. /\ q \in Nat /\ r \in Nat /\ q < Width /\ r < Height /\ p = <<left + q, top + r>>
              /\ k \in Nat
            BY <1>0, <1>1, <1>2, <3>1
        <3>. HIDE DEF q, r
        <3>3. e = pair(q, r, k)
            BY <1>4, <3>1, <3>2
        <3>. QED
            BY <3>2, <3>3
    <2>2. ASSUME NEW q \in Nat, NEW r \in Nat, NEW k \in 0..(Cpp - 1), q < Width, r < Height,
                 e = pair(q, r, k)
          PROVE  e \in Overlap
        <3>. DEFINE p == <<left + q, top + r>>
        <3>1. p \in (left..(left + Width - 1)) \X (top..(top + Height - 1)) /\ k \in Nat
            BY <1>0, <1>1, <1>2, <2>2
        <3>2. e = <<ByteOf(dst, p, k), ByteOf(src, p, k)>>
            BY <1>4, <2>2, <3>1
        <3>. HIDE DEF p
        <3>. QED
            BY <1>3, <3>1, <3>2 DEF Overlap
    <2>. QED
        BY <2>1, <2>2
<1>6. ASSUME NEW e
      PROVE  e \in Rows(Height) <=> \E q, r \in Nat, k \in 0..(Cpp - 1) :
                                        q < Width /\ r < Height /\ e = pair(q, r, k)
    <2>1. ASSUME e \in Rows(Height)
          PROVE  \E q, r \in Nat, k \in 0..(Cpp - 1) : q < Width /\ r < Height /\ e = pair(q, r, k)
        <3>1. PICK r \in 0..(Height - 1) : e \in RowPairs(r)
            BY <2>1 DEF Rows
        <3>2. PICK i \in 0..(Width * Cpp - 1) : e = <<RowAt(dst, src, r) + i, RowAt(src, dst, r) + i>>
            BY <3>1 DEF RowPairs
        <3>3. i \in Nat /\ r \in Nat /\ r < Height
            BY <1>0
        <3>4. PICK q \in Nat, k \in 0..(Cpp - 1) : i = q * Cpp + k
            BY <1>0, <3>3, Divide
        <3>5. q < Width
            BY <1>0, <3>2, <3>4, PixelInRow
        <3>. QED
            BY <3>2, <3>3, <3>4, <3>5
    <2>2. ASSUME NEW q \in Nat, NEW r \in Nat, NEW k \in 0..(Cpp - 1), q < Width, r < Height,
                 e = pair(q, r, k)
          PROVE  e \in Rows(Height)
        <3>1. q * Cpp + k \in 0..(Width * Cpp - 1)
            BY <1>0, <2>2, PixelInRow
        <3>2. e \in RowPairs(r)
            BY <2>2, <3>1 DEF RowPairs
        <3>3. r \in 0..(Height - 1)
            BY <1>0, <2>2
        <3>. QED
            BY <3>2, <3>3 DEF Rows
    <2>. QED
        BY <2>1, <2>2
<1>7. CASE Width > 0 /\ Height > 0
    <2>1. \A e : e \in Overlap <=> e \in Rows(Height)
        BY <1>5, <1>6
    <2>2. Overlap = Rows(Height)
        BY <2>1, Zenon
    <2>. QED
        BY <1>7, <2>2
<1>8. CASE ~(Width > 0 /\ Height > 0)
    <2>1. \A e : e \notin Overlap
        BY <1>0, <1>5, <1>8
    <2>2. Overlap = {}
        BY <2>1 DEF Overlap
    <2>. QED
        BY <1>8, <2>2
<1>. QED
    BY <1>7, <1>8

-----------------------------------------------------------------------------
(* Theorems.                                                               *)

\* The variables of drmmode_copy_from_to keep their types: neither a pointer nor
\* the row gets negative, and the row never passes the last of either buffer.
THEOREM CopyTypes == Spec => []TypeOK
<1>1. Init => Inv
    BY InvInit
<1>2. Inv /\ [Next]_vars => Inv'
    BY InvNext
<1>3. Inv => TypeOK
    BY DEF Inv
<1>. QED
    BY <1>1, <1>2, <1>3, PTL DEF Spec

\* Every memcpy of drmmode_copy_from_to stays inside both buffers.
THEOREM CopyStaysInside == Spec => []InBounds
<1>1. Init => Inv
    BY InvInit
<1>2. Inv /\ [Next]_vars => Inv'
    BY InvNext
<1>3. Inv => InBounds
    BY DEF Inv
<1>. QED
    BY <1>1, <1>2, <1>3, PTL DEF Spec

\* In the end exactly the pixels that both buffers cover have been copied, each
\* byte to its own place on the screen, rows and padding notwithstanding.
THEOREM CopyIsOverlap == Spec => []CopiesOverlap
<1>1. Init => Inv /\ Copied
    BY InvInit DEF Init, Copied
<1>2. Inv /\ Copied /\ [Next]_vars => (Inv /\ Copied)'
    BY InvNext, CopiedNext
<1>3. Inv /\ Copied => CopiesOverlap
    <2>. SUFFICES ASSUME Inv, Copied, pc = "done"
                  PROVE  written = Overlap
        BY DEF CopiesOverlap, Overlap
    <2>. QED
        BY RowsAreOverlap DEF Inv, TypeOK, Copied
<1>. QED
    BY <1>1, <1>2, <1>3, PTL DEF Spec
=============================================================================
