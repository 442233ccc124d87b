--------------------------- MODULE Pixmaps_proofs ---------------------------
(***************************************************************************)
(* Pixmaps and buffer objects are counted right, for every number of       *)
(* windows, pixmaps, bos and sizes: nothing in use is freed, and what is   *)
(* not in use is, unless one of the two failures that lose resources is    *)
(* among those that may happen.  What is drawn into has the size it should *)
(* have, if no resize of the screen meets a second window or a flip.       *)
(***************************************************************************)
EXTENDS Pixmaps, FiniteSetTheorems, TLAPS

-----------------------------------------------------------------------------
(* Counting.                                                               *)

LEMMA WindowsFinite == IsFiniteSet(Windows)
    BY PixmapsAssumption, FS_Interval DEF Windows

LEMMA PixmapsFinite == IsFiniteSet(Pixmaps)
    BY PixmapsAssumption, FS_Interval DEF Pixmaps, Root

LEMMA NoPixOutside == NoPix \notin Pixmaps /\ NoBo \notin Bos /\ Root \in Pixmaps
    BY PixmapsAssumption DEF NoPix, Pixmaps, Root, NoBo, Bos

LEMMA OneType == \A P \in BOOLEAN : One(P) \in 0..1
    BY DEF One

\* Two subsets of a finite set that differ at most in e differ in size by e.
LEMMA CountChange ==
    ASSUME NEW S, IsFiniteSet(S), NEW A \in SUBSET S, NEW B \in SUBSET S, NEW e \in S,
           \A x \in S \ {e} : x \in A <=> x \in B
    PROVE  /\ Cardinality(A) \in Nat /\ Cardinality(B) \in Nat
           /\ Cardinality(B) = Cardinality(A) - One(e \in A) + One(e \in B)
           /\ Cardinality(A) >= One(e \in A)
<1>1. IsFiniteSet(A) /\ IsFiniteSet(B)
    BY FS_Subset
<1>2. A \ {e} = B \ {e}
    OBVIOUS
<1>3. /\ Cardinality(A \ {e}) = Cardinality(A) - One(e \in A)
      /\ Cardinality(B \ {e}) = Cardinality(B) - One(e \in B)
    <2>1. /\ Cardinality(A \ {e}) = IF e \in A THEN Cardinality(A) - 1 ELSE Cardinality(A)
          /\ Cardinality(B \ {e}) = IF e \in B THEN Cardinality(B) - 1 ELSE Cardinality(B)
        BY <1>1, FS_RemoveElement
    <2>2. Cardinality(A) \in Nat /\ Cardinality(B) \in Nat
        BY <1>1, FS_CardinalityType
    <2>. QED
        BY <2>1, <2>2 DEF One
<1>4. /\ Cardinality(A) \in Nat /\ Cardinality(B) \in Nat
      /\ Cardinality(A \ {e}) \in Nat
    BY <1>1, FS_CardinalityType, FS_RemoveElement
<1>6. One(e \in A) \in Int /\ One(e \in B) \in Int
    BY DEF One
<1>7. Cardinality(A \ {e}) = Cardinality(B \ {e})
    BY <1>2
<1>. DEFINE x == One(e \in A)
            y == One(e \in B)
<1>8. /\ Cardinality(A \ {e}) = Cardinality(A) - x /\ x \in Int
      /\ Cardinality(A \ {e}) = Cardinality(B) - y /\ y \in Int
    BY <1>3, <1>6, <1>7
<1>. HIDE DEF x, y
<1>9. Cardinality(B) = Cardinality(A) - x + y /\ Cardinality(A) >= x
    BY <1>4, <1>8
<1>. QED
    BY <1>4, <1>9 DEF x, y

-----------------------------------------------------------------------------
(* Who refers to a bo.                                                     *)

\* The references to bo b that pixmaps, root bo and slot hold, and those left.
Users(m, b) == Cardinality({p \in Pixmaps : m.pix[p].bo = b})
               + One(m.scanout = b) + One(m.slot = b)
Spare(m, b) == m.refs[b] - Users(m, b)

\* A bo in use has a buffer of the kernel, and no other bo unless the back end
\* lost one; a free pixmap refers to no bo.
Sound(m) ==
    /\ m \in Memory
    /\ \A b \in Bos : m.refs[b] > 0 => b \in m.objs
    /\ "get_prop" \notin Failing => \A b \in m.objs : m.refs[b] > 0
    /\ \A p \in Pixmaps : m.pix[p].refs = 0 => m.pix[p].bo = NoBo

LEMMA UsersType ==
    ASSUME NEW m, NEW b
    PROVE  /\ Users(m, b) \in Nat
           /\ \A p \in Pixmaps : m.pix[p].bo = b => Users(m, b) >= 1
           /\ m.scanout = b => Users(m, b) >= 1
           /\ m.slot = b => Users(m, b) >= 1
<1>. DEFINE A == {p \in Pixmaps : m.pix[p].bo = b}
<1>1. IsFiniteSet(A) /\ Cardinality(A) \in Nat
    BY PixmapsFinite, FS_Subset, FS_CardinalityType
<1>2. ASSUME NEW p \in Pixmaps, m.pix[p].bo = b
      PROVE  Cardinality(A) # 0
    BY <1>1, <1>2, FS_EmptySet
<1>. HIDE DEF A
<1>3. Users(m, b) = Cardinality(A) + One(m.scanout = b) + One(m.slot = b)
    BY DEF Users, A
<1>4. One(m.scanout = b) \in 0..1 /\ One(m.slot = b) \in 0..1
    BY DEF One
<1>. QED
    BY <1>1, <1>2, <1>3, <1>4 DEF One

LEMMA ReferencedFields ==
    ASSUME NEW m \in Memory, NEW b \in Bos
    PROVE  /\ Referenced(m, b) \in Memory
           /\ Referenced(m, b).refs = [m.refs EXCEPT ![b] = m.refs[b] + 1]
           /\ Referenced(m, b).pix = m.pix /\ Referenced(m, b).size = m.size
           /\ Referenced(m, b).objs = m.objs /\ Referenced(m, b).scanout = m.scanout
           /\ Referenced(m, b).slot = m.slot /\ Referenced(m, b).mapped = m.mapped
    BY DEF Referenced, Memory

\* The memory with other reference counts, sizes and buffers of the kernel.
With(m, refs, size, objs) == [m EXCEPT !.refs = refs, !.size = size, !.objs = objs]

LEMMA WithFields ==
    ASSUME NEW m \in Memory, NEW refs \in [Bos -> Nat],
           NEW size \in [Bos -> Sizes \cup {Empty}], NEW objs \in SUBSET Bos
    PROVE  /\ With(m, refs, size, objs) \in Memory
           /\ With(m, refs, size, objs).refs = refs
           /\ With(m, refs, size, objs).size = size
           /\ With(m, refs, size, objs).objs = objs
           /\ With(m, refs, size, objs).pix = m.pix
           /\ With(m, refs, size, objs).scanout = m.scanout
           /\ With(m, refs, size, objs).slot = m.slot
           /\ With(m, refs, size, objs).mapped = m.mapped
    BY DEF Memory, With

LEMMA UnreferencedFields ==
    ASSUME NEW m \in Memory, NEW b \in Bos, m.refs[b] >= 1
    PROVE  /\ Unreferenced(m, b) \in Memory
           /\ Unreferenced(m, b).refs = [m.refs EXCEPT ![b] = m.refs[b] - 1]
           /\ Unreferenced(m, b).pix = m.pix
           /\ Unreferenced(m, b).objs = IF m.refs[b] = 1 THEN m.objs \ {b} ELSE m.objs
           /\ Unreferenced(m, b).scanout = m.scanout
           /\ Unreferenced(m, b).slot = m.slot
           /\ Unreferenced(m, b).mapped = m.mapped
           /\ Unreferenced(m, b).size = IF m.refs[b] = 1 THEN [m.size EXCEPT ![b] = Empty] ELSE m.size
<1>1. b # NoBo
    BY NoPixOutside
<1>. DEFINE last == m.refs[b] = 1
            refs == [m.refs EXCEPT ![b] = m.refs[b] - 1]
            size == IF last THEN [m.size EXCEPT ![b] = Empty] ELSE m.size
            objs == IF last THEN m.objs \ {b} ELSE m.objs
<1>2. refs \in [Bos -> Nat] /\ size \in [Bos -> Sizes \cup {Empty}] /\ objs \in SUBSET Bos
    BY DEF Memory
<1>3. [m.size EXCEPT ![b] = IF last THEN Empty ELSE m.size[b]] = size
    BY DEF Memory
<1>4. Unreferenced(m, b) = With(m, refs, size, objs)
    BY <1>1, <1>3 DEF Unreferenced, With
<1>. HIDE DEF refs, size, objs
<1>5. /\ Unreferenced(m, b) \in Memory
      /\ Unreferenced(m, b).refs = refs /\ Unreferenced(m, b).pix = m.pix
      /\ Unreferenced(m, b).size = size /\ Unreferenced(m, b).objs = objs
      /\ Unreferenced(m, b).scanout = m.scanout /\ Unreferenced(m, b).slot = m.slot
      /\ Unreferenced(m, b).mapped = m.mapped
    BY <1>2, <1>4, WithFields
<1>. QED
    BY <1>5 DEF refs, size, objs

\* The memory with another record for pixmap p.
WithPix(m, p, r) == [m EXCEPT !.pix[p] = r]

LEMMA WithPixFields ==
    ASSUME NEW m \in Memory, NEW p \in Pixmaps, NEW r \in PixType
    PROVE  /\ WithPix(m, p, r) \in Memory
           /\ WithPix(m, p, r).pix = [m.pix EXCEPT ![p] = r]
           /\ WithPix(m, p, r).refs = m.refs /\ WithPix(m, p, r).size = m.size
           /\ WithPix(m, p, r).objs = m.objs /\ WithPix(m, p, r).scanout = m.scanout
           /\ WithPix(m, p, r).slot = m.slot /\ WithPix(m, p, r).mapped = m.mapped
    BY DEF WithPix, Memory

-----------------------------------------------------------------------------
(* The primitives: what each does to the references left over.             *)

Only(m, n, p) == \A q \in Pixmaps \ {p} : n.pix[q] = m.pix[q]

LEMMA UsersSame ==
    ASSUME NEW m, NEW n, n.pix = m.pix, n.scanout = m.scanout, n.slot = m.slot, NEW b
    PROVE  Users(n, b) = Users(m, b)
    BY DEF Users

LEMMA ReferencedSound ==
    ASSUME NEW m, Sound(m), NEW b \in Bos, m.refs[b] >= 1
    PROVE  /\ Sound(Referenced(m, b))
           /\ Referenced(m, b).pix = m.pix /\ Referenced(m, b).scanout = m.scanout
           /\ Referenced(m, b).slot = m.slot /\ Referenced(m, b).mapped = m.mapped
           /\ Referenced(m, b).size = m.size
           /\ \A c \in Bos : /\ Referenced(m, b).refs[c] = m.refs[c] + One(c = b)
                             /\ Spare(Referenced(m, b), c) = Spare(m, c) + One(c = b)
<1>. DEFINE n == Referenced(m, b)
<1>1. /\ m \in Memory /\ n \in Memory /\ n.refs = [m.refs EXCEPT ![b] = m.refs[b] + 1]
      /\ n.pix = m.pix /\ n.objs = m.objs /\ n.scanout = m.scanout /\ n.slot = m.slot
      /\ n.mapped = m.mapped /\ n.size = m.size
    BY ReferencedFields DEF Sound
<1>. HIDE DEF n
<1>2. m.refs \in [Bos -> Nat]
    BY <1>1 DEF Memory
<1>3. \A c \in Bos : n.refs[c] = m.refs[c] + One(c = b)
    BY <1>1, <1>2 DEF One
<1>4. Sound(n)
    BY <1>1, <1>2 DEF Sound
<1>5. ASSUME NEW c \in Bos
      PROVE  Spare(n, c) = Spare(m, c) + One(c = b)
    <2>1. Users(n, c) = Users(m, c) /\ Users(m, c) \in Nat
        BY <1>1, UsersSame, UsersType
    <2>. QED
        BY <1>2, <1>3, <2>1 DEF Spare, One
<1>. QED
    BY <1>1, <1>3, <1>4, <1>5 DEF n

LEMMA UnreferencedSound ==
    ASSUME NEW m, Sound(m), NEW b \in Bos \cup {NoBo}, b # NoBo => m.refs[b] >= 1
    PROVE  /\ Sound(Unreferenced(m, b))
           /\ Unreferenced(m, b).pix = m.pix /\ Unreferenced(m, b).scanout = m.scanout
           /\ Unreferenced(m, b).slot = m.slot /\ Unreferenced(m, b).mapped = m.mapped
           /\ \A c \in Bos : /\ Unreferenced(m, b).refs[c] = m.refs[c] - One(c = b)
                             /\ Spare(Unreferenced(m, b), c) = Spare(m, c) - One(c = b)
<1>. DEFINE n == Unreferenced(m, b)
<1>0. m \in Memory /\ m.refs \in [Bos -> Nat] /\ \A c \in Bos : Users(m, c) \in Nat
    BY UsersType DEF Sound, Memory
<1>1. CASE b = NoBo
    <2>1. n = m /\ \A c \in Bos : One(c = b) = 0
        BY <1>1, NoPixOutside DEF Unreferenced, One
    <2>. QED
        BY <1>0, <2>1 DEF Spare
<1>2. CASE b # NoBo
    <2>0. b \in Bos /\ m.refs[b] >= 1
        BY <1>2
    <2>1. /\ n \in Memory /\ n.refs = [m.refs EXCEPT ![b] = m.refs[b] - 1]
          /\ n.pix = m.pix /\ n.objs = IF m.refs[b] = 1 THEN m.objs \ {b} ELSE m.objs
          /\ n.scanout = m.scanout /\ n.slot = m.slot /\ n.mapped = m.mapped
        BY <1>0, <2>0, UnreferencedFields
    <2>. HIDE DEF n
    <2>3. \A c \in Bos : n.refs[c] = m.refs[c] - One(c = b)
        BY <1>0, <2>0, <2>1 DEF One
    <2>4. Sound(n)
        <3>1. \A c \in Bos : n.refs[c] > 0 => c \in n.objs
            BY <1>0, <2>0, <2>1 DEF Sound
        <3>2. ASSUME "get_prop" \notin Failing, NEW c \in n.objs
              PROVE  n.refs[c] > 0
            <4>1. c \in m.objs /\ c \in Bos /\ m.refs[c] > 0
                BY <1>0, <2>0, <2>1, <3>2 DEF Sound, Memory
            <4>. QED
                BY <1>0, <2>0, <2>1, <3>2, <4>1
        <3>. QED
            BY <2>1, <3>1, <3>2 DEF Sound
    <2>5. ASSUME NEW c \in Bos
          PROVE  Spare(n, c) = Spare(m, c) - One(c = b)
        <3>1. Users(n, c) = Users(m, c)
            BY <2>1, UsersSame
        <3>. QED
            BY <1>0, <2>3, <3>1 DEF Spare, One
    <2>. QED
        BY <2>1, <2>3, <2>4, <2>5 DEF n
<1>. QED
    BY <1>1, <1>2

\* A pixmap's record is replaced.
LEMMA WithPixSound ==
    ASSUME NEW m, Sound(m), NEW p \in Pixmaps, NEW r \in PixType, r.refs = 0 => r.bo = NoBo
    PROVE  /\ Sound(WithPix(m, p, r))
           /\ Only(m, WithPix(m, p, r), p) /\ WithPix(m, p, r).pix[p] = r
           /\ WithPix(m, p, r).scanout = m.scanout /\ WithPix(m, p, r).slot = m.slot
           /\ WithPix(m, p, r).refs = m.refs /\ WithPix(m, p, r).size = m.size
           /\ \A c \in Bos : Spare(WithPix(m, p, r), c)
                             = Spare(m, c) + One(c = m.pix[p].bo) - One(c = r.bo)
<1>. DEFINE n == WithPix(m, p, r)
<1>0. m \in Memory /\ m.pix \in [Pixmaps -> PixType]
    BY DEF Sound, Memory
<1>1. /\ m \in Memory /\ n \in Memory /\ n.refs = m.refs
      /\ \A q \in Pixmaps \ {p} : n.pix[q] = m.pix[q]
      /\ n.pix[p] = r
      /\ n.objs = m.objs /\ n.scanout = m.scanout /\ n.slot = m.slot /\ n.size = m.size
    <2>1. /\ n \in Memory /\ n.pix = [m.pix EXCEPT ![p] = r] /\ n.refs = m.refs
          /\ n.objs = m.objs /\ n.scanout = m.scanout /\ n.slot = m.slot /\ n.size = m.size
        BY <1>0, WithPixFields
    <2>. HIDE DEF n
    <2>. QED
        BY <1>0, <2>1
<1>. HIDE DEF n
<1>2. m.refs \in [Bos -> Nat] /\ m.pix[p].refs \in Nat
    BY <1>1 DEF Memory, PixType
<1>3. Sound(n)
    <2>1. ASSUME NEW q \in Pixmaps, n.pix[q].refs = 0
          PROVE  n.pix[q].bo = NoBo
        BY <1>1, <1>2, <2>1 DEF Sound
    <2>. QED
        BY <1>1, <2>1 DEF Sound
<1>4. ASSUME NEW c \in Bos
      PROVE  Spare(n, c) = Spare(m, c) + One(c = m.pix[p].bo) - One(c = r.bo)
    <2>. DEFINE A == {q \in Pixmaps : m.pix[q].bo = c}
                B == {q \in Pixmaps : n.pix[q].bo = c}
    <2>1. /\ A \in SUBSET Pixmaps /\ B \in SUBSET Pixmaps
          /\ \A q \in Pixmaps \ {p} : q \in A <=> q \in B
          /\ p \in A <=> c = m.pix[p].bo
          /\ p \in B <=> c = r.bo
        BY <1>1
    <2>2. One(p \in A) = One(c = m.pix[p].bo) /\ One(p \in B) = One(c = r.bo)
        BY <2>1 DEF One
    <2>3. Users(m, c) = Cardinality(A) + One(m.scanout = c) + One(m.slot = c)
        BY DEF Users
    <2>4. Users(n, c) = Cardinality(B) + One(m.scanout = c) + One(m.slot = c)
        BY <1>1 DEF Users
    <2>. HIDE DEF A, B
    <2>5. /\ Cardinality(A) \in Nat /\ Cardinality(B) \in Nat
          /\ Cardinality(B) = Cardinality(A) - One(p \in A) + One(p \in B)
        BY <2>1, PixmapsFinite, CountChange
    <2>6. m.refs[c] \in Nat /\ n.refs[c] = m.refs[c]
        BY <1>1, <1>2
    <2>. QED
        BY <2>2, <2>3, <2>4, <2>5, <2>6 DEF Spare, One
<1>. QED
    BY <1>1, <1>3, <1>4 DEF n, Only

\* The memory with other buffers of the kernel only.
WithObjs(m, objs) == [m EXCEPT !.objs = objs]

LEMMA WithObjsFields ==
    ASSUME NEW m \in Memory, NEW objs \in SUBSET Bos
    PROVE  /\ WithObjs(m, objs) \in Memory
           /\ WithObjs(m, objs).objs = objs
           /\ WithObjs(m, objs).refs = m.refs /\ WithObjs(m, objs).size = m.size
           /\ WithObjs(m, objs).pix = m.pix /\ WithObjs(m, objs).scanout = m.scanout
           /\ WithObjs(m, objs).slot = m.slot /\ WithObjs(m, objs).mapped = m.mapped
    BY DEF Memory, WithObjs

LEMMA NewBoCases ==
    ASSUME NEW m, NEW s, NEW n \in NewBo(m, s)
    PROVE  \E b \in Bos \ m.objs :
             \/ n = [m |-> With(m, [m.refs EXCEPT ![b] = 1], [m.size EXCEPT ![b] = s],
                               m.objs \cup {b}), bo |-> b]
             \/ n = [m |-> m, bo |-> NoBo]
             \/ n = [m |-> WithObjs(m, m.objs \cup {b}), bo |-> NoBo] /\ "get_prop" \in Failing
<1>. DEFINE made(b) == [m EXCEPT !.refs[b] = 1, !.size[b] = s, !.objs = m.objs \cup {b}]
            lost(b) == [m EXCEPT !.objs = m.objs \cup {b}]
            outcomes(b) == {[m |-> made(b), bo |-> b]}
                \cup {[m |-> m, bo |-> NoBo] : x \in {"create", "AddFB"} \cap Failing}
                \cup {[m |-> lost(b), bo |-> NoBo] : x \in {"get_prop"} \cap Failing}
<1>1. NewBo(m, s) = UNION {outcomes(b) : b \in First(Bos \ m.objs)}
    BY DEF NewBo
<1>2. \A b : /\ made(b) = With(m, [m.refs EXCEPT ![b] = 1], [m.size EXCEPT ![b] = s],
                                 m.objs \cup {b})
             /\ lost(b) = WithObjs(m, m.objs \cup {b})
    BY DEF With, WithObjs
<1>. HIDE DEF made, lost
<1>3. PICK b \in First(Bos \ m.objs) : n \in outcomes(b)
    BY <1>1
<1>4. b \in Bos \ m.objs
    BY <1>3 DEF First
<1>5. \/ n = [m |-> made(b), bo |-> b]
      \/ n = [m |-> m, bo |-> NoBo]
      \/ n = [m |-> lost(b), bo |-> NoBo] /\ "get_prop" \in Failing
    BY <1>3
<1>. QED
    BY <1>2, <1>4, <1>5

\* A new bo has the one reference that its creator gets.
LEMMA NewBoSound ==
    ASSUME NEW m, Sound(m), NEW s \in Sizes \cup {Empty}, NEW n \in NewBo(m, s)
    PROVE  /\ Sound(n.m) /\ n.bo \in Bos \cup {NoBo}
           /\ n.m.pix = m.pix /\ n.m.scanout = m.scanout /\ n.m.slot = m.slot
           /\ n.m.mapped = m.mapped
           /\ \A c \in Bos : /\ n.m.refs[c] = m.refs[c] + One(c = n.bo)
                             /\ Spare(n.m, c) = Spare(m, c) + One(c = n.bo)
<1>0. m \in Memory /\ m.refs \in [Bos -> Nat] /\ m.size \in [Bos -> Sizes \cup {Empty}]
      /\ m.objs \in SUBSET Bos /\ \A c \in Bos : Users(m, c) \in Nat
    BY UsersType DEF Sound, Memory
<1>1. PICK b \in Bos \ m.objs :
             \/ n = [m |-> With(m, [m.refs EXCEPT ![b] = 1], [m.size EXCEPT ![b] = s],
                               m.objs \cup {b}), bo |-> b]
             \/ n = [m |-> m, bo |-> NoBo]
             \/ n = [m |-> WithObjs(m, m.objs \cup {b}), bo |-> NoBo] /\ "get_prop" \in Failing
    BY NewBoCases
<1>2. m.refs[b] = 0
    BY <1>0 DEF Sound
<1>3. \A c \in Bos : One(c = NoBo) = 0
    BY NoPixOutside DEF One
<1>4. CASE n.bo # NoBo
    <2>. DEFINE refs == [m.refs EXCEPT ![b] = 1]
                size == [m.size EXCEPT ![b] = s]
                objs == m.objs \cup {b}
    <2>1. n.bo = b /\ n.m = With(m, refs, size, objs)
        BY <1>1, <1>4
    <2>2. refs \in [Bos -> Nat] /\ size \in [Bos -> Sizes \cup {Empty}] /\ objs \in SUBSET Bos
        BY <1>0
    <2>3. \A c \in Bos : refs[c] = m.refs[c] + One(c = b)
        BY <1>0, <1>2 DEF One
    <2>4. \A c \in Bos : (refs[c] > 0 => c \in objs)
                        /\ ("get_prop" \notin Failing /\ c \in objs => refs[c] > 0)
        BY <1>0, <1>2 DEF Sound
    <2>. HIDE DEF refs, size, objs
    <2>5. /\ n.m \in Memory /\ n.m.refs = refs /\ n.m.size = size /\ n.m.objs = objs
          /\ n.m.pix = m.pix /\ n.m.scanout = m.scanout /\ n.m.slot = m.slot
          /\ n.m.mapped = m.mapped
        BY <1>0, <2>1, <2>2, WithFields
    <2>6. Sound(n.m)
        BY <2>2, <2>4, <2>5 DEF Sound
    <2>7. \A c \in Bos : Users(n.m, c) = Users(m, c)
        BY <2>5, UsersSame
    <2>8. \A c \in Bos : Spare(n.m, c) = Spare(m, c) + One(c = n.bo)
        BY <1>0, <2>1, <2>3, <2>5, <2>7 DEF Spare, One
    <2>. QED
        BY <2>1, <2>3, <2>5, <2>6, <2>8
<1>5. CASE n.bo = NoBo /\ n.m = m
    BY <1>0, <1>3, <1>5 DEF Spare
<1>6. CASE n.bo = NoBo /\ n.m = WithObjs(m, m.objs \cup {b}) /\ "get_prop" \in Failing
    <2>1. /\ n.m \in Memory /\ n.m.refs = m.refs /\ n.m.objs = m.objs \cup {b}
          /\ n.m.pix = m.pix /\ n.m.scanout = m.scanout /\ n.m.slot = m.slot
          /\ n.m.mapped = m.mapped
        BY <1>0, <1>6, WithObjsFields
    <2>2. Sound(n.m)
        BY <1>6, <2>1 DEF Sound
    <2>3. \A c \in Bos : Users(n.m, c) = Users(m, c)
        BY <2>1, UsersSame
    <2>4. \A c \in Bos : One(c = n.bo) = 0
        BY <1>3, <1>6
    <2>5. \A c \in Bos : Spare(n.m, c) = Spare(m, c) /\ Spare(m, c) \in Int
        BY <1>0, <2>1, <2>3 DEF Spare
    <2>. QED
        BY <1>0, <1>6, <2>1, <2>2, <2>4, <2>5
<1>. QED
    BY <1>1, <1>4, <1>5, <1>6, NoPixOutside

-----------------------------------------------------------------------------
(* The functions of EXA: they change one pixmap, and no reference is left  *)
(* over or missing after them.                                             *)

Solvent(m) == Sound(m) /\ \A b \in Bos : Spare(m, b) >= 0
Balanced(m, n) == Sound(n) /\ \A b \in Bos : Spare(n, b) = Spare(m, b)

LEMMA BalancedSolvent ==
    ASSUME NEW m, NEW n, Solvent(m), Balanced(m, n)
    PROVE  Solvent(n)
    BY DEF Solvent, Balanced

\* What somebody uses has a reference.
LEMMA SolventRefs ==
    ASSUME NEW m, Solvent(m)
    PROVE  /\ Sound(m) /\ m.refs \in [Bos -> Nat]
           /\ m.scanout \in Bos /\ m.refs[m.scanout] >= 1
           /\ m.slot \in Bos /\ m.refs[m.slot] >= 1
<1>1. /\ Sound(m) /\ m.scanout \in Bos /\ m.slot \in Bos /\ m.refs \in [Bos -> Nat]
    BY DEF Solvent, Sound, Memory
<1>2. ASSUME NEW b \in Bos, Users(m, b) >= 1
      PROVE  m.refs[b] >= 1
    BY <1>1, <1>2, UsersType DEF Solvent, Spare
<1>. QED
    BY <1>1, <1>2, UsersType

LEMMA PixmapRefs ==
    ASSUME NEW m, Solvent(m), NEW p \in Pixmaps
    PROVE  /\ m.pix[p] \in PixType /\ m.pix[p].refs \in Nat
           /\ m.pix[p].size \in Sizes \cup {Empty}
           /\ m.pix[p].bo \in Bos \cup {NoBo}
           /\ m.pix[p].bo # NoBo => m.refs[m.pix[p].bo] >= 1
<1>1. m.refs \in [Bos -> Nat] /\ m.pix[p] \in PixType
    BY DEF Solvent, Sound, Memory
<1>2. /\ m.pix[p].refs \in Nat /\ m.pix[p].size \in Sizes \cup {Empty}
      /\ m.pix[p].bo \in Bos \cup {NoBo}
    BY <1>1 DEF PixType
<1>3. ASSUME NEW b \in Bos, m.pix[p].bo = b
      PROVE  m.refs[b] >= 1
    BY <1>1, <1>3, UsersType DEF Solvent, Spare
<1>. QED
    BY <1>1, <1>2, <1>3

\* Only pixmap p has changed, and that keeps its references.
Touched(m, n, p) == Balanced(m, n) /\ Only(m, n, p) /\ n.pix[p].refs = m.pix[p].refs

LEMMA TouchedTrans ==
    ASSUME NEW m, NEW n, NEW o, NEW p, Touched(m, n, p), Touched(n, o, p)
    PROVE  Touched(m, o, p)
    BY DEF Touched, Balanced, Only

LEMMA TouchedSolvent ==
    ASSUME NEW m, NEW n, NEW p, Solvent(m), Touched(m, n, p)
    PROVE  Solvent(n)
    BY BalancedSolvent DEF Touched

LEMMA TouchedSame ==
    ASSUME NEW m, NEW p, Solvent(m)
    PROVE  Touched(m, m, p)
    BY DEF Touched, Balanced, Only, Solvent

LEMMA BackedSound ==
    ASSUME NEW m, Sound(m), NEW p \in Pixmaps, NEW b \in Bos \cup {NoBo},
           m.pix[p].refs >= 1 \/ b = NoBo
    PROVE  /\ Sound(Backed(m, p, b)) /\ Only(m, Backed(m, p, b), p)
           /\ Backed(m, p, b).pix[p].bo = b
           /\ Backed(m, p, b).pix[p].refs = m.pix[p].refs
           /\ Backed(m, p, b).pix[p].size = m.pix[p].size
           /\ Backed(m, p, b).scanout = m.scanout /\ Backed(m, p, b).slot = m.slot
           /\ Backed(m, p, b).refs = m.refs /\ Backed(m, p, b).size = m.size
           /\ \A c \in Bos : Spare(Backed(m, p, b), c)
                             = Spare(m, c) + One(c = m.pix[p].bo) - One(c = b)
<1>. DEFINE r == [m.pix[p] EXCEPT !.bo = b]
<1>1. m.pix[p] \in PixType
    BY DEF Sound, Memory
<1>2. r \in PixType /\ r.bo = b /\ r.refs = m.pix[p].refs /\ r.size = m.pix[p].size
    BY <1>1 DEF PixType
<1>3. r.refs = 0 => r.bo = NoBo
    BY <1>2
<1>4. Backed(m, p, b) = WithPix(m, p, r)
    BY DEF Backed, WithPix
<1>. HIDE DEF r
<1>. QED
    BY <1>2, <1>3, <1>4, WithPixSound

\* A pixmap gets a bo that is in use, with a reference of its own.
LEMMA RebackedTouched ==
    ASSUME NEW m, Solvent(m), NEW p \in Pixmaps, m.pix[p].refs >= 1,
           NEW b \in Bos, m.refs[b] >= 1
    PROVE  LET n == Backed(Unreferenced(Referenced(m, b), m.pix[p].bo), p, b)
           IN  Touched(m, n, p) /\ n.pix[p].bo = b
<1>. DEFINE old == m.pix[p].bo
            m1  == Referenced(m, b)
            m2  == Unreferenced(m1, old)
            n   == Backed(m2, p, b)
<1>1. Sound(m) /\ old \in Bos \cup {NoBo} /\ (old # NoBo => m.refs[old] >= 1)
      /\ m.refs \in [Bos -> Nat]
    BY SolventRefs, PixmapRefs
<1>2. /\ Sound(m1) /\ m1.pix = m.pix
      /\ \A c \in Bos : m1.refs[c] = m.refs[c] + One(c = b)
                        /\ Spare(m1, c) = Spare(m, c) + One(c = b)
    BY <1>1, ReferencedSound
<1>3. old # NoBo => m1.refs[old] >= 1
    BY <1>1, <1>2 DEF One
<1>. HIDE DEF m1
<1>4. /\ Sound(m2) /\ m2.pix = m1.pix
      /\ \A c \in Bos : Spare(m2, c) = Spare(m1, c) - One(c = old)
    BY <1>1, <1>2, <1>3, UnreferencedSound
<1>. HIDE DEF m2
<1>5. m2.pix[p].refs >= 1 /\ m2.pix[p].bo = old
    BY <1>2, <1>4
<1>6. /\ Sound(n) /\ Only(m2, n, p) /\ n.pix[p].bo = b /\ n.pix[p].refs = m2.pix[p].refs
      /\ \A c \in Bos : Spare(n, c) = Spare(m2, c) + One(c = old) - One(c = b)
    BY <1>4, <1>5, BackedSound
<1>7. \A c \in Bos : Spare(m, c) \in Int /\ One(c = b) \in Int /\ One(c = old) \in Int
    BY <1>1, UsersType DEF Spare, One
<1>8. \A c \in Bos : Spare(n, c) = Spare(m, c)
    BY <1>2, <1>4, <1>6, <1>7
<1>9. Only(m, n, p) /\ n.pix[p].refs = m.pix[p].refs
    BY <1>2, <1>4, <1>6 DEF Only
<1>. QED
    BY <1>6, <1>8, <1>9 DEF Touched, Balanced, m1, m2

LEMMA DroppedTouched ==
    ASSUME NEW m, Solvent(m), NEW p \in Pixmaps
    PROVE  Touched(m, Dropped(m, p), p)
<1>. DEFINE old == m.pix[p].bo
            m1  == Unreferenced(m, old)
            n   == Backed(m1, p, NoBo)
<1>1. Sound(m) /\ old \in Bos \cup {NoBo} /\ (old # NoBo => m.refs[old] >= 1)
    BY SolventRefs, PixmapRefs
<1>2. /\ Sound(m1) /\ m1.pix = m.pix
      /\ \A c \in Bos : Spare(m1, c) = Spare(m, c) - One(c = old)
    BY <1>1, UnreferencedSound
<1>. HIDE DEF m1
<1>3. /\ Sound(n) /\ Only(m1, n, p) /\ n.pix[p].refs = m1.pix[p].refs
      /\ \A c \in Bos : Spare(n, c) = Spare(m1, c) + One(c = m1.pix[p].bo) - One(c = NoBo)
    BY <1>2, BackedSound
<1>4. \A c \in Bos : /\ Spare(m, c) \in Int /\ One(c = old) \in Int /\ One(c = NoBo) = 0
    BY <1>1, UsersType, NoPixOutside DEF Spare, One, Sound, Memory
<1>5. \A c \in Bos : Spare(n, c) = Spare(m, c)
    BY <1>2, <1>3, <1>4
<1>6. Only(m, n, p) /\ n.pix[p].refs = m.pix[p].refs
    BY <1>2, <1>3 DEF Only
<1>. QED
    BY <1>3, <1>5, <1>6 DEF Touched, Balanced, Dropped, m1

\* Whether the root bo is mapped, and the size of a pixmap, concern no reference.
WithMapped(m, v) == [m EXCEPT !.mapped = v]
Sized(m, p, s) == [m EXCEPT !.pix[p].size = s]

LEMMA WithMappedTouched ==
    ASSUME NEW m, Solvent(m), NEW v \in BOOLEAN, NEW p
    PROVE  Touched(m, WithMapped(m, v), p)
<1>. DEFINE n == WithMapped(m, v)
<1>1. m \in Memory /\ \A b \in Bos : Users(m, b) \in Nat
    BY UsersType DEF Solvent, Sound
<1>2. /\ n \in Memory /\ n.pix = m.pix /\ n.refs = m.refs /\ n.objs = m.objs
      /\ n.scanout = m.scanout /\ n.slot = m.slot
    BY <1>1 DEF Memory, WithMapped
<1>. HIDE DEF n
<1>3. \A b \in Bos : Spare(n, b) = Spare(m, b)
    BY <1>2, UsersSame DEF Spare
<1>4. Sound(n)
    BY <1>2 DEF Sound, Solvent
<1>. QED
    BY <1>2, <1>3, <1>4 DEF Touched, Balanced, Only, n

LEMMA SizedTouched ==
    ASSUME NEW m, Solvent(m), NEW p \in Pixmaps, NEW s \in Sizes \cup {Empty}
    PROVE  Touched(m, Sized(m, p, s), p) /\ Sized(m, p, s).pix[p].bo = m.pix[p].bo
<1>. DEFINE r == [m.pix[p] EXCEPT !.size = s]
<1>1. Sound(m) /\ m.pix[p] \in PixType
    BY DEF Solvent, Sound, Memory
<1>2. r \in PixType /\ r.bo = m.pix[p].bo /\ r.refs = m.pix[p].refs
    BY <1>1 DEF PixType
<1>3. r.refs = 0 => r.bo = NoBo
    BY <1>1, <1>2 DEF Sound
<1>4. Sized(m, p, s) = WithPix(m, p, r)
    BY DEF Sized, WithPix
<1>. HIDE DEF r
<1>. DEFINE n == WithPix(m, p, r)
<1>5. /\ Sound(n) /\ Only(m, n, p) /\ n.pix[p] = r
      /\ \A c \in Bos : Spare(n, c) = Spare(m, c) + One(c = m.pix[p].bo) - One(c = r.bo)
    BY <1>1, <1>2, <1>3, WithPixSound
<1>. HIDE DEF n
<1>6. \A c \in Bos : Spare(n, c) = Spare(m, c)
    BY <1>1, <1>2, <1>5, UsersType DEF Spare, One, Sound, Memory
<1>. QED
    BY <1>2, <1>4, <1>5, <1>6 DEF n, Touched, Balanced

LEMMA FittedTouched ==
    ASSUME NEW m, Solvent(m), NEW p \in Pixmaps, m.pix[p].refs >= 1, NEW n \in Fitted(m, p)
    PROVE  Touched(m, n, p)
<1>. DEFINE old == m.pix[p].bo
            s   == m.pix[p].size
            m1  == Unreferenced(m, old)
<1>1. CASE n = m
    BY <1>1, TouchedSame
<1>2. CASE \E x \in NewBo(m1, s) : n = Backed(x.m, p, x.bo)
    <2>1. PICK x \in NewBo(m1, s) : n = Backed(x.m, p, x.bo)
        BY <1>2
    <2>2. Sound(m) /\ old \in Bos \cup {NoBo} /\ (old # NoBo => m.refs[old] >= 1)
          /\ s \in Sizes \cup {Empty}
        BY SolventRefs, PixmapRefs
    <2>3. /\ Sound(m1) /\ m1.pix = m.pix
          /\ \A c \in Bos : Spare(m1, c) = Spare(m, c) - One(c = old)
        BY <2>2, UnreferencedSound
    <2>. HIDE DEF m1
    <2>4. /\ Sound(x.m) /\ x.bo \in Bos \cup {NoBo} /\ x.m.pix = m.pix
          /\ \A c \in Bos : Spare(x.m, c) = Spare(m1, c) + One(c = x.bo)
        BY <2>2, <2>3, NewBoSound
    <2>5. /\ Sound(n) /\ Only(x.m, n, p) /\ n.pix[p].refs = m.pix[p].refs
          /\ \A c \in Bos : Spare(n, c) = Spare(x.m, c) + One(c = old) - One(c = x.bo)
        BY <2>1, <2>4, BackedSound
    <2>6. \A c \in Bos : Spare(m, c) \in Int /\ One(c = old) \in Int /\ One(c = x.bo) \in Int
        BY <2>2, UsersType DEF Spare, One, Sound, Memory
    <2>7. \A c \in Bos : Spare(n, c) = Spare(m, c)
        BY <2>3, <2>4, <2>5, <2>6
    <2>8. Only(m, n, p)
        BY <2>4, <2>5 DEF Only
    <2>. QED
        BY <2>5, <2>7, <2>8 DEF Touched, Balanced
<1>. QED
    BY <1>1, <1>2 DEF Fitted

LEMMA MapsType == \A m : Maps(m) \subseteq BOOLEAN
    BY DEF Maps

\* OMAPModifyPixmapHeader, whatever the data and whether or not the map succeeds.
LEMMA ModifiedTouched ==
    ASSUME NEW m, Solvent(m), NEW p \in Pixmaps, m.pix[p].refs >= 1,
           NEW s \in Sizes \cup {Empty}, NEW data, NEW n \in Modified(m, p, s, data)
    PROVE  Touched(m, n, p)
<1>. DEFINE sized(x) == [x EXCEPT !.pix[p].size = IF s = Empty THEN x.pix[p].size ELSE s]
            root(ok) == IF ok THEN "root" ELSE "null"
            tried(ok) == [m EXCEPT !.mapped = m.mapped \/ ok]
<1>1. PICK ok \in Maps(m) :
        \/ n = sized(Dropped(tried(ok), p))
        \/ n \in Fitted(sized(BackedByRoot(tried(ok), p)), p)
        \/ n \in Fitted(sized(tried(ok)), p)
    BY DEF Modified
<1>. DEFINE t == tried(ok)
<1>2. Touched(m, t, p) /\ Solvent(t) /\ t.pix[p].refs >= 1
    <2>1. t = WithMapped(m, m.mapped \/ ok) /\ (m.mapped \/ ok) \in BOOLEAN
        BY MapsType DEF WithMapped
    <2>. HIDE DEF t
    <2>2. Touched(m, t, p)
        BY <2>1, WithMappedTouched
    <2>. QED
        BY <2>2, TouchedSolvent DEF Touched
<1>. HIDE DEF t
<1>3. ASSUME NEW x, Touched(t, x, p)
      PROVE  Touched(m, sized(x), p) /\ Solvent(sized(x)) /\ sized(x).pix[p].refs >= 1
    <2>1. Solvent(x) /\ x.pix[p].refs >= 1
        BY <1>2, <1>3, TouchedSolvent DEF Touched
    <2>2. (IF s = Empty THEN x.pix[p].size ELSE s) \in Sizes \cup {Empty}
        BY <2>1, PixmapRefs
    <2>3. sized(x) = Sized(x, p, IF s = Empty THEN x.pix[p].size ELSE s)
        BY DEF Sized
    <2>. HIDE DEF sized
    <2>4. Touched(x, sized(x), p)
        BY <2>1, <2>2, <2>3, SizedTouched
    <2>5. Touched(m, sized(x), p)
        BY <1>2, <1>3, <2>4, TouchedTrans
    <2>. QED
        BY <2>5, TouchedSolvent DEF Touched
<1>. HIDE DEF sized
<1>4. CASE n = sized(Dropped(t, p))
    BY <1>2, <1>3, <1>4, DroppedTouched
<1>5. ASSUME NEW x, Touched(t, x, p), n \in Fitted(sized(x), p)
      PROVE  Touched(m, n, p)
    <2>1. Touched(m, sized(x), p) /\ Solvent(sized(x)) /\ sized(x).pix[p].refs >= 1
        BY <1>3, <1>5
    <2>2. Touched(sized(x), n, p)
        BY <1>5, <2>1, FittedTouched
    <2>. QED
        BY <2>1, <2>2, TouchedTrans
<1>6. Touched(t, t, p)
    BY <1>2, TouchedSame
<1>7. Touched(t, BackedByRoot(t, p), p)
    BY <1>2, SolventRefs, RebackedTouched DEF BackedByRoot
<1>. QED
    BY <1>1, <1>4, <1>5, <1>6, <1>7 DEF t

\* A new pixmap has one reference.
LEMMA CreatedOnly ==
    ASSUME NEW m, Solvent(m), NEW p \in Pixmaps, m.pix[p].refs = 0,
           NEW s \in Sizes \cup {Empty}, NEW n \in Created(m, p, s)
    PROVE  Balanced(m, n) /\ Only(m, n, p) /\ n.pix[p].refs = 1
<1>. DEFINE r == [FreePix EXCEPT !.refs = 1]
            x == WithPix(m, p, r)
<1>1. r \in PixType /\ r.refs = 1 /\ r.bo = NoBo
    BY DEF FreePix, PixType
<1>2. n \in Modified(x, p, s, "null")
    BY DEF Created, WithPix
<1>3. Sound(m) /\ m.pix[p].bo = NoBo
    BY SolventRefs DEF Sound
<1>. HIDE DEF r
<1>4. /\ Sound(x) /\ Only(m, x, p) /\ x.pix[p] = r
      /\ \A c \in Bos : Spare(x, c) = Spare(m, c) + One(c = m.pix[p].bo) - One(c = r.bo)
    BY <1>1, <1>3, WithPixSound
<1>. HIDE DEF x
<1>5. \A c \in Bos : Spare(x, c) = Spare(m, c)
    BY <1>1, <1>3, <1>4, UsersType DEF Spare, One, Sound, Memory
<1>6. Solvent(x) /\ Balanced(m, x)
    BY <1>4, <1>5 DEF Solvent, Balanced
<1>7. Touched(x, n, p)
    BY <1>1, <1>2, <1>4, <1>6, ModifiedTouched
<1>. QED
    BY <1>1, <1>4, <1>6, <1>7 DEF Touched, Balanced, Only

LEMMA HeldOnly ==
    ASSUME NEW m, Solvent(m), NEW p \in Pixmaps, m.pix[p].refs >= 1
    PROVE  /\ Balanced(m, Held(m, p)) /\ Only(m, Held(m, p), p)
           /\ Held(m, p).pix[p].refs = m.pix[p].refs + 1
           /\ Held(m, p).pix[p].bo = m.pix[p].bo
           /\ Held(m, p).scanout = m.scanout /\ Held(m, p).slot = m.slot
           /\ Held(m, p).size = m.size
<1>. DEFINE r == [m.pix[p] EXCEPT !.refs = m.pix[p].refs + 1]
            n == WithPix(m, p, r)
<1>1. Sound(m) /\ m.pix[p] \in PixType /\ m.refs \in [Bos -> Nat] /\ m.pix[p].refs \in Nat
    BY SolventRefs, PixmapRefs
<1>2. r \in PixType /\ r.bo = m.pix[p].bo /\ r.refs = m.pix[p].refs + 1 /\ r.refs # 0
    BY <1>1 DEF PixType
<1>3. Held(m, p) = n
    BY DEF Held, WithPix
<1>. HIDE DEF r
<1>4. /\ Sound(n) /\ Only(m, n, p) /\ n.pix[p] = r /\ n.scanout = m.scanout /\ n.slot = m.slot
      /\ n.size = m.size
      /\ \A c \in Bos : Spare(n, c) = Spare(m, c) + One(c = m.pix[p].bo) - One(c = r.bo)
    BY <1>1, <1>2, WithPixSound
<1>. HIDE DEF n
<1>5. \A c \in Bos : Spare(n, c) = Spare(m, c)
    BY <1>1, <1>2, <1>4, UsersType DEF Spare, One
<1>. QED
    BY <1>2, <1>3, <1>4, <1>5 DEF Balanced

\* Who destroys a pixmap gives up one reference.  Others keep theirs, and their bo.
Released(m, n, p) ==
    /\ Balanced(m, n)
    /\ \A q \in Pixmaps : /\ n.pix[q].refs = m.pix[q].refs - One(q = p)
                          /\ n.pix[q].refs > 0 => n.pix[q].bo = m.pix[q].bo
                          /\ n.pix[q].refs > 0 => n.pix[q].size = m.pix[q].size

LEMMA DestroyedReleased ==
    ASSUME NEW m, Solvent(m), NEW p \in Pixmaps \cup {NoPix}, p # NoPix => m.pix[p].refs >= 1
    PROVE  Released(m, Destroyed(m, p), p)
<1>0. \A q \in Pixmaps : m.pix[q].refs \in Nat /\ m.pix[q] \in PixType
    BY PixmapRefs
<1>1. CASE p = NoPix
    BY <1>0, <1>1, NoPixOutside DEF Destroyed, Released, Balanced, Solvent, One
<1>2. CASE p # NoPix /\ m.pix[p].refs = 1
    <2>. DEFINE old == m.pix[p].bo
                m1  == Unreferenced(m, old)
                n   == WithPix(m1, p, FreePix)
    <2>1. Destroyed(m, p) = n
        BY <1>2 DEF Destroyed, WithPix
    <2>2. Sound(m) /\ old \in Bos \cup {NoBo} /\ (old # NoBo => m.refs[old] >= 1) /\ p \in Pixmaps
        BY <1>2, SolventRefs, PixmapRefs
    <2>3. /\ Sound(m1) /\ m1.pix = m.pix
          /\ \A c \in Bos : Spare(m1, c) = Spare(m, c) - One(c = old)
        BY <2>2, UnreferencedSound
    <2>. HIDE DEF m1
    <2>4. FreePix \in PixType /\ FreePix.refs = 0 /\ FreePix.bo = NoBo
        BY DEF FreePix, PixType
    <2>5. /\ Sound(n) /\ Only(m1, n, p) /\ n.pix[p] = FreePix
          /\ \A c \in Bos : Spare(n, c) = Spare(m1, c) + One(c = m1.pix[p].bo) - One(c = FreePix.bo)
        BY <2>2, <2>3, <2>4, WithPixSound
    <2>. HIDE DEF n
    <2>6. \A c \in Bos : Spare(m, c) \in Int /\ One(c = old) \in Int /\ One(c = FreePix.bo) = 0
        BY <2>2, <2>4, UsersType, NoPixOutside DEF Spare, One, Sound, Memory
    <2>7. \A c \in Bos : Spare(n, c) = Spare(m, c)
        BY <2>3, <2>5, <2>6
    <2>8. \A q \in Pixmaps : q # p => n.pix[q] = m.pix[q] /\ One(q = p) = 0
        BY <2>3, <2>5 DEF Only, One
    <2>9. n.pix[p].refs = 0 /\ One(p = p) = 1
        BY <2>4, <2>5 DEF One
    <2>. QED
        BY <1>0, <1>2, <2>1, <2>5, <2>7, <2>8, <2>9 DEF Released, Balanced
<1>3. CASE p # NoPix /\ m.pix[p].refs # 1
    <2>. DEFINE r == [m.pix[p] EXCEPT !.refs = m.pix[p].refs - 1]
                n == WithPix(m, p, r)
    <2>0. p \in Pixmaps /\ Sound(m) /\ m.refs \in [Bos -> Nat]
        BY <1>3, SolventRefs
    <2>1. Destroyed(m, p) = n
        BY <1>3 DEF Destroyed, WithPix
    <2>2. /\ r \in PixType /\ r.bo = m.pix[p].bo /\ r.refs = m.pix[p].refs - 1 /\ r.refs # 0
          /\ r.size = m.pix[p].size
        BY <1>0, <1>3, <2>0 DEF PixType
    <2>. HIDE DEF r
    <2>7. r \in PixType /\ (r.refs = 0 => r.bo = NoBo)
        BY <2>2
    <2>3. /\ Sound(n) /\ Only(m, n, p) /\ n.pix[p] = r
          /\ \A c \in Bos : Spare(n, c) = Spare(m, c) + One(c = m.pix[p].bo) - One(c = r.bo)
        BY <2>0, <2>7, WithPixSound
    <2>. HIDE DEF n
    <2>4. \A c \in Bos : Spare(n, c) = Spare(m, c)
        BY <2>0, <2>2, <2>3, UsersType DEF Spare, One
    <2>5. \A q \in Pixmaps : q # p => n.pix[q] = m.pix[q] /\ One(q = p) = 0
        BY <2>3 DEF Only, One
    <2>6. One(p = p) = 1
        BY DEF One
    <2>. QED
        BY <1>0, <2>1, <2>2, <2>3, <2>4, <2>5, <2>6 DEF Released, Balanced
<1>. QED
    BY <1>1, <1>2, <1>3

LEMMA RootWrittenTouched ==
    ASSUME NEW m, Solvent(m), m.pix[Root].refs >= 1
    PROVE  Touched(m, RootWritten(m), Root)
<1>1. CASE RootWritten(m) = m
    BY <1>1, TouchedSame
<1>2. CASE RootWritten(m) = BackedByRoot(m, Root)
    BY <1>2, SolventRefs, RebackedTouched, NoPixOutside DEF BackedByRoot
<1>. QED
    BY <1>1, <1>2 DEF RootWritten

LEMMA SlotBackedTouched ==
    ASSUME NEW m, Solvent(m), NEW p \in Pixmaps, m.pix[p].refs >= 1
    PROVE  Touched(m, SlotBacked(m, p), p)
    BY SolventRefs, RebackedTouched DEF SlotBacked

\* The pixmaps of a swap exchange their bos, also if they are the same.
LEMMA ExchangedBalanced ==
    ASSUME NEW m, Solvent(m), NEW p \in Pixmaps, NEW q \in Pixmaps,
           m.pix[p].refs >= 1, m.pix[q].refs >= 1
    PROVE  LET n == Exchanged(m, p, q)
           IN  /\ Balanced(m, n)
               /\ \A x \in Pixmaps : n.pix[x].refs = m.pix[x].refs
               /\ \A x \in Pixmaps \ {p, q} : n.pix[x] = m.pix[x]
<1>. DEFINE a  == m.pix[p].bo
            b  == m.pix[q].bo
            m1 == Backed(m, p, b)
            n  == Backed(m1, q, a)
<1>1. Sound(m) /\ a \in Bos \cup {NoBo} /\ b \in Bos \cup {NoBo}
    BY SolventRefs, PixmapRefs
<1>2. /\ Sound(m1) /\ Only(m, m1, p) /\ m1.pix[p].bo = b /\ m1.pix[p].refs = m.pix[p].refs
      /\ \A c \in Bos : Spare(m1, c) = Spare(m, c) + One(c = a) - One(c = b)
    BY <1>1, BackedSound
<1>. HIDE DEF m1
<1>3. m1.pix[q].bo = b /\ m1.pix[q].refs = m.pix[q].refs
    BY <1>2 DEF Only
<1>4. /\ Sound(n) /\ Only(m1, n, q) /\ n.pix[q].refs = m1.pix[q].refs
      /\ \A c \in Bos : Spare(n, c) = Spare(m1, c) + One(c = b) - One(c = a)
    BY <1>1, <1>2, <1>3, BackedSound
<1>. HIDE DEF n
<1>5. \A c \in Bos : Spare(m, c) \in Int /\ One(c = a) \in Int /\ One(c = b) \in Int
    BY <1>1, SolventRefs, UsersType DEF Spare, One
<1>6. \A c \in Bos : Spare(n, c) = Spare(m, c)
    BY <1>2, <1>4, <1>5
<1>7. /\ \A x \in Pixmaps : n.pix[x].refs = m.pix[x].refs
      /\ \A x \in Pixmaps \ {p, q} : n.pix[x] = m.pix[x]
    BY <1>2, <1>3, <1>4 DEF Only
<1>. QED
    BY <1>4, <1>6, <1>7 DEF Balanced, Exchanged, n, m1

\* Another bo in the slot, or as root bo.
WithSlot(m, b) == [m EXCEPT !.slot = b]
WithRoot(m, b, v) == [m EXCEPT !.scanout = b, !.mapped = v]

LEMMA WithSlotSound ==
    ASSUME NEW m, Sound(m), NEW b \in Bos
    PROVE  /\ Sound(WithSlot(m, b)) /\ WithSlot(m, b).pix = m.pix
           /\ \A c \in Bos : Spare(WithSlot(m, b), c) = Spare(m, c) + One(c = m.slot) - One(c = b)
<1>. DEFINE n == WithSlot(m, b)
<1>1. m \in Memory /\ m.refs \in [Bos -> Nat]
    BY DEF Sound, Memory
<1>2. /\ n \in Memory /\ n.pix = m.pix /\ n.refs = m.refs /\ n.objs = m.objs
      /\ n.scanout = m.scanout /\ n.slot = b
    BY <1>1 DEF Memory, WithSlot
<1>. HIDE DEF n
<1>3. Sound(n)
    BY <1>2 DEF Sound
<1>4. ASSUME NEW c \in Bos
      PROVE  Spare(n, c) = Spare(m, c) + One(c = m.slot) - One(c = b)
    <2>. DEFINE k == Cardinality({p \in Pixmaps : m.pix[p].bo = c})
    <2>1. /\ Users(m, c) = k + One(m.scanout = c) + One(m.slot = c)
          /\ Users(n, c) = k + One(m.scanout = c) + One(b = c)
        BY <1>2 DEF Users
    <2>2. k \in Nat
        BY PixmapsFinite, FS_Subset, FS_CardinalityType
    <2>. HIDE DEF k
    <2>. QED
        BY <1>1, <1>2, <2>1, <2>2 DEF Spare, One
<1>. QED
    BY <1>2, <1>3, <1>4 DEF n

LEMMA WithRootSound ==
    ASSUME NEW m, Sound(m), NEW b \in Bos, NEW v \in BOOLEAN
    PROVE  /\ Sound(WithRoot(m, b, v)) /\ WithRoot(m, b, v).pix = m.pix
           /\ \A c \in Bos : Spare(WithRoot(m, b, v), c) = Spare(m, c) + One(c = m.scanout) - One(c = b)
<1>. DEFINE n == WithRoot(m, b, v)
<1>1. m \in Memory /\ m.refs \in [Bos -> Nat]
    BY DEF Sound, Memory
<1>2. /\ n \in Memory /\ n.pix = m.pix /\ n.refs = m.refs /\ n.objs = m.objs
      /\ n.scanout = b /\ n.slot = m.slot
    BY <1>1 DEF Memory, WithRoot
<1>. HIDE DEF n
<1>3. Sound(n)
    BY <1>2 DEF Sound
<1>4. ASSUME NEW c \in Bos
      PROVE  Spare(n, c) = Spare(m, c) + One(c = m.scanout) - One(c = b)
    <2>. DEFINE k == Cardinality({p \in Pixmaps : m.pix[p].bo = c})
    <2>1. /\ Users(m, c) = k + One(m.scanout = c) + One(m.slot = c)
          /\ Users(n, c) = k + One(b = c) + One(m.slot = c)
        BY <1>2 DEF Users
    <2>2. k \in Nat
        BY PixmapsFinite, FS_Subset, FS_CardinalityType
    <2>. HIDE DEF k
    <2>. QED
        BY <1>1, <1>2, <2>1, <2>2 DEF Spare, One
<1>. QED
    BY <1>2, <1>3, <1>4 DEF n

LEMMA ScanoutSetBalanced ==
    ASSUME NEW m, Solvent(m), NEW b \in Bos \cup {NoBo}, b # NoBo => m.refs[b] >= 1
    PROVE  Balanced(m, ScanoutSet(m, b)) /\ ScanoutSet(m, b).pix = m.pix
<1>1. CASE ScanoutSet(m, b) = m
    BY <1>1 DEF Balanced, Solvent
<1>2. CASE b # NoBo /\ ScanoutSet(m, b) = WithSlot(Unreferenced(Referenced(m, b), m.slot), b)
    <2>. DEFINE m1 == Referenced(m, b)
                m2 == Unreferenced(m1, m.slot)
                n  == WithSlot(m2, b)
    <2>1. /\ Sound(m) /\ b \in Bos /\ m.refs[b] >= 1 /\ m.slot \in Bos /\ m.refs[m.slot] >= 1
          /\ m.refs \in [Bos -> Nat]
        BY <1>2, SolventRefs
    <2>2. /\ Sound(m1) /\ m1.pix = m.pix /\ m1.slot = m.slot
          /\ \A c \in Bos : m1.refs[c] = m.refs[c] + One(c = b)
                            /\ Spare(m1, c) = Spare(m, c) + One(c = b)
        BY <2>1, ReferencedSound
    <2>. HIDE DEF m1
    <2>3. m1.refs[m.slot] >= 1
        BY <2>1, <2>2 DEF One
    <2>4. /\ Sound(m2) /\ m2.pix = m.pix /\ m2.slot = m.slot
          /\ \A c \in Bos : Spare(m2, c) = Spare(m1, c) - One(c = m.slot)
        BY <2>1, <2>2, <2>3, UnreferencedSound
    <2>. HIDE DEF m2
    <2>8. Sound(m2) /\ b \in Bos
        BY <2>1, <2>4
    <2>9. /\ Sound(n) /\ n.pix = m2.pix
          /\ \A c \in Bos : Spare(n, c) = Spare(m2, c) + One(c = m2.slot) - One(c = b)
        BY <2>8, WithSlotSound
    <2>5. /\ Sound(n) /\ n.pix = m.pix
          /\ \A c \in Bos : Spare(n, c) = Spare(m2, c) + One(c = m.slot) - One(c = b)
        BY <2>4, <2>9
    <2>6. \A c \in Bos : Spare(m, c) \in Int /\ One(c = b) \in Int /\ One(c = m.slot) \in Int
        BY <2>1, UsersType DEF Spare, One
    <2>7. \A c \in Bos : Spare(n, c) = Spare(m, c)
        BY <2>2, <2>4, <2>5, <2>6
    <2>. QED
        BY <1>2, <2>5, <2>7 DEF Balanced, m2, m1
<1>. QED
    BY <1>1, <1>2 DEF ScanoutSet, WithSlot

\* drmmode_xf86crtc_resize: another root bo.
LEMMA NewRootBalanced ==
    ASSUME NEW m, Solvent(m), NEW s \in Sizes \cup {Empty}, NEW x \in NewBo(m, s),
           x.bo # NoBo, NEW v \in BOOLEAN
    PROVE  LET n == WithRoot(Unreferenced(x.m, m.scanout), x.bo, v)
           IN  Balanced(m, n) /\ n.pix = m.pix
<1>. DEFINE m2 == Unreferenced(x.m, m.scanout)
            n  == WithRoot(m2, x.bo, v)
<1>1. /\ Sound(m) /\ m.scanout \in Bos /\ m.refs[m.scanout] >= 1 /\ m.refs \in [Bos -> Nat]
    BY SolventRefs
<1>2. /\ Sound(x.m) /\ x.bo \in Bos /\ x.m.pix = m.pix /\ x.m.scanout = m.scanout
      /\ \A c \in Bos : x.m.refs[c] = m.refs[c] + One(c = x.bo)
                    /\ Spare(x.m, c) = Spare(m, c) + One(c = x.bo)
    BY <1>1, NewBoSound
<1>3. x.m.refs[m.scanout] >= 1
    BY <1>1, <1>2 DEF One
<1>4. /\ Sound(m2) /\ m2.pix = m.pix /\ m2.scanout = m.scanout
      /\ \A c \in Bos : Spare(m2, c) = Spare(x.m, c) - One(c = m.scanout)
    BY <1>1, <1>2, <1>3, UnreferencedSound
<1>. HIDE DEF m2
<1>5. /\ Sound(n) /\ n.pix = m.pix
      /\ \A c \in Bos : Spare(n, c) = Spare(m2, c) + One(c = m.scanout) - One(c = x.bo)
    BY <1>2, <1>4, WithRootSound
<1>6. \A c \in Bos : /\ Spare(m, c) \in Int /\ One(c = x.bo) \in Int
                     /\ One(c = m.scanout) \in Int
    BY <1>1, UsersType DEF Spare, One
<1>7. \A c \in Bos : Spare(n, c) = Spare(m, c)
    BY <1>2, <1>4, <1>5, <1>6
<1>. QED
    BY <1>5, <1>7 DEF Balanced, m2

-----------------------------------------------------------------------------
(* Who holds a pixmap.                                                     *)

Owners(p) == Cardinality({w \in Windows : OwnPixmap(w) = p})
Fronts(p) == Cardinality({w \in Windows : buf[w].front = p})
Backs(p)  == Cardinality({w \in Windows : buf[w].back = p})
Srcs(p)   == Cardinality({w \in Windows : cmd[w].src = p})
Dsts(p)   == Cardinality({w \in Windows : cmd[w].dst = p})

Holders(p) == One(p = Root) + One(p \in plain)
              + Owners(p) + Fronts(p) + Backs(p) + Srcs(p) + Dsts(p)
Surplus(p) == mem.pix[p].refs - Holders(p)

LEMMA OwnersChange ==
    ASSUME NEW w \in Windows, \A v \in Windows \ {w} : win'[v] = win[v], NEW p
    PROVE  Owners(p)' = Owners(p) - One(OwnPixmap(w) = p) + One(OwnPixmap(w)' = p)
<1>. DEFINE A == {v \in Windows : OwnPixmap(v) = p}
            B == {v \in Windows : OwnPixmap(v)' = p}
<1>1. /\ A \in SUBSET Windows /\ B \in SUBSET Windows
      /\ \A v \in Windows \ {w} : v \in A <=> v \in B
    BY DEF OwnPixmap
<1>2. /\ One(w \in A) = One(OwnPixmap(w) = p) /\ One(w \in B) = One(OwnPixmap(w)' = p)
    BY DEF One
<1>3. Owners(p) = Cardinality(A) /\ Owners(p)' = Cardinality(B)
    BY DEF Owners
<1>. HIDE DEF A, B
<1>4. Cardinality(B) = Cardinality(A) - One(w \in A) + One(w \in B)
    BY <1>1, WindowsFinite, CountChange
<1>. QED
    BY <1>2, <1>3, <1>4

LEMMA BuffersChange ==
    ASSUME NEW w \in Windows, \A v \in Windows \ {w} : buf'[v] = buf[v], NEW p
    PROVE  /\ Fronts(p)' = Fronts(p) - One(buf[w].front = p) + One(buf'[w].front = p)
           /\ Backs(p)' = Backs(p) - One(buf[w].back = p) + One(buf'[w].back = p)
<1>1. Fronts(p)' = Fronts(p) - One(buf[w].front = p) + One(buf'[w].front = p)
    <2>. DEFINE A == {v \in Windows : buf[v].front = p}
                B == {v \in Windows : buf'[v].front = p}
    <2>1. /\ A \in SUBSET Windows /\ B \in SUBSET Windows
          /\ \A v \in Windows \ {w} : v \in A <=> v \in B
        OBVIOUS
    <2>2. One(w \in A) = One(buf[w].front = p) /\ One(w \in B) = One(buf'[w].front = p)
        BY DEF One
    <2>3. Fronts(p) = Cardinality(A) /\ Fronts(p)' = Cardinality(B)
        BY DEF Fronts
    <2>. HIDE DEF A, B
    <2>4. Cardinality(B) = Cardinality(A) - One(w \in A) + One(w \in B)
        BY <2>1, WindowsFinite, CountChange
    <2>. QED
        BY <2>2, <2>3, <2>4
<1>2. Backs(p)' = Backs(p) - One(buf[w].back = p) + One(buf'[w].back = p)
    <2>. DEFINE A == {v \in Windows : buf[v].back = p}
                B == {v \in Windows : buf'[v].back = p}
    <2>1. /\ A \in SUBSET Windows /\ B \in SUBSET Windows
          /\ \A v \in Windows \ {w} : v \in A <=> v \in B
        OBVIOUS
    <2>2. One(w \in A) = One(buf[w].back = p) /\ One(w \in B) = One(buf'[w].back = p)
        BY DEF One
    <2>3. Backs(p) = Cardinality(A) /\ Backs(p)' = Cardinality(B)
        BY DEF Backs
    <2>. HIDE DEF A, B
    <2>4. Cardinality(B) = Cardinality(A) - One(w \in A) + One(w \in B)
        BY <2>1, WindowsFinite, CountChange
    <2>. QED
        BY <2>2, <2>3, <2>4
<1>. QED
    BY <1>1, <1>2

LEMMA CommandsChange ==
    ASSUME NEW w \in Windows, \A v \in Windows \ {w} : cmd'[v] = cmd[v], NEW p
    PROVE  /\ Srcs(p)' = Srcs(p) - One(cmd[w].src = p) + One(cmd'[w].src = p)
           /\ Dsts(p)' = Dsts(p) - One(cmd[w].dst = p) + One(cmd'[w].dst = p)
<1>1. Srcs(p)' = Srcs(p) - One(cmd[w].src = p) + One(cmd'[w].src = p)
    <2>. DEFINE A == {v \in Windows : cmd[v].src = p}
                B == {v \in Windows : cmd'[v].src = p}
    <2>1. /\ A \in SUBSET Windows /\ B \in SUBSET Windows
          /\ \A v \in Windows \ {w} : v \in A <=> v \in B
        OBVIOUS
    <2>2. One(w \in A) = One(cmd[w].src = p) /\ One(w \in B) = One(cmd'[w].src = p)
        BY DEF One
    <2>3. Srcs(p) = Cardinality(A) /\ Srcs(p)' = Cardinality(B)
        BY DEF Srcs
    <2>. HIDE DEF A, B
    <2>4. Cardinality(B) = Cardinality(A) - One(w \in A) + One(w \in B)
        BY <2>1, WindowsFinite, CountChange
    <2>. QED
        BY <2>2, <2>3, <2>4
<1>2. Dsts(p)' = Dsts(p) - One(cmd[w].dst = p) + One(cmd'[w].dst = p)
    <2>. DEFINE A == {v \in Windows : cmd[v].dst = p}
                B == {v \in Windows : cmd'[v].dst = p}
    <2>1. /\ A \in SUBSET Windows /\ B \in SUBSET Windows
          /\ \A v \in Windows \ {w} : v \in A <=> v \in B
        OBVIOUS
    <2>2. One(w \in A) = One(cmd[w].dst = p) /\ One(w \in B) = One(cmd'[w].dst = p)
        BY DEF One
    <2>3. Dsts(p) = Cardinality(A) /\ Dsts(p)' = Cardinality(B)
        BY DEF Dsts
    <2>. HIDE DEF A, B
    <2>4. Cardinality(B) = Cardinality(A) - One(w \in A) + One(w \in B)
        BY <2>1, WindowsFinite, CountChange
    <2>. QED
        BY <2>2, <2>3, <2>4
<1>. QED
    BY <1>1, <1>2

\* Each window counts.
LEMMA CountsAtLeast ==
    ASSUME NEW p
    PROVE  /\ Owners(p) \in Nat /\ Fronts(p) \in Nat /\ Backs(p) \in Nat
           /\ Srcs(p) \in Nat /\ Dsts(p) \in Nat
           /\ \A w \in Windows : /\ Owners(p) >= One(OwnPixmap(w) = p)
                                /\ Fronts(p) >= One(buf[w].front = p)
                                /\ Backs(p) >= One(buf[w].back = p)
                                /\ Srcs(p) >= One(cmd[w].src = p)
                                /\ Dsts(p) >= One(cmd[w].dst = p)
<1>1. ASSUME NEW A \in SUBSET Windows
      PROVE  Cardinality(A) \in Nat /\ \A w \in A : Cardinality(A) >= 1
    <2>1. IsFiniteSet(A) /\ Cardinality(A) \in Nat
        BY WindowsFinite, FS_Subset, FS_CardinalityType
    <2>2. A # {} => Cardinality(A) # 0
        BY <2>1, FS_EmptySet
    <2>. QED
        BY <2>1, <2>2
<1>2. /\ Owners(p) \in Nat
      /\ \A w \in Windows : OwnPixmap(w) = p => Owners(p) >= 1
    BY <1>1 DEF Owners
<1>3. Fronts(p) \in Nat /\ \A w \in Windows : buf[w].front = p => Fronts(p) >= 1
    BY <1>1 DEF Fronts
<1>4. Backs(p) \in Nat /\ \A w \in Windows : buf[w].back = p => Backs(p) >= 1
    BY <1>1 DEF Backs
<1>5. Srcs(p) \in Nat /\ \A w \in Windows : cmd[w].src = p => Srcs(p) >= 1
    BY <1>1 DEF Srcs
<1>6. Dsts(p) \in Nat /\ \A w \in Windows : cmd[w].dst = p => Dsts(p) >= 1
    BY <1>1 DEF Dsts
<1>. QED
    BY <1>2, <1>3, <1>4, <1>5, <1>6 DEF One

-----------------------------------------------------------------------------
(* The inductive invariant.                                                *)

\* A waiting call holds the bo that it has taken from a front buffer.
BosCounted == \A b \in Bos : Spare(mem, b) = One(call.old = b)

\* A pixmap that somebody has is never short of references, and has none too
\* many unless the kernel may refuse the name of a DRI2 buffer.
PixmapsCounted ==
    /\ \A p \in Pixmaps : Surplus(p) >= 0
    /\ "get_name" \notin Failing /\ ~crashed => \A p \in Pixmaps : Surplus(p) = 0

\* Buffers and commands have both pixmaps or none.  While a flip of a window is
\* under way its client relies on no name, and a swap waits only in a driver
\* that runs.
Pairs ==
    /\ \A w \in Windows :
         /\ buf[w].back # NoPix => buf[w].front # NoPix
         /\ buf[w].name # NoBo => buf[w].back # NoPix
         /\ cmd[w] # NoCmd => cmd[w].src # NoPix /\ cmd[w].dst # NoPix /\ buf[w].name = NoBo
    /\ call # Idle => call.win \in Windows
    /\ crashed => call = Idle

\* A back pixmap is that of one window, and nothing else but the source of that
\* window's flip.
BacksApart ==
    \A w \in Windows : buf[w].back # NoPix =>
        /\ buf[w].back # Root /\ buf[w].back \notin plain
        /\ \A v \in Windows : /\ win[v].pix # buf[w].back
                              /\ buf[v].front # buf[w].back
                              /\ cmd[v].dst # buf[w].back
                              /\ v # w => /\ buf[v].back # buf[w].back
                                          /\ cmd[v].src # buf[w].back

Named == \A w \in Windows : buf[w].name # NoBo => buf[w].name = mem.pix[buf[w].back].bo

IInv == TypeOK /\ Sound(mem) /\ BosCounted /\ PixmapsCounted /\ Pairs /\ BacksApart /\ Named

LEMMA IInvSolvent == IInv => Solvent(mem)
    BY DEF IInv, BosCounted, Solvent, One

\* What the variables name is held.
LEMMA InUse ==
    ASSUME IInv
    PROVE  /\ \A p \in Pixmaps : mem.pix[p].refs \in Nat
           /\ mem.pix[Root].refs >= 1
           /\ \A p \in plain : p \in Pixmaps /\ mem.pix[p].refs >= 1
           /\ \A w \in Windows :
                /\ win[w].pix \in Pixmaps /\ mem.pix[win[w].pix].refs >= 1
                /\ buf[w].front # NoPix => buf[w].front \in Pixmaps /\ mem.pix[buf[w].front].refs >= 1
                /\ buf[w].back # NoPix => buf[w].back \in Pixmaps /\ mem.pix[buf[w].back].refs >= 1
                /\ cmd[w].src # NoPix => cmd[w].src \in Pixmaps /\ mem.pix[cmd[w].src].refs >= 1
                /\ cmd[w].dst # NoPix => cmd[w].dst \in Pixmaps /\ mem.pix[cmd[w].dst].refs >= 1
<1>1. /\ plain \subseteq Pixmaps /\ Root \in Pixmaps
      /\ \A w \in Windows : /\ win[w].pix \in Pixmaps
                            /\ buf[w].front \in Pixmaps \cup {NoPix}
                            /\ buf[w].back \in Pixmaps \cup {NoPix}
                            /\ cmd[w].src \in Pixmaps \cup {NoPix}
                            /\ cmd[w].dst \in Pixmaps \cup {NoPix}
    BY NoPixOutside DEF IInv, TypeOK, WinType, BufType, CmdType
<1>2. \A p \in Pixmaps : mem.pix[p].refs \in Nat /\ mem.pix[p].refs >= Holders(p)
    <2>1. \A p \in Pixmaps : Holders(p) \in Nat
        BY CountsAtLeast DEF Holders, One
    <2>. QED
        BY <2>1, IInvSolvent, PixmapRefs DEF IInv, PixmapsCounted, Surplus
<1>3. ASSUME NEW p \in Pixmaps
      PROVE  /\ p = Root \/ p \in plain => Holders(p) >= 1
             /\ \A w \in Windows :
                    \/ OwnPixmap(w) = p \/ buf[w].front = p \/ buf[w].back = p
                    \/ cmd[w].src = p \/ cmd[w].dst = p
                    => Holders(p) >= 1
    BY CountsAtLeast DEF Holders, One
<1>4. ASSUME NEW p \in Pixmaps, Holders(p) >= 1
      PROVE  mem.pix[p].refs >= 1
    <2>1. Holders(p) \in Nat
        BY CountsAtLeast DEF Holders, One
    <2>. QED
        BY <1>2, <1>4, <2>1
<1>5. ASSUME NEW w \in Windows
      PROVE  mem.pix[win[w].pix].refs >= 1
    <2>1. CASE win[w].pix = Root
        BY <1>1, <1>3, <1>4, <2>1
    <2>2. CASE win[w].pix # Root
        <3>1. OwnPixmap(w) = win[w].pix
            BY <2>2 DEF OwnPixmap
        <3>. QED
            BY <1>1, <1>3, <1>4, <3>1
    <2>. QED
        BY <2>1, <2>2
<1>. QED
    BY <1>1, <1>2, <1>3, <1>4, <1>5

LEMMA InitIInv == Init => IInv
<1>. SUFFICES ASSUME Init PROVE IInv
    OBVIOUS
<1>0. 1 \in Bos /\ 2 \in Bos /\ Mode \in Sizes /\ Root \in Pixmaps
    BY PixmapsAssumption, NoPixOutside DEF Bos, Mode, Sizes
<1>1. mem \in Memory
    <2>1. mem.pix \in [Pixmaps -> PixType]
        BY <1>0 DEF Init, PixType, FreePix, NoBo, Empty
    <2>. QED
        BY <1>0, <2>1 DEF Init, Memory
<1>2. TypeOK
    BY <1>0, <1>1 DEF Init, TypeOK, WinType, BufType, CmdType, NoBuf, NoCmd, Idle, NoPix, NoBo
<1>3. Sound(mem)
    BY <1>0, <1>1 DEF Init, Sound, FreePix
<1>4. BosCounted
    <2>1. ASSUME NEW b \in Bos
          PROVE  Cardinality({p \in Pixmaps : mem.pix[p].bo = b}) = One(b = 1)
        <3>1. CASE b = 1
            <4>1. {p \in Pixmaps : mem.pix[p].bo = b} = {Root}
                BY <1>0, <3>1 DEF Init, FreePix, NoBo
            <4>. QED
                BY <3>1, <4>1, FS_Singleton DEF One
        <3>2. CASE b # 1
            <4>1. {p \in Pixmaps : mem.pix[p].bo = b} = {}
                BY <1>0, <3>2, NoPixOutside DEF Init, FreePix
            <4>. QED
                BY <3>2, <4>1, FS_EmptySet DEF One
        <3>. QED
            BY <3>1, <3>2
    <2>2. \A b \in Bos : call.old # b
        BY NoPixOutside DEF Init, Idle
    <2>3. mem.scanout = 1 /\ mem.slot = 2
          /\ \A b \in Bos : mem.refs[b] = IF b = 1 THEN 2 ELSE IF b = 2 THEN 1 ELSE 0
        BY DEF Init
    <2>. QED
        BY <2>1, <2>2, <2>3 DEF BosCounted, Spare, Users, One
<1>5. PixmapsCounted
    <2>1. ASSUME NEW p \in Pixmaps
          PROVE  /\ Owners(p) = 0 /\ Fronts(p) = 0 /\ Backs(p) = 0 /\ Srcs(p) = 0 /\ Dsts(p) = 0
        <3>1. \A w \in Windows : /\ OwnPixmap(w) # p /\ buf[w].front # p /\ buf[w].back # p
                                 /\ cmd[w].src # p /\ cmd[w].dst # p
            BY NoPixOutside DEF Init, OwnPixmap, NoBuf, NoCmd
        <3>2. /\ {w \in Windows : OwnPixmap(w) = p} = {} /\ {w \in Windows : buf[w].front = p} = {}
              /\ {w \in Windows : buf[w].back = p} = {} /\ {w \in Windows : cmd[w].src = p} = {}
              /\ {w \in Windows : cmd[w].dst = p} = {}
            BY <3>1
        <3>. QED
            BY <3>2, FS_EmptySet DEF Owners, Fronts, Backs, Srcs, Dsts
    <2>2. \A p \in Pixmaps : mem.pix[p].refs = One(p = Root) + One(p \in plain)
        BY DEF Init, FreePix, One
    <2>. QED
        BY <2>1, <2>2 DEF PixmapsCounted, Surplus, Holders, One
<1>6. Pairs /\ BacksApart /\ Named
    BY DEF Init, Pairs, BacksApart, Named, NoBuf, NoCmd, Idle
<1>. QED
    BY <1>2, <1>3, <1>4, <1>5, <1>6 DEF IInv

-----------------------------------------------------------------------------
(* Each action keeps it.                                                   *)

\* What a step must do for the pixmaps to stay counted.
LEMMA StillCounted ==
    ASSUME PixmapsCounted, \A p \in Pixmaps : Surplus(p)' = Surplus(p), ~crashed' => ~crashed
    PROVE  PixmapsCounted'
    BY DEF PixmapsCounted

LEMMA StillBalanced ==
    ASSUME IInv, Balanced(mem, mem'), UNCHANGED call
    PROVE  Sound(mem)' /\ BosCounted' /\ mem' \in Memory
    BY DEF IInv, Balanced, BosCounted, Sound

\* No pixmap changes hands.
LEMMA PlacesKept ==
    ASSUME PixmapsCounted, BacksApart,
           \A p \in Pixmaps : mem'.pix[p].refs = mem.pix[p].refs,
           UNCHANGED <<plain, cmd>>, ~crashed' => ~crashed,
           \A w \in Windows : /\ win'[w].pix = win[w].pix
                              /\ buf'[w].front = buf[w].front /\ buf'[w].back = buf[w].back
    PROVE  PixmapsCounted' /\ BacksApart'
<1>1. BacksApart'
    BY DEF BacksApart
<1>2. ASSUME NEW p \in Pixmaps
      PROVE  Surplus(p)' = Surplus(p)
    <2>1. /\ {w \in Windows : OwnPixmap(w)' = p} = {w \in Windows : OwnPixmap(w) = p}
          /\ {w \in Windows : buf'[w].front = p} = {w \in Windows : buf[w].front = p}
          /\ {w \in Windows : buf'[w].back = p} = {w \in Windows : buf[w].back = p}
        BY DEF OwnPixmap
    <2>2. /\ Owners(p)' = Owners(p) /\ Fronts(p)' = Fronts(p) /\ Backs(p)' = Backs(p)
          /\ Srcs(p)' = Srcs(p) /\ Dsts(p)' = Dsts(p)
        BY <2>1 DEF Owners, Fronts, Backs, Srcs, Dsts
    <2>. QED
        BY <2>2 DEF Surplus, Holders
<1>. QED
    BY <1>1, <1>2, StillCounted

\* A step that gives another bo to one pixmap, which no client draws into.
LEMMA TouchedStep ==
    ASSUME IInv, NEW p \in Pixmaps, Touched(mem, mem', p),
           \A w \in Windows : buf[w].back # NoPix => buf[w].back # p,
           UNCHANGED <<plain, win, cmd, call, crashed>>, has_resized' \in BOOLEAN,
           UNCHANGED buf \/ \E w \in Windows : buf' = Swapped(w)
    PROVE  IInv'
<1>1. Sound(mem)' /\ BosCounted' /\ mem' \in Memory
    BY StillBalanced DEF Touched
<1>2. buf \in [Windows -> BufType]
    BY DEF IInv, TypeOK
<1>3. /\ buf' \in [Windows -> BufType]
      /\ \A w \in Windows : /\ buf'[w].front = buf[w].front /\ buf'[w].back = buf[w].back
                            /\ buf'[w].name \in {buf[w].name, NoBo}
    BY <1>2 DEF Swapped, BufType
<1>4. \A q \in Pixmaps : mem'.pix[q].refs = mem.pix[q].refs
    BY DEF Touched, Only
<1>5. PixmapsCounted' /\ BacksApart'
    BY <1>3, <1>4, PlacesKept DEF IInv
<1>6. Named' /\ Pairs'
    BY <1>3, InUse DEF IInv, Named, Pairs, Touched, Only
<1>7. TypeOK'
    BY <1>1, <1>3 DEF IInv, TypeOK
<1>. QED
    BY <1>1, <1>5, <1>6, <1>7 DEF IInv

LEMMA BooleanType == IInv => has_resized \in BOOLEAN
    BY DEF IInv, TypeOK

LEMMA BacksElsewhere ==
    ASSUME IInv
    PROVE  \A w, v \in Windows : buf[w].back # NoPix =>
               /\ buf[w].back # Root /\ buf[w].back \notin plain /\ buf[w].back # buf[v].front
               /\ buf[w].back # win[v].pix /\ buf[w].back # cmd[v].dst
<1>. SUFFICES ASSUME NEW w \in Windows, NEW v \in Windows, buf[w].back # NoPix
              PROVE  /\ buf[w].back # Root /\ buf[w].back \notin plain
                     /\ win[v].pix # buf[w].back /\ buf[v].front # buf[w].back
                     /\ cmd[v].dst # buf[w].back
    OBVIOUS
<1>1. BacksApart
    BY DEF IInv
<1>. QED
    BY <1>1 DEF BacksApart

LEMMA ModifyPixmapHeaderStep == IInv /\ ModifyPixmapHeader => IInv'
<1>. SUFFICES ASSUME IInv, ModifyPixmapHeader PROVE IInv'
    OBVIOUS
<1>1. PICK p \in plain, s \in Sizes, data \in {"null", "foreign"} : mem' \in Modified(mem, p, s, data)
    BY DEF ModifyPixmapHeader
<1>2. Touched(mem, mem', p) /\ p \in Pixmaps
    BY <1>1, IInvSolvent, InUse, ModifiedTouched
<1>3. \A w \in Windows : buf[w].back # NoPix => buf[w].back # p
    BY <1>1, BacksElsewhere
<1>. QED
    BY <1>2, <1>3, BooleanType, TouchedStep DEF ModifyPixmapHeader

LEMMA RootWriteStep == IInv /\ RootWrite => IInv'
<1>. SUFFICES ASSUME IInv, RootWrite PROVE IInv'
    OBVIOUS
<1>1. Touched(mem, mem', Root) /\ Root \in Pixmaps
    BY IInvSolvent, InUse, RootWrittenTouched, NoPixOutside DEF RootWrite
<1>. QED
    BY <1>1, BacksElsewhere, BooleanType, TouchedStep DEF RootWrite

LEMMA ResizeStep == IInv /\ Resize => IInv'
<1>. SUFFICES ASSUME IInv, Resize PROVE IInv'
    OBVIOUS
<1>0. Solvent(mem) /\ mem.pix[Root].refs >= 1 /\ Root \in Pixmaps
    BY IInvSolvent, InUse, NoPixOutside
<1>1. PICK s \in Sizes :
         \/ \E n \in NewBo(mem, s) :
                 \/ n.bo = NoBo /\ mem' = n.m
                 \/ /\ n.bo # NoBo
                    /\ \E ok \in Maps([n.m EXCEPT !.mapped = FALSE]) :
                         mem' \in Modified([Unreferenced(n.m, mem.scanout)
                                              EXCEPT !.scanout = n.bo, !.mapped = ok],
                                           Root, s, IF ok THEN "root" ELSE "null")
         \/ \E ok \in Maps(mem) :
                mem' \in Modified([mem EXCEPT !.mapped = ok], Root, s, IF ok THEN "root" ELSE "null")
    BY DEF Resize
<1>2. Touched(mem, mem', Root)
    <2>1. ASSUME NEW n \in NewBo(mem, s), n.bo = NoBo, mem' = n.m
          PROVE  Touched(mem, mem', Root)
        <3>1. Sound(n.m) /\ n.m.pix = mem.pix /\ \A c \in Bos : Spare(n.m, c) = Spare(mem, c) + One(c = NoBo)
            BY <1>0, <2>1, NewBoSound DEF Solvent
        <3>2. \A c \in Bos : One(c = NoBo) = 0 /\ Spare(mem, c) \in Int
            BY <1>0, SolventRefs, UsersType, NoPixOutside DEF One, Spare
        <3>. QED
            BY <2>1, <3>1, <3>2 DEF Touched, Balanced, Only
    <2>2. ASSUME NEW x, Balanced(mem, x), x.pix = mem.pix, NEW data, mem' \in Modified(x, Root, s, data)
          PROVE  Touched(mem, mem', Root)
        <3>1. Solvent(x) /\ x.pix[Root].refs >= 1 /\ Touched(mem, x, Root)
            BY <1>0, <2>2, BalancedSolvent DEF Touched, Only
        <3>2. Touched(x, mem', Root)
            BY <1>0, <2>2, <3>1, ModifiedTouched
        <3>. QED
            BY <3>1, <3>2, TouchedTrans
    <2>3. ASSUME NEW n \in NewBo(mem, s), n.bo # NoBo,
                 NEW ok \in Maps([n.m EXCEPT !.mapped = FALSE]),
                 mem' \in Modified(WithRoot(Unreferenced(n.m, mem.scanout), n.bo, ok),
                                   Root, s, IF ok THEN "root" ELSE "null")
          PROVE  Touched(mem, mem', Root)
        <3>1. ok \in BOOLEAN
            BY <2>3, MapsType
        <3>. QED
            BY <1>0, <2>2, <2>3, <3>1, NewRootBalanced
    <2>4. ASSUME NEW ok \in Maps(mem),
                 mem' \in Modified(WithMapped(mem, ok), Root, s, IF ok THEN "root" ELSE "null")
          PROVE  Touched(mem, mem', Root)
        <3>1. ok \in BOOLEAN
            BY <2>4, MapsType
        <3>2. Touched(mem, WithMapped(mem, ok), Root)
            BY <1>0, <3>1, WithMappedTouched
        <3>3. Solvent(WithMapped(mem, ok)) /\ WithMapped(mem, ok).pix[Root].refs >= 1
            BY <1>0, <3>2, TouchedSolvent DEF Touched
        <3>. QED
            BY <1>0, <2>4, <3>2, <3>3, ModifiedTouched, TouchedTrans
    <2>. QED
        BY <1>1, <2>1, <2>3, <2>4 DEF WithRoot, WithMapped
<1>3. has_resized' \in BOOLEAN /\ UNCHANGED <<plain, win, buf, cmd, call, crashed>>
    BY BooleanType DEF Resize
<1>. QED
    BY <1>0, <1>2, <1>3, BacksElsewhere, TouchedStep

LEMMA SwapFlipRefusedStep ==
    ASSUME IInv, NEW w \in Windows, SwapFlipRefused(w)
    PROVE  IInv'
<1>1. Touched(mem, BlitDone(mem, w), Root) /\ Root \in Pixmaps
    BY IInvSolvent, InUse, RootWrittenTouched, TouchedSame, NoPixOutside DEF BlitDone
<1>. QED
    BY <1>1, BacksElsewhere, TouchedStep DEF SwapFlipRefused

LEMMA SwapBlitStep ==
    ASSUME IInv, NEW w \in Windows, SwapBlit(w)
    PROVE  IInv'
<1>. DEFINE f  == buf[w].front
            m1 == Referenced(mem, mem.scanout)
            old == mem.pix[f].bo
<1>1. /\ mem' = Backed(m1, f, mem.scanout) /\ call' = [win |-> w, old |-> old]
      /\ buf' = Swapped(w) /\ UNCHANGED <<plain, win, cmd, has_resized, crashed>>
      /\ ~crashed /\ call = Idle /\ buf[w].back # NoPix
    BY DEF SwapBlit, SwapReady, MayAsk, Serving, HasBuffers, FrontOf
<1>2. Sound(mem) /\ mem.scanout \in Bos /\ mem.refs[mem.scanout] >= 1 /\ mem.refs \in [Bos -> Nat]
    BY IInvSolvent, SolventRefs
<1>3. f \in Pixmaps /\ mem.pix[f].refs >= 1 /\ old \in Bos \cup {NoBo}
    <2>1. f # NoPix
        BY <1>1 DEF IInv, Pairs
    <2>. QED
        BY <2>1, InUse, IInvSolvent, PixmapRefs
<1>4. /\ Sound(m1) /\ m1.pix = mem.pix
      /\ \A c \in Bos : Spare(m1, c) = Spare(mem, c) + One(c = mem.scanout)
    BY <1>2, ReferencedSound
<1>. HIDE DEF m1
<1>5. /\ Sound(mem') /\ Only(m1, mem', f) /\ mem'.pix[f].refs = m1.pix[f].refs
      /\ \A c \in Bos : Spare(mem', c) = Spare(m1, c) + One(c = m1.pix[f].bo) - One(c = mem.scanout)
    BY <1>1, <1>2, <1>3, <1>4, BackedSound
<1>6. BosCounted'
    <2>1. ASSUME NEW c \in Bos
          PROVE  Spare(mem', c) = One(call'.old = c)
        <3>1. Spare(mem, c) = 0
            BY <1>1, NoPixOutside DEF IInv, BosCounted, Idle, One
        <3>2. One(c = old) = One(call'.old = c)
            BY <1>1 DEF One
        <3>3. One(c = mem.scanout) \in 0..1 /\ One(c = old) \in 0..1
            BY DEF One
        <3>. QED
            BY <1>4, <1>5, <3>1, <3>2, <3>3
    <2>. QED
        BY <2>1 DEF BosCounted
<1>7. buf \in [Windows -> BufType]
    BY DEF IInv, TypeOK
<1>8. /\ buf' \in [Windows -> BufType]
      /\ \A v \in Windows : /\ buf'[v].front = buf[v].front /\ buf'[v].back = buf[v].back
                            /\ buf'[v].name \in {buf[v].name, NoBo}
    BY <1>1, <1>7 DEF Swapped, BufType
<1>9. PixmapsCounted' /\ BacksApart'
    <2>1. \A q \in Pixmaps : mem'.pix[q].refs = mem.pix[q].refs
        BY <1>4, <1>5 DEF Only
    <2>. QED
        BY <1>1, <1>8, <2>1, PlacesKept DEF IInv
<1>10. Named' /\ Pairs'
    <2>1. \A v \in Windows : buf[v].back # NoPix => mem'.pix[buf[v].back] = mem.pix[buf[v].back]
        BY <1>3, <1>4, <1>5, InUse, BacksElsewhere DEF Only
    <2>2. Named'
        BY <1>8, <2>1 DEF IInv, Named, Pairs
    <2>3. Pairs'
        BY <1>1, <1>8 DEF IInv, Pairs
    <2>. QED
        BY <2>2, <2>3
<1>11. TypeOK'
    BY <1>1, <1>3, <1>5, <1>8 DEF IInv, TypeOK, Sound
<1>. QED
    BY <1>5, <1>6, <1>9, <1>10, <1>11 DEF IInv

LEMMA SwapBlitReturnStep == IInv /\ SwapBlitReturn => IInv'
<1>. SUFFICES ASSUME IInv, SwapBlitReturn PROVE IInv'
    OBVIOUS
<1>. DEFINE m1 == Unreferenced(mem, call.old)
<1>1. /\ mem' = BlitDone(m1, call.win) /\ call' = Idle /\ has_resized' = FALSE
      /\ UNCHANGED <<plain, win, buf, cmd, crashed>>
    BY DEF SwapBlitReturn
<1>2. /\ call.old \in Bos \cup {NoBo} /\ (call.old # NoBo => mem.refs[call.old] >= 1)
      /\ Sound(mem) /\ mem.refs \in [Bos -> Nat]
    <2>1. call.old \in Bos \cup {NoBo} /\ Sound(mem) /\ mem.refs \in [Bos -> Nat]
        BY IInvSolvent, SolventRefs DEF IInv, TypeOK
    <2>2. ASSUME call.old \in Bos
          PROVE  mem.refs[call.old] >= 1
        <3>1. Spare(mem, call.old) = 1
            BY <2>2 DEF IInv, BosCounted, One
        <3>. QED
            BY <2>1, <2>2, <3>1, UsersType DEF Spare
    <2>. QED
        BY <2>1, <2>2
<1>3. /\ Sound(m1) /\ m1.pix = mem.pix
      /\ \A c \in Bos : Spare(m1, c) = Spare(mem, c) - One(c = call.old)
    BY <1>2, UnreferencedSound
<1>. HIDE DEF m1
<1>4. \A c \in Bos : Spare(m1, c) = 0
    BY <1>3 DEF IInv, BosCounted, One
<1>5. Touched(m1, mem', Root)
    <2>1. Solvent(m1) /\ m1.pix[Root].refs >= 1
        BY <1>3, <1>4, InUse DEF Solvent
    <2>. QED
        BY <1>1, <2>1, RootWrittenTouched, TouchedSame DEF BlitDone
<1>6. Sound(mem)' /\ mem' \in Memory
    BY <1>5 DEF Touched, Balanced, Sound
<1>7. BosCounted'
    BY <1>1, <1>4, <1>5, NoPixOutside DEF Touched, Balanced, BosCounted, Idle, One
<1>8. PixmapsCounted' /\ BacksApart'
    <2>1. \A q \in Pixmaps : mem'.pix[q].refs = mem.pix[q].refs
        BY <1>3, <1>5 DEF Touched, Only
    <2>. QED
        BY <1>1, <2>1, PlacesKept DEF IInv
<1>9. Named' /\ Pairs'
    BY <1>1, <1>3, <1>5, InUse, BacksElsewhere DEF IInv, Named, Pairs, Touched, Only
<1>10. TypeOK'
    BY <1>1, <1>6 DEF IInv, TypeOK, Idle
<1>. QED
    BY <1>6, <1>7, <1>8, <1>9, <1>10 DEF IInv

LEMMA SwapNothingStep ==
    ASSUME IInv, NEW w \in Windows, SwapNothing(w)
    PROVE  IInv'
<1>1. call = Idle /\ ~crashed /\ crashed' = TRUE /\ UNCHANGED <<mem, plain, win, buf, cmd, call, has_resized>>
    BY DEF SwapNothing, MayAsk, Serving
<1>2. Sound(mem)' /\ BosCounted' /\ BacksApart' /\ Named' /\ TypeOK' /\ Pairs'
    BY <1>1 DEF IInv, BosCounted, BacksApart, Named, TypeOK, Pairs
<1>3. PixmapsCounted'
    <2>1. \A p \in Pixmaps : Surplus(p)' = Surplus(p)
        BY <1>1 DEF Surplus, Holders, Owners, OwnPixmap, Fronts, Backs, Srcs, Dsts
    <2>. QED
        BY <1>1, <2>1 DEF IInv, PixmapsCounted
<1>. QED
    BY <1>2, <1>3 DEF IInv

LEMMA ReuseBuffersStep ==
    ASSUME IInv, NEW w \in Windows, ReuseBuffers(w)
    PROVE  IInv'
<1>1. /\ call = Idle /\ ~crashed /\ cmd[w] = NoCmd /\ buf[w].back # NoPix
      /\ crashed' \in BOOLEAN /\ buf' = NewName(w)
      /\ UNCHANGED <<mem, plain, win, cmd, call, has_resized>>
    BY DEF ReuseBuffers, MayAsk, Serving, HasBuffers
<1>2. /\ buf \in [Windows -> BufType] /\ mem.pix[buf[w].back].bo \in Bos \cup {NoBo}
    BY <1>1, InUse, IInvSolvent, PixmapRefs DEF IInv, TypeOK
<1>3. /\ buf' \in [Windows -> BufType]
      /\ \A v \in Windows : /\ buf'[v].front = buf[v].front /\ buf'[v].back = buf[v].back
                            /\ v # w => buf'[v].name = buf[v].name
      /\ buf'[w].name = mem.pix[buf[w].back].bo
    BY <1>1, <1>2 DEF NewName, BufType
<1>4. Sound(mem)' /\ BosCounted' /\ TypeOK'
    BY <1>1, <1>3 DEF IInv, BosCounted, TypeOK
<1>5. Named' /\ Pairs'
    BY <1>1, <1>3 DEF IInv, Named, Pairs
<1>6. PixmapsCounted' /\ BacksApart'
    <2>1. PixmapsCounted /\ BacksApart
        BY DEF IInv
    <2>2. \A p \in Pixmaps : mem'.pix[p].refs = mem.pix[p].refs
        BY <1>1
    <2>3. \A v \in Windows : win'[v].pix = win[v].pix
        BY <1>1
    <2>. QED
        BY <1>1, <1>3, <2>1, <2>2, <2>3, PlacesKept
<1>. QED
    BY <1>4, <1>5, <1>6 DEF IInv

LEMMA CreatePixmapStep == IInv /\ CreatePixmap => IInv'
<1>. SUFFICES ASSUME IInv, CreatePixmap PROVE IInv'
    OBVIOUS
<1>1. PICK p \in Unused(mem), s \in Sizes \cup {Empty} :
        mem' \in Created(mem, p, s) /\ plain' = plain \cup {p}
    BY DEF CreatePixmap
<1>2. UNCHANGED <<win, buf, cmd, call, has_resized, crashed>>
    BY DEF CreatePixmap
<1>3. p \in Pixmaps /\ mem.pix[p].refs = 0
    BY <1>1 DEF Unused, First
<1>4. Balanced(mem, mem') /\ Only(mem, mem', p) /\ mem'.pix[p].refs = 1
    BY <1>1, <1>3, IInvSolvent, CreatedOnly
<1>5. Sound(mem)' /\ BosCounted' /\ mem' \in Memory
    BY <1>2, <1>4, StillBalanced
<1>6. p \notin plain /\ p # Root /\ \A w \in Windows : buf[w].back # p
    BY <1>3, InUse, NoPixOutside
<1>7. \A q \in Pixmaps : Surplus(q)' = Surplus(q)
    <2>1. ASSUME NEW q \in Pixmaps
          PROVE  mem'.pix[q].refs = mem.pix[q].refs + One(q = p) /\ mem.pix[q].refs \in Nat
        BY <1>3, <1>4, IInvSolvent, PixmapRefs DEF Only, One
    <2>2. ASSUME NEW q \in Pixmaps
          PROVE  One(q \in plain)' = One(q \in plain) + One(q = p)
        BY <1>1, <1>6 DEF One
    <2>3. ASSUME NEW q \in Pixmaps
          PROVE  /\ Owners(q)' = Owners(q) /\ Fronts(q)' = Fronts(q) /\ Backs(q)' = Backs(q)
                 /\ Srcs(q)' = Srcs(q) /\ Dsts(q)' = Dsts(q)
        BY <1>2 DEF Owners, OwnPixmap, Fronts, Backs, Srcs, Dsts
    <2>4. ASSUME NEW q \in Pixmaps
          PROVE  /\ One(q = p) \in Nat /\ One(q \in plain) \in Nat /\ One(q = Root) \in Nat
                 /\ Owners(q) \in Nat /\ Fronts(q) \in Nat /\ Backs(q) \in Nat
                 /\ Srcs(q) \in Nat /\ Dsts(q) \in Nat
        BY CountsAtLeast DEF One
    <2>. QED
        BY <2>1, <2>2, <2>3, <2>4 DEF Surplus, Holders
<1>8. PixmapsCounted'
    BY <1>2, <1>7, StillCounted DEF IInv
<1>9. BacksApart' /\ Pairs'
    BY <1>1, <1>2, <1>6 DEF IInv, BacksApart, Pairs
<1>10. Named'
    BY <1>2, <1>4, <1>6, InUse DEF IInv, Named, Pairs, Only
<1>11. TypeOK'
    BY <1>1, <1>2, <1>3, <1>5 DEF IInv, TypeOK
<1>. QED
    BY <1>5, <1>8, <1>9, <1>10, <1>11 DEF IInv

LEMMA DestroyPixmapStep == IInv /\ DestroyPixmap => IInv'
<1>. SUFFICES ASSUME IInv, DestroyPixmap PROVE IInv'
    OBVIOUS
<1>1. PICK p \in plain : mem' = Destroyed(mem, p) /\ plain' = plain \ {p}
    BY DEF DestroyPixmap
<1>2. UNCHANGED <<win, buf, cmd, call, has_resized, crashed>>
    BY DEF DestroyPixmap
<1>3. p \in Pixmaps /\ mem.pix[p].refs >= 1 /\ \A w \in Windows : buf[w].back # NoPix => buf[w].back # p
    BY <1>1, InUse, BacksElsewhere
<1>4. Released(mem, mem', p)
    BY <1>1, <1>3, IInvSolvent, DestroyedReleased
<1>5. Sound(mem)' /\ BosCounted' /\ mem' \in Memory
    BY <1>2, <1>4, StillBalanced DEF Released
<1>7. \A q \in Pixmaps : Surplus(q)' = Surplus(q)
    <2>1. ASSUME NEW q \in Pixmaps
          PROVE  mem'.pix[q].refs = mem.pix[q].refs - One(q = p) /\ mem.pix[q].refs \in Nat
        BY <1>3, <1>4, IInvSolvent, PixmapRefs DEF Released
    <2>2. ASSUME NEW q \in Pixmaps
          PROVE  One(q \in plain)' = One(q \in plain) - One(q = p)
        BY <1>1 DEF One
    <2>3. ASSUME NEW q \in Pixmaps
          PROVE  /\ Owners(q)' = Owners(q) /\ Fronts(q)' = Fronts(q) /\ Backs(q)' = Backs(q)
                 /\ Srcs(q)' = Srcs(q) /\ Dsts(q)' = Dsts(q)
        BY <1>2 DEF Owners, OwnPixmap, Fronts, Backs, Srcs, Dsts
    <2>4. ASSUME NEW q \in Pixmaps
          PROVE  /\ One(q = p) \in Nat /\ One(q \in plain) \in Nat /\ One(q = Root) \in Nat
                 /\ Owners(q) \in Nat /\ Fronts(q) \in Nat /\ Backs(q) \in Nat
                 /\ Srcs(q) \in Nat /\ Dsts(q) \in Nat
        BY CountsAtLeast DEF One
    <2>. QED
        BY <2>1, <2>2, <2>3, <2>4 DEF Surplus, Holders
<1>8. PixmapsCounted'
    BY <1>2, <1>7, StillCounted DEF IInv
<1>9. BacksApart' /\ Pairs'
    BY <1>1, <1>2 DEF IInv, BacksApart, Pairs
<1>10. Named'
    <2>1. ASSUME NEW w \in Windows, buf[w].back # NoPix
          PROVE  mem'.pix[buf[w].back].bo = mem.pix[buf[w].back].bo
        BY <1>3, <1>4, <2>1, InUse DEF Released, One
    <2>. QED
        BY <1>2, <2>1 DEF IInv, Named, Pairs
<1>11. TypeOK'
    BY <1>1, <1>2, <1>5 DEF IInv, TypeOK
<1>. QED
    BY <1>5, <1>8, <1>9, <1>10, <1>11 DEF IInv

LEMMA SwapFlipStep ==
    ASSUME IInv, NEW w \in Windows, SwapFlip(w)
    PROVE  IInv'
<1>. DEFINE f == buf[w].front
            p == buf[w].back
            q == win[w].pix
            m == SlotBacked(mem, f)
            n == Held(m, p)
<1>1. /\ \/ mem' = Held(n, q) /\ cmd' = [cmd EXCEPT ![w] = [src |-> p, dst |-> q]]
         \/ mem' = m /\ UNCHANGED cmd
      /\ buf' = Swapped(w) /\ UNCHANGED <<plain, win, call, has_resized, crashed>>
      /\ call = Idle /\ cmd[w] = NoCmd /\ p # NoPix
    BY DEF SwapFlip, SwapReady, MayAsk, Serving, HasBuffers, SrcOf, FrontOf, DstOf
<1>2. /\ f \in Pixmaps /\ mem.pix[f].refs >= 1
      /\ p \in Pixmaps /\ mem.pix[p].refs >= 1
      /\ q \in Pixmaps /\ mem.pix[q].refs >= 1
    <2>1. f # NoPix
        BY <1>1 DEF IInv, Pairs
    <2>. QED
        BY <1>1, <2>1, InUse
<1>3. Touched(mem, m, f) /\ Solvent(m)
    BY <1>2, IInvSolvent, SlotBackedTouched, TouchedSolvent
<1>. HIDE DEF m
<1>4. CASE mem' = m /\ UNCHANGED cmd
    <2>1. \A v \in Windows : buf[v].back # NoPix => buf[v].back # f
        BY BacksElsewhere
    <2>. QED
        BY <1>1, <1>2, <1>3, <1>4, <2>1, BooleanType, TouchedStep
<1>5. CASE mem' = Held(n, q) /\ cmd' = [cmd EXCEPT ![w] = [src |-> p, dst |-> q]]
    <2>1. \A x \in Pixmaps : mem.pix[x].refs \in Nat /\ m.pix[x].refs = mem.pix[x].refs
        BY <1>3, InUse DEF Touched, Only
    <2>2. /\ Balanced(m, n) /\ Only(m, n, p) /\ n.pix[p].refs = m.pix[p].refs + 1
          /\ n.pix[p].bo = m.pix[p].bo
        BY <1>2, <1>3, <2>1, HeldOnly
    <2>. HIDE DEF n
    <2>3. Solvent(n) /\ n.pix[q].refs >= 1
        BY <1>2, <1>3, <2>1, <2>2, BalancedSolvent DEF Only
    <2>4. /\ Balanced(n, mem') /\ Only(n, mem', q) /\ mem'.pix[q].refs = n.pix[q].refs + 1
          /\ mem'.pix[q].bo = n.pix[q].bo
        BY <1>2, <1>5, <2>3, HeldOnly
    <2>5. Sound(mem)' /\ BosCounted' /\ mem' \in Memory
        <3>1. Balanced(mem, mem')
            BY <1>3, <2>2, <2>4 DEF Touched, Balanced
        <3>. QED
            BY <1>1, <3>1, StillBalanced
    <2>6. \A x \in Pixmaps : mem'.pix[x].refs = mem.pix[x].refs + One(x = p) + One(x = q)
        BY <2>1, <2>2, <2>4 DEF Only, One
    <2>7. \A x \in Pixmaps \ {f} : mem'.pix[x].bo = mem.pix[x].bo
        BY <1>3, <2>2, <2>4 DEF Only, Touched
    <2>8. cmd \in [Windows -> CmdType] /\ buf \in [Windows -> BufType]
        BY DEF IInv, TypeOK
    <2>9. /\ buf' \in [Windows -> BufType]
          /\ \A v \in Windows : /\ buf'[v].front = buf[v].front /\ buf'[v].back = buf[v].back
                                /\ buf'[v].name \in {buf[v].name, NoBo}
          /\ buf'[w].name = NoBo
        BY <1>1, <2>8 DEF Swapped, BufType
    <2>10. /\ cmd' \in [Windows -> CmdType] /\ cmd'[w].src = p /\ cmd'[w].dst = q
           /\ \A v \in Windows \ {w} : cmd'[v] = cmd[v]
        BY <1>2, <1>5, <2>8 DEF CmdType
    <2>11. ASSUME NEW x \in Pixmaps
           PROVE  Surplus(x)' = Surplus(x)
        <3>1. Srcs(x)' = Srcs(x) + One(x = p) /\ Dsts(x)' = Dsts(x) + One(x = q)
            <4>1. cmd[w].src # x /\ cmd[w].dst # x
                BY <1>1, NoPixOutside DEF NoCmd
            <4>. QED
                BY <2>10, <4>1, CommandsChange, CountsAtLeast DEF One
        <3>2. Fronts(x)' = Fronts(x) /\ Backs(x)' = Backs(x)
            <4>1. /\ {v \in Windows : buf'[v].front = x} = {v \in Windows : buf[v].front = x}
                  /\ {v \in Windows : buf'[v].back = x} = {v \in Windows : buf[v].back = x}
                BY <2>9
            <4>. QED
                BY <4>1 DEF Fronts, Backs
        <3>3. Owners(x)' = Owners(x) /\ One(x \in plain)' = One(x \in plain)
            BY <1>1 DEF Owners, OwnPixmap
        <3>4. /\ One(x \in plain) \in Nat /\ One(x = Root) \in Nat /\ One(x = p) \in Nat
              /\ One(x = q) \in Nat /\ Owners(x) \in Nat /\ Fronts(x) \in Nat /\ Backs(x) \in Nat
              /\ Srcs(x) \in Nat /\ Dsts(x) \in Nat
            BY CountsAtLeast DEF One
        <3>. QED
            BY <2>1, <2>6, <3>1, <3>2, <3>3, <3>4 DEF Surplus, Holders
    <2>12. PixmapsCounted'
        BY <1>1, <2>11, StillCounted DEF IInv
    <2>13. BacksApart'
        BY <1>1, <2>9, <2>10 DEF IInv, BacksApart
    <2>14. Pairs'
        BY <1>1, <1>2, <2>9, <2>10, NoPixOutside DEF IInv, Pairs
    <2>15. Named'
        <3>1. \A v \in Windows : buf[v].back # NoPix => mem'.pix[buf[v].back].bo = mem.pix[buf[v].back].bo
            BY <2>7, InUse, BacksElsewhere
        <3>. QED
            BY <2>9, <3>1 DEF IInv, Named, Pairs
    <2>16. TypeOK'
        BY <1>1, <2>5, <2>9, <2>10 DEF IInv, TypeOK
    <2>. QED
        BY <2>5, <2>12, <2>13, <2>14, <2>15, <2>16 DEF IInv
<1>. QED
    BY <1>1, <1>4, <1>5

\* Two pixmaps are given up in turn; if they are one, it had two references.
LEMMA ReleasedTwice ==
    ASSUME NEW m, Solvent(m), NEW p \in Pixmaps \cup {NoPix}, NEW q \in Pixmaps \cup {NoPix},
           p # NoPix => m.pix[p].refs >= 1,
           q # NoPix => m.pix[q].refs >= 1 + One(q = p)
    PROVE  LET n == Destroyed(Destroyed(m, p), q)
           IN  /\ Balanced(m, n)
               /\ \A x \in Pixmaps : /\ n.pix[x].refs = m.pix[x].refs - One(x = p) - One(x = q)
                                     /\ x # p /\ x # q /\ m.pix[x].refs > 0
                                            => n.pix[x].bo = m.pix[x].bo
<1>. DEFINE m1 == Destroyed(m, p)
            n  == Destroyed(m1, q)
<1>1. Released(m, m1, p) /\ Solvent(m1)
    <2>1. Released(m, m1, p)
        BY DestroyedReleased
    <2>. QED
        BY <2>1, BalancedSolvent DEF Released
<1>. HIDE DEF m1
<1>2. \A x \in Pixmaps : m.pix[x].refs \in Nat
    BY PixmapRefs
<1>3. q # NoPix => m1.pix[q].refs >= 1
    BY <1>1, <1>2 DEF Released, One
<1>4. Released(m1, n, q)
    BY <1>1, <1>3, DestroyedReleased
<1>. HIDE DEF n
<1>5. Balanced(m, n)
    BY <1>1, <1>4 DEF Released, Balanced
<1>6. ASSUME NEW x \in Pixmaps
      PROVE  /\ n.pix[x].refs = m.pix[x].refs - One(x = p) - One(x = q)
             /\ x # p /\ x # q /\ m.pix[x].refs > 0 => n.pix[x].bo = m.pix[x].bo
    BY <1>1, <1>2, <1>4 DEF Released, One
<1>. QED
    BY <1>5, <1>6 DEF n, m1

\* The two pixmaps of a flip live until it is complete, if they are one twice.
LEMMA FlipHeld ==
    ASSUME IInv, NEW w \in Windows, cmd[w] # NoCmd
    PROVE  /\ cmd[w].src \in Pixmaps /\ mem.pix[cmd[w].src].refs >= 1
           /\ cmd[w].dst \in Pixmaps /\ mem.pix[cmd[w].dst].refs >= 1
           /\ mem.pix[cmd[w].dst].refs >= 1 + One(cmd[w].dst = cmd[w].src)
           /\ buf[w].name = NoBo
<1>. DEFINE p == cmd[w].src
            q == cmd[w].dst
<1>1. /\ p \in Pixmaps /\ mem.pix[p].refs >= 1 /\ q \in Pixmaps /\ mem.pix[q].refs >= 1
      /\ buf[w].name = NoBo
    <2>1. p # NoPix /\ q # NoPix /\ buf[w].name = NoBo
        BY DEF IInv, Pairs
    <2>. QED
        BY <2>1, InUse
<1>2. mem.pix[q].refs >= 1 + One(q = p)
    <2>1. Srcs(q) >= One(p = q) /\ Dsts(q) >= One(q = q)
        BY CountsAtLeast
    <2>2. /\ One(q \in plain) \in Nat /\ One(q = Root) \in Nat /\ One(q = p) = One(p = q)
          /\ Owners(q) \in Nat /\ Fronts(q) \in Nat /\ Backs(q) \in Nat
          /\ Srcs(q) \in Nat /\ Dsts(q) \in Nat /\ One(q = q) = 1
        BY CountsAtLeast DEF One
    <2>3. One(q = p) \in Nat
        BY DEF One
    <2>4. Holders(q) >= 1 + One(q = p) /\ Holders(q) \in Nat
        BY <2>1, <2>2, <2>3 DEF Holders
    <2>5. mem.pix[q].refs >= Holders(q)
        BY <1>1, <2>4, InUse DEF IInv, PixmapsCounted, Surplus
    <2>. QED
        BY <1>1, <2>3, <2>4, <2>5, InUse
<1>. QED
    BY <1>1, <1>2

LEMMA SwapCompleteStep ==
    ASSUME IInv, NEW w \in Windows, SwapComplete(w)
    PROVE  IInv'
<1>. DEFINE p == cmd[w].src
            q == cmd[w].dst
            x == Exchanged(mem, p, q)
            m == IF win[w].alive THEN ScanoutSet(x, x.pix[q].bo) ELSE mem
<1>1. /\ mem' = Destroyed(Destroyed(m, p), q) /\ cmd' = [cmd EXCEPT ![w] = NoCmd]
      /\ UNCHANGED <<plain, win, buf, call, has_resized, crashed>> /\ cmd[w] # NoCmd
    BY DEF SwapComplete
<1>2. /\ p \in Pixmaps /\ mem.pix[p].refs >= 1 /\ q \in Pixmaps /\ mem.pix[q].refs >= 1
      /\ buf[w].name = NoBo
    BY <1>1, FlipHeld
<1>3. mem.pix[q].refs >= 1 + One(q = p)
    BY <1>1, FlipHeld
<1>4. /\ Balanced(mem, m) /\ Solvent(m)
      /\ \A y \in Pixmaps : m.pix[y].refs = mem.pix[y].refs
      /\ \A y \in Pixmaps \ {p, q} : m.pix[y] = mem.pix[y]
    <2>1. CASE ~win[w].alive
        BY <2>1, IInvSolvent DEF Balanced, Solvent
    <2>2. CASE win[w].alive
        <3>1. /\ Balanced(mem, x) /\ \A y \in Pixmaps : x.pix[y].refs = mem.pix[y].refs
              /\ \A y \in Pixmaps \ {p, q} : x.pix[y] = mem.pix[y]
            BY <1>2, IInvSolvent, ExchangedBalanced
        <3>. HIDE DEF x
        <3>2. Solvent(x)
            BY <3>1, IInvSolvent, BalancedSolvent
        <3>3. Balanced(x, ScanoutSet(x, x.pix[q].bo)) /\ ScanoutSet(x, x.pix[q].bo).pix = x.pix
            BY <1>2, <3>2, PixmapRefs, ScanoutSetBalanced
        <3>4. m = ScanoutSet(x, x.pix[q].bo)
            BY <2>2
        <3>. HIDE DEF m
        <3>5. Balanced(mem, m)
            BY <3>1, <3>3, <3>4 DEF Balanced
        <3>. QED
            BY <3>1, <3>3, <3>4, <3>5, IInvSolvent, BalancedSolvent
    <2>. QED
        BY <2>1, <2>2
<1>. HIDE DEF m
<1>5. /\ Balanced(m, mem')
      /\ \A y \in Pixmaps : /\ mem'.pix[y].refs = m.pix[y].refs - One(y = p) - One(y = q)
                            /\ y # p /\ y # q /\ m.pix[y].refs > 0 => mem'.pix[y].bo = m.pix[y].bo
    BY <1>1, <1>2, <1>3, <1>4, ReleasedTwice
<1>6. Sound(mem)' /\ BosCounted' /\ mem' \in Memory
    <2>1. Balanced(mem, mem')
        BY <1>4, <1>5 DEF Balanced
    <2>. QED
        BY <1>1, <2>1, StillBalanced
<1>7. cmd \in [Windows -> CmdType] /\ NoCmd \in CmdType
    BY DEF IInv, TypeOK, NoCmd, CmdType
<1>8. /\ cmd' \in [Windows -> CmdType] /\ cmd'[w] = NoCmd
      /\ \A v \in Windows \ {w} : cmd'[v] = cmd[v]
    BY <1>1, <1>7
<1>9. ASSUME NEW y \in Pixmaps
      PROVE  Surplus(y)' = Surplus(y)
    <2>1. Srcs(y)' = Srcs(y) - One(p = y) /\ Dsts(y)' = Dsts(y) - One(q = y)
        <3>1. cmd'[w].src # y /\ cmd'[w].dst # y
            BY <1>8, NoPixOutside DEF NoCmd
        <3>. QED
            BY <1>8, <3>1, CommandsChange, CountsAtLeast DEF One
    <2>2. /\ Owners(y)' = Owners(y) /\ Fronts(y)' = Fronts(y) /\ Backs(y)' = Backs(y)
          /\ One(y \in plain)' = One(y \in plain)
        BY <1>1 DEF Owners, OwnPixmap, Fronts, Backs
    <2>3. /\ One(y \in plain) \in Nat /\ One(y = Root) \in Nat /\ One(y = p) \in Nat
          /\ One(y = q) \in Nat /\ Owners(y) \in Nat /\ Fronts(y) \in Nat /\ Backs(y) \in Nat
          /\ Srcs(y) \in Nat /\ Dsts(y) \in Nat
          /\ One(y = p) = One(p = y) /\ One(y = q) = One(q = y)
        BY CountsAtLeast DEF One
    <2>4. mem'.pix[y].refs = mem.pix[y].refs - One(y = p) - One(y = q) /\ mem.pix[y].refs \in Nat
        BY <1>4, <1>5, InUse
    <2>. QED
        BY <2>1, <2>2, <2>3, <2>4 DEF Surplus, Holders
<1>10. PixmapsCounted'
    BY <1>1, <1>9, StillCounted DEF IInv
<1>11. BacksApart'
    BY <1>1, <1>8, NoPixOutside DEF IInv, BacksApart, NoCmd
<1>12. Pairs'
    BY <1>1, <1>8 DEF IInv, Pairs
<1>13. Named'
    <2>1. ASSUME NEW v \in Windows, buf[v].name # NoBo
          PROVE  mem'.pix[buf[v].back].bo = mem.pix[buf[v].back].bo
        <3>1. v # w /\ buf[v].back # NoPix
            BY <1>2, <2>1 DEF IInv, Pairs
        <3>2. buf[v].back # p /\ buf[v].back # q
            BY <3>1 DEF IInv, BacksApart
        <3>3. buf[v].back \in Pixmaps /\ mem.pix[buf[v].back].refs >= 1
            BY <3>1, InUse
        <3>. QED
            BY <1>4, <1>5, <3>2, <3>3, InUse
    <2>. QED
        BY <1>1, <2>1 DEF IInv, Named
<1>14. TypeOK'
    BY <1>1, <1>6, <1>8 DEF IInv, TypeOK
<1>. QED
    BY <1>6, <1>10, <1>11, <1>12, <1>13, <1>14 DEF IInv

\* A window gets pixmap p, or that of the screen, and gives up its own.
LEMMA OwnedStep ==
    ASSUME IInv, NEW w \in Windows, NEW p \in Pixmaps, Balanced(mem, mem'),
           UNCHANGED <<plain, buf, cmd, call, has_resized, crashed>>,
           win' \in [Windows -> WinType], win'[w].pix = p,
           \A v \in Windows \ {w} : win'[v] = win[v],
           \A x \in Pixmaps : mem'.pix[x].refs = mem.pix[x].refs + One(x = p /\ p # Root)
                                                 - One(x = OwnPixmap(w)),
           \A v \in Windows : buf[v].back # NoPix =>
               buf[v].back # p /\ mem'.pix[buf[v].back].bo = mem.pix[buf[v].back].bo
    PROVE  IInv'
<1>1. Sound(mem)' /\ BosCounted' /\ mem' \in Memory
    BY StillBalanced
<1>2. ASSUME NEW x \in Pixmaps
      PROVE  Surplus(x)' = Surplus(x)
    <2>1. Owners(x)' = Owners(x) - One(OwnPixmap(w) = x) + One(OwnPixmap(w)' = x)
        BY OwnersChange
    <2>2. One(OwnPixmap(w)' = x) = One(x = p /\ p # Root)
        BY NoPixOutside DEF OwnPixmap, One
    <2>3. /\ Fronts(x)' = Fronts(x) /\ Backs(x)' = Backs(x) /\ Srcs(x)' = Srcs(x)
          /\ Dsts(x)' = Dsts(x) /\ One(x \in plain)' = One(x \in plain)
        BY DEF Fronts, Backs, Srcs, Dsts
    <2>4. /\ One(x \in plain) \in Nat /\ One(x = Root) \in Nat /\ One(x = p /\ p # Root) \in Nat
          /\ One(OwnPixmap(w) = x) \in Nat /\ One(OwnPixmap(w) = x) = One(x = OwnPixmap(w))
          /\ Owners(x) \in Nat /\ Fronts(x) \in Nat /\ Backs(x) \in Nat
          /\ Srcs(x) \in Nat /\ Dsts(x) \in Nat
        BY CountsAtLeast DEF One
    <2>5. mem.pix[x].refs \in Nat
        BY InUse
    <2>. QED
        BY <2>1, <2>2, <2>3, <2>4, <2>5 DEF Surplus, Holders
<1>3. PixmapsCounted'
    BY <1>2, StillCounted DEF IInv
<1>4. BacksApart'
    BY DEF IInv, BacksApart
<1>5. Pairs' /\ Named'
    BY DEF IInv, Pairs, Named
<1>6. TypeOK'
    BY <1>1 DEF IInv, TypeOK
<1>. QED
    BY <1>1, <1>3, <1>4, <1>5, <1>6 DEF IInv

LEMMA OwnInUse ==
    ASSUME IInv, NEW w \in Windows
    PROVE  /\ OwnPixmap(w) \in Pixmaps \cup {NoPix}
           /\ OwnPixmap(w) # NoPix => mem.pix[OwnPixmap(w)].refs >= 1
           /\ \A v \in Windows : buf[v].back # NoPix => buf[v].back # OwnPixmap(w)
    BY InUse, BacksElsewhere DEF OwnPixmap

LEMMA RedirectStep ==
    ASSUME IInv, NEW w \in Windows, Redirect(w)
    PROVE  IInv'
<1>. DEFINE o == OwnPixmap(w)
<1>1. UNCHANGED <<plain, buf, cmd, call, has_resized, crashed>> /\ win \in [Windows -> WinType]
    BY DEF Redirect, IInv, TypeOK
<1>2. /\ o \in Pixmaps \cup {NoPix} /\ (o # NoPix => mem.pix[o].refs >= 1)
      /\ \A v \in Windows : buf[v].back # NoPix =>
             buf[v].back # o /\ buf[v].back \in Pixmaps /\ mem.pix[buf[v].back].refs >= 1
    BY OwnInUse, InUse
<1>3. \A x \in Pixmaps : mem.pix[x].refs \in Nat
    BY InUse
<1>4. ASSUME NEW p \in Unused(mem), NEW s \in Sizes, NEW m \in Created(mem, p, s),
             mem' = Destroyed(m, o),
             win' = [win EXCEPT ![w] = [@ EXCEPT !.size = s, !.pix = p, !.stale = TRUE]]
      PROVE  IInv'
    <2>1. p \in Pixmaps /\ mem.pix[p].refs = 0
        BY <1>4 DEF Unused, First
    <2>2. p # Root /\ \A v \in Windows : buf[v].back # NoPix => buf[v].back # p
        BY <1>2, <2>1, InUse
    <2>3. Balanced(mem, m) /\ Only(mem, m, p) /\ m.pix[p].refs = 1
        BY <1>4, <2>1, IInvSolvent, CreatedOnly
    <2>4. Solvent(m) /\ (o # NoPix => m.pix[o].refs >= 1)
        BY <1>2, <2>1, <2>3, IInvSolvent, BalancedSolvent DEF Only
    <2>. HIDE DEF o
    <2>5. Released(m, mem', o)
        BY <1>2, <1>4, <2>4, DestroyedReleased
    <2>6. Balanced(mem, mem')
        BY <2>3, <2>5 DEF Released, Balanced
    <2>7. ASSUME NEW x \in Pixmaps
          PROVE  /\ m.pix[x].refs = mem.pix[x].refs + One(x = p)
                 /\ mem'.pix[x].refs = m.pix[x].refs - One(x = o)
                 /\ One(x = p) = One(x = p /\ p # Root)
                 /\ One(x = p) \in Nat /\ One(x = o) \in Nat
        BY <1>3, <2>1, <2>2, <2>3, <2>5 DEF Only, One, Released
    <2>8. ASSUME NEW x \in Pixmaps
          PROVE  mem'.pix[x].refs = mem.pix[x].refs + One(x = p /\ p # Root) - One(x = o)
        BY <1>3, <2>7
    <2>9. ASSUME NEW v \in Windows, buf[v].back # NoPix
          PROVE  mem'.pix[buf[v].back].bo = mem.pix[buf[v].back].bo
        <3>. DEFINE y == buf[v].back
        <3>1. y # p /\ y # o /\ y \in Pixmaps /\ mem.pix[y].refs >= 1
            BY <1>2, <2>2, <2>9
        <3>. HIDE DEF y
        <3>2. m.pix[y] = mem.pix[y] /\ mem'.pix[y].refs = mem.pix[y].refs
            BY <1>3, <2>3, <2>5, <3>1 DEF Only, Released, One
        <3>3. mem'.pix[y].bo = m.pix[y].bo
            BY <1>3, <2>5, <3>1, <3>2 DEF Released
        <3>. QED
            BY <3>2, <3>3 DEF y
    <2>10. /\ win' \in [Windows -> WinType] /\ win'[w].pix = p
           /\ \A v \in Windows \ {w} : win'[v] = win[v]
        BY <1>1, <1>4, <2>1 DEF WinType
    <2>. QED
        BY <1>1, <2>1, <2>2, <2>6, <2>8, <2>9, <2>10, OwnedStep DEF o
<1>5. ASSUME win[w].pix # Root, mem' = Destroyed(mem, win[w].pix),
             win' = [win EXCEPT ![w] = [@ EXCEPT !.pix = Root, !.stale = TRUE]]
      PROVE  IInv'
    <2>1. o = win[w].pix
        BY <1>5 DEF OwnPixmap
    <2>2. Root \in Pixmaps
        BY NoPixOutside
    <2>. HIDE DEF o
    <2>3. Released(mem, mem', o)
        BY <1>2, <1>5, <2>1, IInvSolvent, DestroyedReleased
    <2>4. Balanced(mem, mem')
        BY <2>3 DEF Released
    <2>5. ASSUME NEW x \in Pixmaps
          PROVE  mem'.pix[x].refs = mem.pix[x].refs + One(x = Root /\ Root # Root) - One(x = o)
        <3>1. /\ mem'.pix[x].refs = mem.pix[x].refs - One(x = o)
              /\ One(x = Root /\ Root # Root) = 0 /\ One(x = o) \in Nat
            BY <2>3 DEF Released, One
        <3>. QED
            BY <1>3, <3>1
    <2>6. ASSUME NEW v \in Windows, buf[v].back # NoPix
          PROVE  buf[v].back # Root /\ mem'.pix[buf[v].back].bo = mem.pix[buf[v].back].bo
        <3>. DEFINE y == buf[v].back
        <3>1. y # o /\ y \in Pixmaps /\ mem.pix[y].refs >= 1 /\ y # Root
            BY <1>2, <2>6, BacksElsewhere
        <3>. HIDE DEF y
        <3>2. mem'.pix[y].refs = mem.pix[y].refs
            BY <1>3, <2>3, <3>1 DEF Released, One
        <3>3. mem'.pix[y].bo = mem.pix[y].bo
            BY <1>3, <2>3, <3>1, <3>2 DEF Released
        <3>. QED
            BY <3>1, <3>3 DEF y
    <2>7. /\ win' \in [Windows -> WinType] /\ win'[w].pix = Root
          /\ \A v \in Windows \ {w} : win'[v] = win[v]
        BY <1>1, <1>5, <2>2 DEF WinType
    <2>. QED
        BY <1>1, <2>2, <2>4, <2>5, <2>6, <2>7, OwnedStep DEF o
<1>. QED
    BY <1>4, <1>5 DEF Redirect, o

\* A window's own pixmap may be its front buffer's, but is held by both.
LEMMA OwnHeldBesides ==
    ASSUME IInv, NEW w \in Windows, OwnPixmap(w) # NoPix
    PROVE  mem.pix[OwnPixmap(w)].refs >= 1 + One(OwnPixmap(w) = buf[w].front)
<1>. DEFINE o == OwnPixmap(w)
<1>1. o \in Pixmaps
    BY OwnInUse
<1>. HIDE DEF o
<1>2. Owners(o) >= One(OwnPixmap(w) = o) /\ Fronts(o) >= One(buf[w].front = o)
    BY CountsAtLeast
<1>3. /\ One(OwnPixmap(w) = o) = 1 /\ One(buf[w].front = o) = One(o = buf[w].front)
      /\ One(o = buf[w].front) \in Nat /\ One(o = Root) \in Nat /\ One(o \in plain) \in Nat
      /\ Owners(o) \in Nat /\ Fronts(o) \in Nat /\ Backs(o) \in Nat
      /\ Srcs(o) \in Nat /\ Dsts(o) \in Nat
    BY CountsAtLeast DEF One, o
<1>4. Holders(o) >= 1 + One(o = buf[w].front) /\ Holders(o) \in Nat
    BY <1>2, <1>3 DEF Holders
<1>5. mem.pix[o].refs >= Holders(o)
    BY <1>1, <1>4, InUse DEF IInv, PixmapsCounted, Surplus
<1>6. mem.pix[o].refs >= 1 + One(o = buf[w].front)
    BY <1>1, <1>3, <1>4, <1>5, InUse
<1>. QED
    BY <1>6 DEF o

\* Both buffers of a window go.
LEMMA BuffersReleased ==
    ASSUME IInv, NEW w \in Windows, NEW m, Solvent(m),
           \A x \in Pixmaps : m.pix[x].refs >= mem.pix[x].refs
    PROVE  /\ Balanced(m, BuffersDestroyed(m, w))
           /\ \A x \in Pixmaps :
                /\ BuffersDestroyed(m, w).pix[x].refs
                      = m.pix[x].refs - One(x = buf[w].front) - One(x = buf[w].back)
                /\ x # buf[w].front /\ x # buf[w].back /\ m.pix[x].refs > 0
                      => BuffersDestroyed(m, w).pix[x].bo = m.pix[x].bo
<1>. DEFINE f == buf[w].front
            b == buf[w].back
<1>1. f \in Pixmaps \cup {NoPix} /\ b \in Pixmaps \cup {NoPix}
    BY DEF IInv, TypeOK, BufType
<1>2. /\ f # NoPix => mem.pix[f].refs >= 1
      /\ b # NoPix => mem.pix[b].refs >= 1 /\ b # f
      /\ \A x \in Pixmaps : mem.pix[x].refs \in Nat
    BY InUse, BacksElsewhere
<1>3. \A x \in Pixmaps : m.pix[x].refs \in Nat
    BY PixmapRefs
<1>. HIDE DEF f, b
<1>4. /\ f # NoPix => m.pix[f].refs >= 1
      /\ b # NoPix => m.pix[b].refs >= 1 + One(b = f)
    BY <1>1, <1>2, <1>3 DEF One
<1>5. BuffersDestroyed(m, w) = Destroyed(Destroyed(m, f), b)
    BY DEF BuffersDestroyed, f, b
<1>6. LET n == Destroyed(Destroyed(m, f), b)
      IN  /\ Balanced(m, n)
          /\ \A x \in Pixmaps : /\ n.pix[x].refs = m.pix[x].refs - One(x = f) - One(x = b)
                                /\ x # f /\ x # b /\ m.pix[x].refs > 0
                                       => n.pix[x].bo = m.pix[x].bo
    BY <1>1, <1>4, ReleasedTwice
<1>. QED
    BY <1>5, <1>6 DEF f, b

LEMMA DestroyWindowStep ==
    ASSUME IInv, NEW w \in Windows, DestroyWindow(w)
    PROVE  IInv'
<1>. DEFINE n == BuffersDestroyed(mem, w)
            o == OwnPixmap(w)
            f == buf[w].front
            b == buf[w].back
<1>1. /\ mem' = Destroyed(n, o) /\ buf' = [buf EXCEPT ![w] = NoBuf]
      /\ win' = [win EXCEPT ![w] = [@ EXCEPT !.alive = FALSE, !.pix = Root]]
      /\ UNCHANGED <<plain, cmd, call, has_resized, crashed>> /\ call = Idle
    BY DEF DestroyWindow, Serving
<1>2. /\ o \in Pixmaps \cup {NoPix} /\ (o # NoPix => mem.pix[o].refs >= 1 + One(o = f) /\ o # b)
      /\ \A x \in Pixmaps : mem.pix[x].refs \in Nat
    BY OwnInUse, OwnHeldBesides, InUse
<1>3. /\ Balanced(mem, n) /\ Solvent(n)
      /\ \A x \in Pixmaps : /\ n.pix[x].refs = mem.pix[x].refs - One(x = f) - One(x = b)
                            /\ x # f /\ x # b /\ mem.pix[x].refs > 0
                                   => n.pix[x].bo = mem.pix[x].bo
    <2>1. \A x \in Pixmaps : mem.pix[x].refs >= mem.pix[x].refs
        BY <1>2
    <2>2. /\ Balanced(mem, n)
          /\ \A x \in Pixmaps : /\ n.pix[x].refs = mem.pix[x].refs - One(x = f) - One(x = b)
                                /\ x # f /\ x # b /\ mem.pix[x].refs > 0
                                       => n.pix[x].bo = mem.pix[x].bo
        BY <2>1, IInvSolvent, BuffersReleased
    <2>. HIDE DEF n
    <2>. QED
        BY <2>2, IInvSolvent, BalancedSolvent
<1>. HIDE DEF n, o
<1>4. o # NoPix => n.pix[o].refs >= 1
    <2>1. ASSUME o # NoPix
          PROVE  n.pix[o].refs >= 1
        <3>1. One(o = b) = 0 /\ One(o = f) \in Nat /\ o \in Pixmaps
            BY <1>2, <2>1 DEF One
        <3>. QED
            BY <1>2, <1>3, <2>1, <3>1
    <2>. QED
        BY <2>1
<1>5. Released(n, mem', o)
    BY <1>1, <1>2, <1>3, <1>4, DestroyedReleased
<1>6. Sound(mem)' /\ BosCounted' /\ mem' \in Memory
    <2>1. Balanced(mem, mem')
        BY <1>3, <1>5 DEF Released, Balanced
    <2>. QED
        BY <1>1, <2>1, StillBalanced
<1>7. buf \in [Windows -> BufType] /\ win \in [Windows -> WinType]
    BY DEF IInv, TypeOK
<1>8. /\ buf' \in [Windows -> BufType] /\ buf'[w] = NoBuf
      /\ \A v \in Windows \ {w} : buf'[v] = buf[v]
    <2>1. NoBuf \in BufType
        BY DEF NoBuf, BufType
    <2>. QED
        BY <1>1, <1>7, <2>1
<1>9. /\ win' \in [Windows -> WinType] /\ win'[w].pix = Root
      /\ \A v \in Windows \ {w} : win'[v] = win[v]
    BY <1>1, <1>7, NoPixOutside DEF WinType
<1>10. ASSUME NEW x \in Pixmaps
       PROVE  Surplus(x)' = Surplus(x)
    <2>1. Owners(x)' = Owners(x) - One(x = o)
        <3>1. Owners(x)' = Owners(x) - One(OwnPixmap(w) = x) + One(OwnPixmap(w)' = x)
            BY <1>9, OwnersChange
        <3>2. /\ One(OwnPixmap(w)' = x) = 0 /\ One(OwnPixmap(w) = x) = One(x = o)
              /\ One(x = o) \in Nat
            BY <1>9, NoPixOutside DEF OwnPixmap, One, o
        <3>. QED
            BY <3>1, <3>2, CountsAtLeast
    <2>2. Fronts(x)' = Fronts(x) - One(x = f) /\ Backs(x)' = Backs(x) - One(x = b)
        <3>1. /\ Fronts(x)' = Fronts(x) - One(f = x) + One(buf'[w].front = x)
              /\ Backs(x)' = Backs(x) - One(b = x) + One(buf'[w].back = x)
            BY <1>8, BuffersChange
        <3>2. /\ One(buf'[w].front = x) = 0 /\ One(buf'[w].back = x) = 0
              /\ One(f = x) = One(x = f) /\ One(b = x) = One(x = b)
              /\ One(x = f) \in Nat /\ One(x = b) \in Nat
            BY <1>8, NoPixOutside DEF NoBuf, One
        <3>. QED
            BY <3>1, <3>2, CountsAtLeast
    <2>3. Srcs(x)' = Srcs(x) /\ Dsts(x)' = Dsts(x) /\ One(x \in plain)' = One(x \in plain)
        BY <1>1 DEF Srcs, Dsts
    <2>4. mem'.pix[x].refs = mem.pix[x].refs - One(x = f) - One(x = b) - One(x = o)
        BY <1>3, <1>5 DEF Released
    <2>5. /\ One(x \in plain) \in Nat /\ One(x = Root) \in Nat /\ One(x = o) \in Nat
          /\ One(x = f) \in Nat /\ One(x = b) \in Nat
          /\ Owners(x) \in Nat /\ Fronts(x) \in Nat /\ Backs(x) \in Nat
          /\ Srcs(x) \in Nat /\ Dsts(x) \in Nat
        BY CountsAtLeast DEF One
    <2>. QED
        BY <1>2, <2>1, <2>2, <2>3, <2>4, <2>5 DEF Surplus, Holders
<1>11. PixmapsCounted'
    BY <1>1, <1>10, StillCounted DEF IInv
<1>12. BacksApart'
    <2>1. \A v \in Windows : buf'[v].back # NoPix => v # w /\ buf'[v] = buf[v]
        BY <1>8 DEF NoBuf
    <2>2. \A v \in Windows : /\ win'[v].pix \in {win[v].pix, Root}
                             /\ buf'[v].front \in {buf[v].front, NoPix}
                             /\ buf'[v].back \in {buf[v].back, NoPix}
        BY <1>8, <1>9 DEF NoBuf
    <2>3. BacksApart
        BY DEF IInv
    <2>. QED
        BY <1>1, <2>1, <2>2, <2>3 DEF BacksApart
<1>13. Pairs'
    BY <1>1, <1>8 DEF IInv, Pairs, NoBuf
<1>14. Named'
    <2>1. ASSUME NEW v \in Windows, buf'[v].name # NoBo
          PROVE  buf'[v].name = mem'.pix[buf'[v].back].bo
        <3>. DEFINE y == buf[v].back
        <3>1. v # w /\ buf'[v] = buf[v]
            BY <1>8, <2>1 DEF NoBuf
        <3>2. buf[v].name # NoBo /\ y # NoPix /\ buf[v].name = mem.pix[y].bo
            BY <2>1, <3>1 DEF IInv, Pairs, Named
        <3>3. y # f /\ y # b /\ y # o
            BY <3>1, <3>2, OwnInUse DEF IInv, BacksApart, o
        <3>4. y \in Pixmaps /\ mem.pix[y].refs >= 1
            BY <3>2, InUse
        <3>. HIDE DEF y
        <3>5. n.pix[y].refs = mem.pix[y].refs /\ mem'.pix[y].refs = mem.pix[y].refs
            BY <1>2, <1>3, <1>5, <3>3, <3>4 DEF Released, One
        <3>6. mem'.pix[y].bo = mem.pix[y].bo
            BY <1>2, <1>3, <1>5, <3>3, <3>4, <3>5 DEF Released
        <3>. QED
            BY <3>1, <3>2, <3>6 DEF y
    <2>. QED
        BY <2>1 DEF Named
<1>15. TypeOK'
    BY <1>1, <1>6, <1>8, <1>9 DEF IInv, TypeOK
<1>. QED
    BY <1>6, <1>11, <1>12, <1>13, <1>14, <1>15 DEF IInv

\* Buffers are not made, and pixmaps may stay held for good.
LEMMA LostStep ==
    ASSUME IInv, Balanced(mem, mem'), UNCHANGED <<plain, win, buf, cmd, call, has_resized>>,
           call = Idle, crashed' \in BOOLEAN, crashed' \/ "get_name" \in Failing,
           \A x \in Pixmaps : mem'.pix[x].refs >= mem.pix[x].refs /\ mem'.pix[x].refs \in Nat,
           \A v \in Windows : buf[v].back # NoPix =>
               mem'.pix[buf[v].back].bo = mem.pix[buf[v].back].bo
    PROVE  IInv'
<1>1. Sound(mem)' /\ BosCounted' /\ mem' \in Memory
    BY StillBalanced
<1>2. PixmapsCounted'
    <2>1. ASSUME NEW x \in Pixmaps
          PROVE  Surplus(x)' >= 0
        <3>1. Holders(x)' = Holders(x)
            BY DEF Holders, Owners, OwnPixmap, Fronts, Backs, Srcs, Dsts
        <3>2. Holders(x) \in Nat
            BY CountsAtLeast DEF Holders, One
        <3>3. mem.pix[x].refs - Holders(x) >= 0
            BY DEF IInv, PixmapsCounted, Surplus
        <3>4. mem'.pix[x].refs - Holders(x)' >= 0
            BY <3>1, <3>2, <3>3, InUse
        <3>. QED
            BY <3>4 DEF Surplus
    <2>. QED
        BY <2>1 DEF PixmapsCounted
<1>3. BacksApart' /\ Pairs' /\ Named'
    BY DEF IInv, BacksApart, Pairs, Named
<1>4. TypeOK'
    BY <1>1 DEF IInv, TypeOK
<1>. QED
    BY <1>1, <1>2, <1>3, <1>4 DEF IInv

\* What CreateBuffers may come to.
LEMMA RequestedCases ==
    ASSUME NEW w, NEW f, NEW b, NEW r \in Requested(w, f, b)
    PROVE  LET Kept(m, c) == r = [mem |-> m, buf |-> buf[w], stale |-> win[w].stale, crashed |-> c]
           IN  \E m \in Created(Held(mem, f), b, win[w].size) :
                 \/ Kept(m, TRUE)
                 \/ "get_name" \in Failing /\ (Kept(Held(mem, f), FALSE) \/ Kept(Destroyed(m, f), FALSE))
                 \/ /\ r = [mem |-> BuffersDestroyed(m, w), stale |-> FALSE, crashed |-> FALSE,
                            buf |-> [front |-> f, back |-> b, name |-> m.pix[b].bo]]
                    /\ m.pix[b].bo # NoBo
<1>. DEFINE h == Held(mem, f)
            failed(m, c) == [mem |-> m, buf |-> buf[w], stale |-> win[w].stale, crashed |-> c]
            done(m) == [mem |-> BuffersDestroyed(m, w), stale |-> FALSE, crashed |-> FALSE,
                        buf |-> [front |-> f, back |-> b, name |-> m.pix[b].bo]]
            made(m) ==
                IF NoBo \in {m.pix[f].bo, m.pix[b].bo} THEN {failed(m, TRUE)}
                ELSE {done(m)} \cup IF "get_name" \in Failing
                                    THEN {failed(h, FALSE), failed(Destroyed(m, f), FALSE)}
                                    ELSE {}
<1>1. Requested(w, f, b) = UNION {made(m) : m \in Created(h, b, win[w].size)}
    BY DEF Requested
<1>. HIDE DEF h, made
<1>2. PICK m \in Created(h, b, win[w].size) : r \in made(m)
    BY <1>1
<1>3. \/ r = failed(m, TRUE)
      \/ "get_name" \in Failing /\ r \in {failed(h, FALSE), failed(Destroyed(m, f), FALSE)}
      \/ r = done(m) /\ m.pix[b].bo # NoBo
    <2>. HIDE DEF failed, done
    <2>. QED
        BY <1>2 DEF made
<1>. QED
    BY <1>3 DEF h

LEMMA CreateBuffersStep ==
    ASSUME IInv, NEW w \in Windows, CreateBuffers(w)
    PROVE  IInv'
<1>. DEFINE f == win[w].pix
            h == Held(mem, f)
<1>1. PICK b \in Unused(mem) : \E r \in Requested(w, f, b) :
         /\ mem' = r.mem
         /\ buf' = [buf EXCEPT ![w] = r.buf]
         /\ win' = [win EXCEPT ![w].stale = r.stale]
         /\ crashed' = r.crashed
    BY DEF CreateBuffers
<1>2. PICK r \in Requested(w, f, b) :
         /\ mem' = r.mem
         /\ buf' = [buf EXCEPT ![w] = r.buf]
         /\ win' = [win EXCEPT ![w].stale = r.stale]
         /\ crashed' = r.crashed
    BY <1>1
<1>3. UNCHANGED <<plain, cmd, call, has_resized>> /\ call = Idle /\ cmd[w] = NoCmd /\ ~crashed
    BY DEF CreateBuffers, MayAsk, Serving
<1>. DEFINE Kept(m, c) == r = [mem |-> m, buf |-> buf[w], stale |-> win[w].stale, crashed |-> c]
<1>4. PICK m \in Created(h, b, win[w].size) :
         \/ Kept(m, TRUE)
         \/ "get_name" \in Failing /\ (Kept(h, FALSE) \/ Kept(Destroyed(m, f), FALSE))
         \/ /\ r = [mem |-> BuffersDestroyed(m, w), stale |-> FALSE, crashed |-> FALSE,
                    buf |-> [front |-> f, back |-> b, name |-> m.pix[b].bo]]
            /\ m.pix[b].bo # NoBo
    BY <1>2, RequestedCases
<1>5. /\ b \in Pixmaps /\ mem.pix[b].refs = 0 /\ f \in Pixmaps /\ mem.pix[f].refs >= 1
      /\ win[w].size \in Sizes /\ \A x \in Pixmaps : mem.pix[x].refs \in Nat
    BY InUse DEF Unused, First, IInv, TypeOK, WinType
<1>6. /\ Balanced(mem, h) /\ Only(mem, h, f) /\ h.pix[f].refs = mem.pix[f].refs + 1
      /\ h.pix[f].bo = mem.pix[f].bo /\ Solvent(h)
    <2>1. /\ Balanced(mem, h) /\ Only(mem, h, f) /\ h.pix[f].refs = mem.pix[f].refs + 1
          /\ h.pix[f].bo = mem.pix[f].bo
        BY <1>5, IInvSolvent, HeldOnly
    <2>. HIDE DEF h
    <2>. QED
        BY <2>1, IInvSolvent, BalancedSolvent
<1>7. b # f /\ h.pix[b].refs = 0
    BY <1>5, <1>6 DEF Only
<1>. HIDE DEF h
<1>8. Balanced(h, m) /\ Only(h, m, b) /\ m.pix[b].refs = 1
    BY <1>4, <1>5, <1>6, <1>7, CreatedOnly
<1>9. Balanced(mem, m) /\ Solvent(m)
    BY <1>6, <1>8, IInvSolvent, BalancedSolvent DEF Balanced
<1>10. \A x \in Pixmaps : /\ m.pix[x].refs = mem.pix[x].refs + One(x = f) + One(x = b)
                          /\ x # b => m.pix[x].bo = mem.pix[x].bo
                          /\ One(x = f) \in Nat /\ One(x = b) \in Nat
    BY <1>5, <1>6, <1>7, <1>8 DEF Only, One
<1>11. ASSUME NEW v \in Windows, buf[v].back # NoPix
       PROVE  /\ buf[v].back \in Pixmaps /\ mem.pix[buf[v].back].refs >= 1
              /\ buf[v].back # b /\ buf[v].back # f
    BY <1>5, <1>11, InUse, BacksElsewhere
<1>12. buf \in [Windows -> BufType] /\ win \in [Windows -> WinType]
    BY DEF IInv, TypeOK
<1>13. ASSUME NEW n, NEW c \in BOOLEAN, Kept(n, c), Balanced(mem, n),
              c \/ "get_name" \in Failing,
              \A x \in Pixmaps : /\ n.pix[x].refs >= mem.pix[x].refs
                                 /\ x # f /\ x # b /\ mem.pix[x].refs >= 1
                                        => n.pix[x].bo = mem.pix[x].bo
       PROVE  IInv'
    <2>1. mem' = n /\ buf' = buf /\ win' = win /\ crashed' = c
        BY <1>2, <1>12, <1>13 DEF WinType
    <2>2. ASSUME NEW x \in Pixmaps
          PROVE  mem'.pix[x].refs >= mem.pix[x].refs /\ mem'.pix[x].refs \in Nat
        <3>1. Solvent(n)
            BY <1>13, IInvSolvent, BalancedSolvent
        <3>2. n.pix[x].refs \in Nat
            BY <3>1, PixmapRefs
        <3>. QED
            BY <1>13, <2>1, <3>2
    <2>3. ASSUME NEW v \in Windows, buf[v].back # NoPix
          PROVE  mem'.pix[buf[v].back].bo = mem.pix[buf[v].back].bo
        <3>. DEFINE y == buf[v].back
        <3>1. y \in Pixmaps /\ mem.pix[y].refs >= 1 /\ y # b /\ y # f
            BY <1>11, <2>3
        <3>. HIDE DEF y
        <3>2. n.pix[y].bo = mem.pix[y].bo
            BY <1>13, <3>1
        <3>. QED
            BY <2>1, <3>2 DEF y
    <2>. QED
        BY <1>3, <1>13, <2>1, <2>2, <2>3, LostStep
<1>14. CASE Kept(m, TRUE)
    <2>1. \A x \in Pixmaps : m.pix[x].refs >= mem.pix[x].refs
        BY <1>5, <1>10
    <2>. HIDE DEF Kept
    <2>. QED
        BY <1>9, <1>10, <1>13, <1>14, <2>1
<1>15. CASE "get_name" \in Failing /\ Kept(h, FALSE)
    <2>1. \A x \in Pixmaps : /\ h.pix[x].refs >= mem.pix[x].refs
                             /\ x # f => h.pix[x].bo = mem.pix[x].bo
        BY <1>5, <1>6 DEF Only
    <2>. HIDE DEF Kept
    <2>. QED
        BY <1>6, <1>13, <1>15, <2>1
<1>16. CASE "get_name" \in Failing /\ Kept(Destroyed(m, f), FALSE)
    <2>1. m.pix[f].refs >= 1 /\ f \in Pixmaps \cup {NoPix}
        BY <1>5, <1>10
    <2>. DEFINE n == Destroyed(m, f)
    <2>2. Released(m, n, f)
        BY <1>9, <2>1, DestroyedReleased
    <2>3. n.pix[f].refs >= 1
        BY <1>5, <1>10, <2>2 DEF Released, One
    <2>. HIDE DEF n, Kept
    <2>4. Balanced(mem, n)
        BY <1>9, <2>2 DEF Released, Balanced
    <2>5. ASSUME NEW x \in Pixmaps
          PROVE  /\ n.pix[x].refs >= mem.pix[x].refs
                 /\ x # f /\ x # b /\ mem.pix[x].refs >= 1
                        => n.pix[x].bo = mem.pix[x].bo
        <3>1. n.pix[x].refs = m.pix[x].refs - One(x = f)
            BY <2>2 DEF Released
        <3>2. ASSUME x # f, mem.pix[x].refs >= 1
              PROVE  n.pix[x].bo = m.pix[x].bo
            <4>1. n.pix[x].refs > 0
                BY <1>5, <1>10, <3>1, <3>2 DEF One
            <4>. QED
                BY <2>2, <4>1 DEF Released
        <3>. QED
            BY <1>5, <1>10, <3>1, <3>2
    <2>. QED
        BY <1>13, <1>16, <2>4, <2>5 DEF n
<1>17. CASE /\ r = [mem |-> BuffersDestroyed(m, w), stale |-> FALSE, crashed |-> FALSE,
                    buf |-> [front |-> f, back |-> b, name |-> m.pix[b].bo]]
            /\ m.pix[b].bo # NoBo
    <2>. DEFINE of == buf[w].front
                ob == buf[w].back
                new == [front |-> f, back |-> b, name |-> m.pix[b].bo]
    <2>1. /\ mem' = BuffersDestroyed(m, w) /\ buf' = [buf EXCEPT ![w] = new]
          /\ win' = [win EXCEPT ![w].stale = FALSE] /\ crashed' = FALSE
        BY <1>2, <1>17
    <2>2. of \in Pixmaps \cup {NoPix} /\ ob \in Pixmaps \cup {NoPix} /\ of # b /\ ob # b
        BY <1>5, <1>12, InUse, NoPixOutside DEF BufType
    <2>3. m.pix[b].bo \in Bos
        BY <1>5, <1>9, <1>17, PixmapRefs
    <2>4. /\ buf' \in [Windows -> BufType] /\ buf'[w] = new
          /\ \A v \in Windows \ {w} : buf'[v] = buf[v]
        <3>1. new \in BufType
            BY <1>5, <2>3 DEF BufType
        <3>. HIDE DEF new
        <3>. QED
            BY <1>12, <2>1, <3>1
    <2>5. /\ win' \in [Windows -> WinType]
          /\ \A v \in Windows : win'[v].pix = win[v].pix
        BY <1>12, <2>1 DEF WinType
    <2>6. /\ Balanced(m, mem')
          /\ \A x \in Pixmaps : /\ mem'.pix[x].refs = m.pix[x].refs - One(x = of) - One(x = ob)
                                /\ x # of /\ x # ob /\ m.pix[x].refs > 0
                                       => mem'.pix[x].bo = m.pix[x].bo
        <3>1. \A x \in Pixmaps : m.pix[x].refs >= mem.pix[x].refs
            BY <1>5, <1>10
        <3>. QED
            BY <1>9, <2>1, <3>1, BuffersReleased
    <2>7. Sound(mem)' /\ BosCounted' /\ mem' \in Memory
        <3>1. Balanced(mem, mem')
            BY <1>9, <2>6 DEF Balanced
        <3>. QED
            BY <1>3, <3>1, StillBalanced
    <2>8. ASSUME NEW x \in Pixmaps
          PROVE  Surplus(x)' = Surplus(x)
        <3>1. /\ Fronts(x)' = Fronts(x) - One(x = of) + One(x = f)
              /\ Backs(x)' = Backs(x) - One(x = ob) + One(x = b)
            <4>1. /\ Fronts(x)' = Fronts(x) - One(of = x) + One(buf'[w].front = x)
                  /\ Backs(x)' = Backs(x) - One(ob = x) + One(buf'[w].back = x)
                BY <2>4, BuffersChange
            <4>2. /\ One(buf'[w].front = x) = One(x = f) /\ One(buf'[w].back = x) = One(x = b)
                  /\ One(of = x) = One(x = of) /\ One(ob = x) = One(x = ob)
                BY <2>4 DEF One
            <4>. QED
                BY <4>1, <4>2
        <3>2. /\ {v \in Windows : OwnPixmap(v)' = x} = {v \in Windows : OwnPixmap(v) = x}
              /\ Srcs(x)' = Srcs(x) /\ Dsts(x)' = Dsts(x) /\ One(x \in plain)' = One(x \in plain)
            BY <1>3, <2>5 DEF OwnPixmap, Srcs, Dsts
        <3>3. Owners(x)' = Owners(x)
            BY <3>2 DEF Owners
        <3>4. /\ mem'.pix[x].refs = mem.pix[x].refs + One(x = f) + One(x = b)
                                    - One(x = of) - One(x = ob)
              /\ mem.pix[x].refs \in Nat
            BY <1>5, <1>10, <2>6
        <3>5. /\ One(x \in plain) \in Nat /\ One(x = Root) \in Nat /\ One(x = f) \in Nat
              /\ One(x = b) \in Nat /\ One(x = of) \in Nat /\ One(x = ob) \in Nat
              /\ Owners(x) \in Nat /\ Fronts(x) \in Nat /\ Backs(x) \in Nat
              /\ Srcs(x) \in Nat /\ Dsts(x) \in Nat
            BY CountsAtLeast DEF One
        <3>. QED
            BY <3>1, <3>2, <3>3, <3>4, <3>5 DEF Surplus, Holders
    <2>9. PixmapsCounted'
        BY <1>3, <2>8, StillCounted DEF IInv
    <2>10. BacksApart'
        <3>1. \A v \in Windows : /\ win[v].pix # b /\ buf[v].front # b /\ buf[v].back # b
                                 /\ cmd[v].src # b /\ cmd[v].dst # b
            BY <1>5, InUse, NoPixOutside
        <3>2. b # Root /\ b \notin plain
            BY <1>5, InUse
        <3>3. BacksApart
            BY DEF IInv
        <3>4. buf'[w].front = f /\ buf'[w].back = b
            BY <2>4
        <3>5. ASSUME NEW u \in Windows, buf'[u].back # NoPix
              PROVE  /\ buf'[u].back # Root /\ buf'[u].back \notin plain'
                     /\ \A v \in Windows : /\ win'[v].pix # buf'[u].back
                                           /\ buf'[v].front # buf'[u].back
                                           /\ cmd'[v].dst # buf'[u].back
                                           /\ v # u => /\ buf'[v].back # buf'[u].back
                                                       /\ cmd'[v].src # buf'[u].back
            <4>1. CASE u = w
                BY <1>3, <1>7, <2>4, <2>5, <3>1, <3>2, <3>4, <4>1
            <4>2. CASE u # w
                <5>1. buf'[u] = buf[u] /\ buf[u].back # NoPix /\ buf[u].back # f
                    BY <1>11, <2>4, <3>5, <4>2
                <5>. QED
                    BY <1>3, <2>4, <2>5, <3>1, <3>3, <3>4, <4>2, <5>1 DEF BacksApart
            <4>. QED
                BY <4>1, <4>2
        <3>. QED
            BY <3>5 DEF BacksApart
    <2>11. Pairs'
        <3>1. new.front # NoPix
            BY <1>5, NoPixOutside
        <3>. QED
            BY <1>3, <1>5, <2>1, <2>4, <3>1, NoPixOutside DEF IInv, Pairs
    <2>12. Named'
        <3>1. mem'.pix[b].bo = m.pix[b].bo
            BY <1>5, <1>8, <2>2, <2>6
        <3>2. ASSUME NEW v \in Windows \ {w}, buf[v].name # NoBo
              PROVE  buf[v].name = mem'.pix[buf[v].back].bo
            <4>. DEFINE y == buf[v].back
            <4>1. y # NoPix /\ buf[v].name = mem.pix[y].bo
                BY <3>2 DEF IInv, Pairs, Named
            <4>2. y \in Pixmaps /\ mem.pix[y].refs >= 1 /\ y # b /\ y # f
                BY <1>11, <4>1
            <4>3. y # of /\ y # ob
                BY <4>1 DEF IInv, BacksApart
            <4>. HIDE DEF y
            <4>4. m.pix[y].bo = mem.pix[y].bo /\ m.pix[y].refs > 0
                BY <1>5, <1>10, <4>2
            <4>5. mem'.pix[y].bo = m.pix[y].bo
                BY <2>6, <4>2, <4>3, <4>4
            <4>. QED
                BY <4>1, <4>4, <4>5 DEF y
        <3>. QED
            BY <2>4, <3>1, <3>2 DEF Named
    <2>13. TypeOK'
        BY <1>3, <2>1, <2>4, <2>5, <2>7 DEF IInv, TypeOK
    <2>. QED
        BY <2>7, <2>9, <2>10, <2>11, <2>12, <2>13 DEF IInv
<1>. HIDE DEF Kept
<1>. QED
    BY <1>4, <1>14, <1>15, <1>16, <1>17

LEMMA NextIInv == IInv /\ [Next]_vars => IInv'
<1>. SUFFICES ASSUME IInv, [Next]_vars PROVE IInv'
    OBVIOUS
<1>1. CASE UNCHANGED vars
    <2>1. Sound(mem)' /\ BosCounted' /\ TypeOK'
        BY <1>1 DEF vars, IInv, BosCounted, TypeOK
    <2>2. PixmapsCounted' /\ BacksApart'
        BY <1>1, PlacesKept DEF vars, IInv
    <2>3. Pairs' /\ Named'
        BY <1>1 DEF vars, IInv, Pairs, Named
    <2>. QED
        BY <2>1, <2>2, <2>3 DEF IInv
<1>2. CASE CreatePixmap \/ ModifyPixmapHeader \/ DestroyPixmap \/ Resize \/ RootWrite
    BY <1>2, CreatePixmapStep, ModifyPixmapHeaderStep, DestroyPixmapStep, ResizeStep, RootWriteStep
<1>3. CASE SwapBlitReturn
    BY <1>3, SwapBlitReturnStep
<1>4. ASSUME NEW w \in Windows,
             \/ Redirect(w) \/ DestroyWindow(w) \/ CreateBuffers(w) \/ ReuseBuffers(w)
             \/ SwapNothing(w) \/ SwapFlip(w) \/ SwapFlipRefused(w) \/ SwapBlit(w)
             \/ SwapComplete(w)
      PROVE  IInv'
    BY <1>4, RedirectStep, DestroyWindowStep, CreateBuffersStep, ReuseBuffersStep,
       SwapNothingStep, SwapFlipStep, SwapFlipRefusedStep, SwapBlitStep, SwapCompleteStep
<1>. QED
    BY <1>1, <1>2, <1>3, <1>4 DEF Next

LEMMA IInvHolds == Spec => []IInv
<1>1. Init => IInv
    BY InitIInv
<1>2. IInv /\ [Next]_vars => IInv'
    BY NextIInv
<1>. QED
    BY <1>1, <1>2, PTL DEF Spec

-----------------------------------------------------------------------------
(* The sizes of bos: what else a pixmap's bo is, keeps its size when that  *)
(* pixmap gets another one.                                                *)

\* Pixmap q is as large as before and has a bo, if any, as large as before.
Same(m, n, q) ==
    /\ n.pix[q].bo = m.pix[q].bo /\ n.pix[q].size = m.pix[q].size
    /\ m.pix[q].bo # NoBo => n.size[m.pix[q].bo] = m.size[m.pix[q].bo]

\* So are all pixmaps but p, the root bo and the bo of the slot.
Apart(m, n, p) ==
    /\ n.scanout = m.scanout /\ n.size[m.scanout] = m.size[m.scanout]
    /\ n.slot = m.slot /\ n.size[m.slot] = m.size[m.slot]
    /\ \A q \in Pixmaps \ {p} : Same(m, n, q)

LEMMA SameTrans ==
    ASSUME NEW m, NEW n, NEW o, NEW q, Same(m, n, q), Same(n, o, q)
    PROVE  Same(m, o, q)
    BY DEF Same

LEMMA ApartTrans ==
    ASSUME NEW m, NEW n, NEW o, NEW p, Apart(m, n, p), Apart(n, o, p)
    PROVE  Apart(m, o, p)
    BY DEF Apart, Same

\* No bo changes its size.
LEMMA SizesApart ==
    ASSUME NEW m, NEW n, NEW p, Only(m, n, p), n.size = m.size, n.scanout = m.scanout,
           n.slot = m.slot
    PROVE  Apart(m, n, p)
    BY DEF Apart, Same, Only

\* Each user of a bo counts.
LEMMA UsersAtLeast ==
    ASSUME NEW m, NEW b, NEW p \in Pixmaps
    PROVE  Users(m, b) >= One(m.scanout = b) + One(m.slot = b) + One(m.pix[p].bo = b)
                          + One(\E q \in Pixmaps \ {p} : m.pix[q].bo = b)
<1>. DEFINE A == {q \in Pixmaps : m.pix[q].bo = b}
            B == A \ {p}
<1>1. /\ A \in SUBSET Pixmaps /\ B \in SUBSET Pixmaps
      /\ \A q \in Pixmaps \ {p} : q \in A <=> q \in B
      /\ p \in A <=> m.pix[p].bo = b
      /\ p \notin B
    OBVIOUS
<1>2. One(p \in A) = One(m.pix[p].bo = b) /\ One(p \in B) = 0
    BY <1>1 DEF One
<1>3. /\ Cardinality(A) \in Nat /\ Cardinality(B) \in Nat
      /\ Cardinality(B) = Cardinality(A) - One(p \in A) + One(p \in B)
    <2>. HIDE DEF A, B
    <2>. QED
        BY <1>1, PixmapsFinite, CountChange
<1>4. ASSUME NEW q \in Pixmaps \ {p}, m.pix[q].bo = b
      PROVE  Cardinality(B) # 0
    <2>1. q \in B
        BY <1>4
    <2>2. IsFiniteSet(B)
        BY PixmapsFinite, FS_Subset, <1>1
    <2>. HIDE DEF B
    <2>. QED
        BY <2>1, <2>2, FS_EmptySet
<1>5. Users(m, b) = Cardinality(A) + One(m.scanout = b) + One(m.slot = b)
    BY DEF Users
<1>. DEFINE E == \E q \in Pixmaps \ {p} : m.pix[q].bo = b
<1>6. One(m.scanout = b) \in 0..1 /\ One(m.slot = b) \in 0..1 /\ One(m.pix[p].bo = b) \in 0..1
    BY DEF One
<1>7. One(E) <= Cardinality(B) /\ One(E) \in 0..1
    BY <1>3, <1>4 DEF One
<1>. HIDE DEF A, B, E
<1>8. Users(m, b) >= One(m.scanout = b) + One(m.slot = b) + One(m.pix[p].bo = b) + One(E)
    BY <1>2, <1>3, <1>5, <1>6, <1>7
<1>. QED
    BY <1>8 DEF E

\* Does anything but pixmap p use the bo?
Besides(m, p, b) == m.scanout = b \/ m.slot = b \/ \E q \in Pixmaps \ {p} : m.pix[q].bo = b

LEMMA BesidesRefs ==
    ASSUME NEW m, Solvent(m), NEW p \in Pixmaps, NEW b \in Bos, Besides(m, p, b)
    PROVE  m.refs[b] \in Nat /\ m.refs[b] >= 1 /\ (m.pix[p].bo = b => m.refs[b] >= 2)
<1>. DEFINE E == \E q \in Pixmaps \ {p} : m.pix[q].bo = b
<1>1. /\ Users(m, b) \in Nat
      /\ Users(m, b) >= One(m.scanout = b) + One(m.slot = b) + One(m.pix[p].bo = b) + One(E)
    BY UsersAtLeast, UsersType
<1>2. m.scanout = b \/ m.slot = b \/ E
    BY DEF Besides
<1>. HIDE DEF E
<1>3. /\ One(m.scanout = b) \in 0..1 /\ One(m.slot = b) \in 0..1 /\ One(E) \in 0..1
      /\ One(m.pix[p].bo = b) \in 0..1
      /\ m.pix[p].bo = b => One(m.pix[p].bo = b) = 1
      /\ One(m.scanout = b) + One(m.slot = b) + One(E) >= 1
    BY <1>2 DEF One
<1>4. m.refs[b] \in Nat /\ m.refs[b] >= Users(m, b)
    <2>1. Spare(m, b) >= 0 /\ m.refs[b] \in Nat
        BY DEF Solvent, Sound, Memory
    <2>. QED
        BY <1>1, <2>1 DEF Spare
<1>. QED
    BY <1>1, <1>3, <1>4

LEMMA UnreferencedSizes ==
    ASSUME NEW m, Sound(m), NEW b \in Bos \cup {NoBo}, b # NoBo => m.refs[b] >= 1,
           NEW c \in Bos, c # b \/ m.refs[c] >= 2
    PROVE  Unreferenced(m, b).size[c] = m.size[c]
<1>1. CASE b = NoBo
    BY <1>1 DEF Unreferenced
<1>2. CASE b \in Bos
    <2>1. m \in Memory /\ m.refs[b] >= 1 /\ m.size \in [Bos -> Sizes \cup {Empty}]
        BY <1>2, NoPixOutside DEF Sound, Memory
    <2>2. Unreferenced(m, b).size = IF m.refs[b] = 1 THEN [m.size EXCEPT ![b] = Empty] ELSE m.size
        BY <1>2, <2>1, UnreferencedFields
    <2>. QED
        BY <2>1, <2>2
<1>. QED
    BY <1>1, <1>2

\* What is used besides p, as long as the reference that goes is not the only one.
LEMMA UnreferencedApart ==
    ASSUME NEW m, Solvent(m), NEW p \in Pixmaps \cup {NoPix},
           NEW b \in Bos \cup {NoBo}, b # NoBo => m.refs[b] >= 1,
           b # NoBo /\ Besides(m, p, b) => m.refs[b] >= 2
    PROVE  Apart(m, Unreferenced(m, b), p)
<1>. DEFINE n == Unreferenced(m, b)
<1>1. Sound(m) /\ n.pix = m.pix /\ n.scanout = m.scanout /\ n.slot = m.slot
    BY UnreferencedSound DEF Solvent
<1>2. ASSUME NEW c \in Bos, Besides(m, p, c)
      PROVE  n.size[c] = m.size[c]
    <2>1. c # b \/ m.refs[c] >= 2
        BY <1>2, NoPixOutside
    <2>. QED
        BY <1>1, <2>1, UnreferencedSizes
<1>. HIDE DEF n
<1>3. m.scanout \in Bos /\ m.slot \in Bos
    BY SolventRefs
<1>4. n.size[m.scanout] = m.size[m.scanout] /\ n.size[m.slot] = m.size[m.slot]
    BY <1>2, <1>3 DEF Besides
<1>5. ASSUME NEW q \in Pixmaps \ {p}
      PROVE  Same(m, n, q)
    <2>1. m.pix[q].bo # NoBo => m.pix[q].bo \in Bos /\ Besides(m, p, m.pix[q].bo)
        BY PixmapRefs DEF Besides
    <2>. QED
        BY <1>1, <1>2, <2>1 DEF Same
<1>. QED
    BY <1>1, <1>4, <1>5 DEF Apart, n

\* A new bo, of size s, is none that anything uses.
LEMMA NewBoSizes ==
    ASSUME NEW m, Sound(m), NEW s \in Sizes \cup {Empty}, NEW n \in NewBo(m, s)
    PROVE  /\ \A c \in Bos : m.refs[c] >= 1 => n.m.size[c] = m.size[c]
           /\ n.bo # NoBo => n.m.size[n.bo] = s
<1>0. m \in Memory /\ m.refs \in [Bos -> Nat] /\ m.size \in [Bos -> Sizes \cup {Empty}]
      /\ m.objs \in SUBSET Bos
    BY DEF Sound, Memory
<1>1. PICK b \in Bos \ m.objs :
             \/ n = [m |-> With(m, [m.refs EXCEPT ![b] = 1], [m.size EXCEPT ![b] = s],
                               m.objs \cup {b}), bo |-> b]
             \/ n = [m |-> m, bo |-> NoBo]
             \/ n = [m |-> WithObjs(m, m.objs \cup {b}), bo |-> NoBo] /\ "get_prop" \in Failing
    BY NewBoCases
<1>2. \A c \in Bos : m.refs[c] >= 1 => c # b
    BY <1>0 DEF Sound
<1>3. CASE n.bo # NoBo
    <2>. DEFINE refs == [m.refs EXCEPT ![b] = 1]
                size == [m.size EXCEPT ![b] = s]
                objs == m.objs \cup {b}
    <2>1. n.bo = b /\ n.m = With(m, refs, size, objs)
        BY <1>1, <1>3
    <2>2. refs \in [Bos -> Nat] /\ size \in [Bos -> Sizes \cup {Empty}] /\ objs \in SUBSET Bos
        BY <1>0
    <2>3. size[b] = s /\ \A c \in Bos : c # b => size[c] = m.size[c]
        BY <1>0
    <2>. HIDE DEF refs, size, objs
    <2>4. n.m.size = size
        BY <1>0, <2>1, <2>2, WithFields
    <2>. QED
        BY <1>2, <2>1, <2>3, <2>4
<1>4. CASE n.bo = NoBo /\ n.m = m
    BY <1>4
<1>5. CASE n.bo = NoBo /\ n.m = WithObjs(m, m.objs \cup {b})
    <2>1. n.m.size = m.size
        BY <1>0, <1>5, WithObjsFields
    <2>. QED
        BY <1>5, <2>1
<1>. QED
    BY <1>1, <1>3, <1>4, <1>5, NoPixOutside

\* p gets a bo that is in use.
LEMMA RebackedApart ==
    ASSUME NEW m, Solvent(m), NEW p \in Pixmaps, m.pix[p].refs >= 1,
           NEW b \in Bos, m.refs[b] >= 1
    PROVE  LET n == Backed(Unreferenced(Referenced(m, b), m.pix[p].bo), p, b)
           IN  Apart(m, n, p) /\ n.pix[p].size = m.pix[p].size
<1>. DEFINE old == m.pix[p].bo
            m1  == Referenced(m, b)
            m2  == Unreferenced(m1, old)
            n   == Backed(m2, p, b)
<1>1. Sound(m) /\ old \in Bos \cup {NoBo} /\ (old # NoBo => m.refs[old] >= 1)
      /\ m.refs \in [Bos -> Nat]
    BY SolventRefs, PixmapRefs
<1>2. /\ Sound(m1) /\ m1.pix = m.pix /\ m1.size = m.size /\ m1.scanout = m.scanout
      /\ m1.slot = m.slot
      /\ \A c \in Bos : m1.refs[c] = m.refs[c] + One(c = b)
                        /\ Spare(m1, c) = Spare(m, c) + One(c = b)
    BY <1>1, ReferencedSound
<1>. HIDE DEF m1
<1>3. old # NoBo => m1.refs[old] >= 1
    BY <1>1, <1>2 DEF One
<1>4. Solvent(m1)
    <2>1. \A c \in Bos : Spare(m, c) \in Int /\ Spare(m, c) >= 0 /\ One(c = b) \in 0..1
        BY <1>1, UsersType DEF Spare, One, Solvent
    <2>. QED
        BY <1>2, <2>1 DEF Solvent
<1>5. old # NoBo /\ Besides(m1, p, old) => m1.refs[old] >= 2
    BY <1>1, <1>2, <1>4, BesidesRefs
<1>6. Apart(m1, m2, p) /\ Sound(m2) /\ m2.pix = m1.pix
    BY <1>1, <1>2, <1>3, <1>4, <1>5, UnreferencedApart, UnreferencedSound
<1>. HIDE DEF m2
<1>7. Apart(m, m1, p)
    BY <1>2, SizesApart DEF Only
<1>8. m2.pix[p].refs >= 1
    BY <1>2, <1>6
<1>9. /\ Only(m2, n, p) /\ n.pix[p].size = m2.pix[p].size /\ n.scanout = m2.scanout
      /\ n.slot = m2.slot /\ n.size = m2.size
    BY <1>6, <1>8, BackedSound
<1>. HIDE DEF n
<1>10. Apart(m2, n, p)
    BY <1>9, SizesApart
<1>11. Apart(m, n, p) /\ n.pix[p].size = m.pix[p].size
    BY <1>2, <1>6, <1>7, <1>9, <1>10, ApartTrans
<1>. QED
    BY <1>11 DEF n, m2, m1

\* The size that pixmap p has is that of its bo, if it has one and a size.
Fits(m, p) ==
    m.pix[p].bo # NoBo /\ m.pix[p].size # Empty => m.size[m.pix[p].bo] = m.pix[p].size

LEMMA DroppedApart ==
    ASSUME NEW m, Solvent(m), NEW p \in Pixmaps
    PROVE  /\ Apart(m, Dropped(m, p), p) /\ Dropped(m, p).pix[p].bo = NoBo
           /\ Dropped(m, p).pix[p].size = m.pix[p].size
<1>. DEFINE old == m.pix[p].bo
            m1  == Unreferenced(m, old)
            n   == Backed(m1, p, NoBo)
<1>1. Sound(m) /\ old \in Bos \cup {NoBo} /\ (old # NoBo => m.refs[old] >= 1)
    BY SolventRefs, PixmapRefs
<1>2. old # NoBo /\ Besides(m, p, old) => m.refs[old] >= 2
    BY <1>1, BesidesRefs
<1>3. Apart(m, m1, p) /\ Sound(m1) /\ m1.pix = m.pix
    BY <1>1, <1>2, UnreferencedApart, UnreferencedSound
<1>. HIDE DEF m1
<1>4. /\ Only(m1, n, p) /\ n.pix[p].size = m1.pix[p].size /\ n.scanout = m1.scanout
      /\ n.slot = m1.slot /\ n.size = m1.size /\ n.pix[p].bo = NoBo
    BY <1>3, BackedSound
<1>. HIDE DEF n
<1>5. Apart(m1, n, p)
    BY <1>4, SizesApart
<1>6. Apart(m, n, p) /\ n.pix[p].bo = NoBo /\ n.pix[p].size = m.pix[p].size
    BY <1>3, <1>4, <1>5, ApartTrans
<1>. QED
    BY <1>6 DEF n, m1, Dropped

LEMMA WithMappedApart ==
    ASSUME NEW m, Solvent(m), NEW v \in BOOLEAN, NEW p
    PROVE  Apart(m, WithMapped(m, v), p) /\ WithMapped(m, v).pix = m.pix
<1>. DEFINE n == WithMapped(m, v)
<1>1. /\ n.pix = m.pix /\ n.size = m.size /\ n.scanout = m.scanout /\ n.slot = m.slot
    BY DEF Solvent, Sound, Memory, WithMapped
<1>. HIDE DEF n
<1>2. Apart(m, n, p)
    BY <1>1, SizesApart DEF Only
<1>. QED
    BY <1>1, <1>2 DEF n

LEMMA SizedApart ==
    ASSUME NEW m, Solvent(m), NEW p \in Pixmaps, NEW s \in Sizes \cup {Empty}
    PROVE  /\ Apart(m, Sized(m, p, s), p) /\ Sized(m, p, s).pix[p].bo = m.pix[p].bo
           /\ Sized(m, p, s).pix[p].size = s
<1>. DEFINE r == [m.pix[p] EXCEPT !.size = s]
            n == WithPix(m, p, r)
<1>1. Sound(m) /\ m.pix[p] \in PixType
    BY DEF Solvent, Sound, Memory
<1>2. r \in PixType /\ r.bo = m.pix[p].bo /\ r.refs = m.pix[p].refs /\ r.size = s
    BY <1>1 DEF PixType
<1>3. r.refs = 0 => r.bo = NoBo
    BY <1>1, <1>2 DEF Sound
<1>4. Sized(m, p, s) = n
    BY DEF Sized, WithPix
<1>. HIDE DEF r
<1>5. /\ Only(m, n, p) /\ n.pix[p] = r /\ n.scanout = m.scanout /\ n.slot = m.slot
      /\ n.size = m.size
    BY <1>1, <1>2, <1>3, WithPixSound
<1>. HIDE DEF n
<1>. QED
    BY <1>2, <1>4, <1>5, SizesApart

\* A pixmap fits after the end of OMAPModifyPixmapHeader, unless it has no bo.
LEMMA FittedApart ==
    ASSUME NEW m, Solvent(m), NEW p \in Pixmaps, m.pix[p].refs >= 1, NEW n \in Fitted(m, p)
    PROVE  Apart(m, n, p) /\ Fits(n, p) /\ n.pix[p].size = m.pix[p].size
<1>. DEFINE old == m.pix[p].bo
            s   == m.pix[p].size
            m1  == Unreferenced(m, old)
<1>1. CASE n = m /\ (s = Empty \/ (old # NoBo /\ m.size[old] = s))
    BY <1>1, SizesApart DEF Fits, Only
<1>2. CASE \E x \in NewBo(m1, s) : n = Backed(x.m, p, x.bo)
    <2>1. PICK x \in NewBo(m1, s) : n = Backed(x.m, p, x.bo)
        BY <1>2
    <2>2. Sound(m) /\ old \in Bos \cup {NoBo} /\ (old # NoBo => m.refs[old] >= 1)
          /\ s \in Sizes \cup {Empty} /\ m.refs \in [Bos -> Nat]
        BY SolventRefs, PixmapRefs
    <2>3. old # NoBo /\ Besides(m, p, old) => m.refs[old] >= 2
        BY <2>2, BesidesRefs
    <2>4. /\ Apart(m, m1, p) /\ Sound(m1) /\ m1.pix = m.pix
          /\ m1.scanout = m.scanout /\ m1.slot = m.slot
          /\ \A c \in Bos : m1.refs[c] = m.refs[c] - One(c = old)
        BY <2>2, <2>3, UnreferencedApart, UnreferencedSound
    <2>. HIDE DEF m1
    <2>5. ASSUME NEW c \in Bos, Besides(m, p, c)
          PROVE  m1.refs[c] >= 1
        <3>1. m.refs[c] \in Nat /\ m.refs[c] >= 1 /\ (c = old => m.refs[c] >= 2)
            BY <2>5, BesidesRefs
        <3>. HIDE DEF old
        <3>. QED
            BY <2>4, <3>1 DEF One
    <2>6. /\ x.m.pix = m1.pix /\ x.m.scanout = m1.scanout /\ x.m.slot = m1.slot
          /\ Sound(x.m) /\ x.bo \in Bos \cup {NoBo}
          /\ \A c \in Bos : m1.refs[c] >= 1 => x.m.size[c] = m1.size[c]
          /\ x.bo # NoBo => x.m.size[x.bo] = s
        BY <2>2, <2>4, NewBoSound, NewBoSizes
    <2>7. Apart(m1, x.m, p)
        <3>1. m.scanout \in Bos /\ m.slot \in Bos
            BY SolventRefs
        <3>2. x.m.size[m.scanout] = m1.size[m.scanout] /\ x.m.size[m.slot] = m1.size[m.slot]
            BY <2>5, <2>6, <3>1 DEF Besides
        <3>3. ASSUME NEW q \in Pixmaps \ {p}
              PROVE  Same(m1, x.m, q)
            <4>1. m.pix[q].bo # NoBo => m.pix[q].bo \in Bos /\ Besides(m, p, m.pix[q].bo)
                BY PixmapRefs DEF Besides
            <4>. QED
                BY <2>4, <2>5, <2>6, <4>1 DEF Same
        <3>. QED
            BY <2>4, <2>6, <3>2, <3>3 DEF Apart
    <2>8. /\ Only(x.m, n, p) /\ n.pix[p].bo = x.bo /\ n.pix[p].size = x.m.pix[p].size
          /\ n.scanout = x.m.scanout /\ n.slot = x.m.slot /\ n.size = x.m.size
        BY <2>1, <2>4, <2>6, BackedSound
    <2>9. Apart(x.m, n, p)
        BY <2>8, SizesApart
    <2>10. Apart(m, n, p)
        BY <2>4, <2>7, <2>9, ApartTrans
    <2>. QED
        BY <2>4, <2>6, <2>8, <2>10 DEF Fits
<1>. QED
    BY <1>1, <1>2 DEF Fitted

\* OMAPModifyPixmapHeader leaves a pixmap that fits, whatever the data.
LEMMA ModifiedApart ==
    ASSUME NEW m, Solvent(m), NEW p \in Pixmaps, m.pix[p].refs >= 1,
           NEW s \in Sizes \cup {Empty}, NEW data, NEW n \in Modified(m, p, s, data)
    PROVE  /\ Apart(m, n, p) /\ Fits(n, p)
           /\ n.pix[p].size = IF s = Empty THEN m.pix[p].size ELSE s
<1>. DEFINE sized(x) == [x EXCEPT !.pix[p].size = IF s = Empty THEN x.pix[p].size ELSE s]
            root(ok) == IF ok THEN "root" ELSE "null"
            tried(ok) == [m EXCEPT !.mapped = m.mapped \/ ok]
            new == IF s = Empty THEN m.pix[p].size ELSE s
<1>1. PICK ok \in Maps(m) :
        \/ n = sized(Dropped(tried(ok), p))
        \/ n \in Fitted(sized(BackedByRoot(tried(ok), p)), p)
        \/ n \in Fitted(sized(tried(ok)), p)
    BY DEF Modified
<1>. DEFINE t == tried(ok)
<1>2. Touched(m, t, p) /\ Apart(m, t, p) /\ Solvent(t) /\ t.pix[p].refs >= 1 /\ t.pix = m.pix
    <2>1. t = WithMapped(m, m.mapped \/ ok) /\ (m.mapped \/ ok) \in BOOLEAN
        BY MapsType DEF WithMapped
    <2>. HIDE DEF t
    <2>2. Touched(m, t, p) /\ Apart(m, t, p) /\ t.pix = m.pix
        BY <2>1, WithMappedTouched, WithMappedApart
    <2>. QED
        BY <2>2, TouchedSolvent DEF Touched
<1>. HIDE DEF t
<1>3. ASSUME NEW x, Touched(t, x, p), Apart(t, x, p), x.pix[p].size = t.pix[p].size
      PROVE  /\ Touched(m, sized(x), p) /\ Solvent(sized(x)) /\ sized(x).pix[p].refs >= 1
             /\ Apart(m, sized(x), p) /\ sized(x).pix[p].bo = x.pix[p].bo
             /\ sized(x).pix[p].size = new
    <2>1. Solvent(x) /\ x.pix[p].refs >= 1
        BY <1>2, <1>3, TouchedSolvent DEF Touched
    <2>2. new \in Sizes \cup {Empty} /\ new = IF s = Empty THEN x.pix[p].size ELSE s
        BY <1>2, <1>3, PixmapRefs
    <2>3. sized(x) = Sized(x, p, new)
        BY <2>2 DEF Sized
    <2>. HIDE DEF sized, new
    <2>4. Touched(x, sized(x), p) /\ Apart(x, sized(x), p) /\ sized(x).pix[p].bo = x.pix[p].bo
          /\ sized(x).pix[p].size = new
        BY <2>1, <2>2, <2>3, SizedTouched, SizedApart
    <2>5. Touched(m, sized(x), p) /\ Apart(m, sized(x), p)
        BY <1>2, <1>3, <2>4, TouchedTrans, ApartTrans
    <2>. QED
        BY <2>4, <2>5, TouchedSolvent DEF Touched
<1>. HIDE DEF sized
<1>4. CASE n = sized(Dropped(t, p))
    <2>1. /\ Touched(t, Dropped(t, p), p) /\ Apart(t, Dropped(t, p), p)
          /\ Dropped(t, p).pix[p].bo = NoBo /\ Dropped(t, p).pix[p].size = t.pix[p].size
        BY <1>2, DroppedTouched, DroppedApart
    <2>. QED
        BY <1>3, <1>4, <2>1 DEF Fits
<1>5. ASSUME NEW x, Touched(t, x, p), Apart(t, x, p), x.pix[p].size = t.pix[p].size,
             n \in Fitted(sized(x), p)
      PROVE  Apart(m, n, p) /\ Fits(n, p) /\ n.pix[p].size = new
    <2>1. /\ Solvent(sized(x)) /\ sized(x).pix[p].refs >= 1
          /\ Apart(m, sized(x), p) /\ sized(x).pix[p].size = new
        BY <1>3, <1>5
    <2>. HIDE DEF new
    <2>2. Apart(sized(x), n, p) /\ Fits(n, p) /\ n.pix[p].size = sized(x).pix[p].size
        BY <1>5, <2>1, FittedApart
    <2>. QED
        BY <2>1, <2>2, ApartTrans
<1>6. Touched(t, t, p) /\ Apart(t, t, p)
    BY <1>2, TouchedSame, SizesApart DEF Only
<1>7. /\ Touched(t, BackedByRoot(t, p), p) /\ Apart(t, BackedByRoot(t, p), p)
      /\ BackedByRoot(t, p).pix[p].size = t.pix[p].size
    BY <1>2, SolventRefs, RebackedTouched, RebackedApart DEF BackedByRoot
<1>. QED
    BY <1>1, <1>4, <1>5, <1>6, <1>7 DEF t

LEMMA CreatedApart ==
    ASSUME NEW m, Solvent(m), NEW p \in Pixmaps, m.pix[p].refs = 0,
           NEW s \in Sizes \cup {Empty}, NEW n \in Created(m, p, s)
    PROVE  Apart(m, n, p) /\ Fits(n, p) /\ n.pix[p].size = s
<1>. DEFINE r == [FreePix EXCEPT !.refs = 1]
            x == WithPix(m, p, r)
<1>1. r \in PixType /\ r.refs = 1 /\ r.bo = NoBo /\ r.size = Empty
    BY DEF FreePix, PixType
<1>2. n \in Modified(x, p, s, "null")
    BY DEF Created, WithPix
<1>3. Sound(m) /\ m.pix[p].bo = NoBo
    BY SolventRefs DEF Sound
<1>. HIDE DEF r
<1>4. /\ Sound(x) /\ Only(m, x, p) /\ x.pix[p] = r /\ x.scanout = m.scanout
      /\ x.slot = m.slot /\ x.size = m.size
      /\ \A c \in Bos : Spare(x, c) = Spare(m, c) + One(c = m.pix[p].bo) - One(c = r.bo)
    BY <1>1, <1>3, WithPixSound
<1>. HIDE DEF x
<1>5. \A c \in Bos : Spare(x, c) = Spare(m, c)
    BY <1>1, <1>3, <1>4, UsersType DEF Spare, One, Sound, Memory
<1>6. Solvent(x) /\ Apart(m, x, p)
    BY <1>4, <1>5, SizesApart DEF Solvent
<1>7. Apart(x, n, p) /\ Fits(n, p) /\ n.pix[p].size = IF s = Empty THEN x.pix[p].size ELSE s
    BY <1>1, <1>2, <1>4, <1>6, ModifiedApart
<1>. QED
    BY <1>1, <1>4, <1>6, <1>7, ApartTrans

LEMMA HeldSame ==
    ASSUME NEW m, Solvent(m), NEW p \in Pixmaps, m.pix[p].refs >= 1
    PROVE  /\ Held(m, p).scanout = m.scanout /\ Held(m, p).slot = m.slot
           /\ Held(m, p).size = m.size
           /\ \A q \in Pixmaps : Same(m, Held(m, p), q)
<1>1. /\ Only(m, Held(m, p), p) /\ Held(m, p).pix[p].bo = m.pix[p].bo
      /\ Held(m, p).scanout = m.scanout /\ Held(m, p).slot = m.slot
      /\ Held(m, p).size = m.size
    BY HeldOnly
<1>2. Held(m, p).pix[p].size = m.pix[p].size
    BY DEF Held, Solvent, Sound, Memory, PixType
<1>. QED
    BY <1>1, <1>2 DEF Same, Only

\* What is left has not changed: pixmaps that are still held, root bo and slot.
Survives(m, n) ==
    /\ n.scanout = m.scanout /\ n.size[m.scanout] = m.size[m.scanout]
    /\ n.slot = m.slot /\ n.size[m.slot] = m.size[m.slot]
    /\ \A q \in Pixmaps : n.pix[q].refs >= 1 => m.pix[q].refs >= 1 /\ Same(m, n, q)

LEMMA SurvivesTrans ==
    ASSUME NEW m, NEW n, NEW o, Survives(m, n), Survives(n, o)
    PROVE  Survives(m, o)
    BY DEF Survives, Same

\* Who destroys a pixmap changes no other, nor that one if somebody else has it.
LEMMA DestroyedSurvives ==
    ASSUME NEW m, Solvent(m), NEW p \in Pixmaps \cup {NoPix}, p # NoPix => m.pix[p].refs >= 1
    PROVE  Survives(m, Destroyed(m, p))
<1>. DEFINE n == Destroyed(m, p)
<1>0. \A q \in Pixmaps : m.pix[q].refs \in Nat /\ m.pix[q] \in PixType
    BY PixmapRefs
<1>1. CASE p = NoPix
    BY <1>1 DEF Destroyed, Same, Survives
<1>2. CASE p # NoPix /\ m.pix[p].refs = 1
    <2>. DEFINE old == m.pix[p].bo
                m1  == Unreferenced(m, old)
    <2>1. n = WithPix(m1, p, FreePix)
        BY <1>2 DEF Destroyed, WithPix
    <2>2. Sound(m) /\ old \in Bos \cup {NoBo} /\ (old # NoBo => m.refs[old] >= 1) /\ p \in Pixmaps
        BY <1>2, SolventRefs, PixmapRefs
    <2>3. old # NoBo /\ Besides(m, p, old) => m.refs[old] >= 2
        BY <2>2, BesidesRefs
    <2>4. Apart(m, m1, p) /\ Sound(m1) /\ m1.pix = m.pix
        BY <2>2, <2>3, UnreferencedApart, UnreferencedSound
    <2>. HIDE DEF m1, n
    <2>5. FreePix \in PixType /\ FreePix.refs = 0 /\ FreePix.bo = NoBo
        BY DEF FreePix, PixType
    <2>6. /\ Only(m1, n, p) /\ n.pix[p] = FreePix /\ n.scanout = m1.scanout
          /\ n.slot = m1.slot /\ n.size = m1.size
        BY <2>1, <2>2, <2>4, <2>5, WithPixSound
    <2>7. Apart(m, n, p) /\ n.pix[p].refs = 0
        BY <2>4, <2>5, <2>6, SizesApart, ApartTrans
    <2>8. \A q \in Pixmaps \ {p} : n.pix[q] = m.pix[q]
        BY <2>4, <2>6 DEF Only
    <2>9. Survives(m, n)
        BY <2>7, <2>8 DEF Apart, Survives
    <2>. QED
        BY <2>9 DEF n
<1>3. CASE p # NoPix /\ m.pix[p].refs # 1
    <2>. DEFINE r == [m.pix[p] EXCEPT !.refs = m.pix[p].refs - 1]
    <2>1. n = WithPix(m, p, r) /\ p \in Pixmaps /\ Sound(m)
        BY <1>3, SolventRefs DEF Destroyed, WithPix
    <2>. HIDE DEF n
    <2>2. /\ r \in PixType /\ r.bo = m.pix[p].bo /\ r.refs = m.pix[p].refs - 1 /\ r.refs # 0
          /\ r.size = m.pix[p].size
        BY <1>0, <1>3, <2>1 DEF PixType
    <2>. HIDE DEF r
    <2>3. r \in PixType /\ (r.refs = 0 => r.bo = NoBo)
        BY <2>2
    <2>4. /\ Only(m, n, p) /\ n.pix[p] = r /\ n.scanout = m.scanout
          /\ n.slot = m.slot /\ n.size = m.size
        BY <2>1, <2>3, WithPixSound
    <2>5. Survives(m, n)
        BY <1>3, <2>1, <2>2, <2>4 DEF Same, Only, Survives
    <2>. QED
        BY <2>5 DEF n
<1>. QED
    BY <1>1, <1>2, <1>3

LEMMA DestroyedTwiceSurvives ==
    ASSUME NEW m, Solvent(m), NEW p \in Pixmaps \cup {NoPix}, NEW q \in Pixmaps \cup {NoPix},
           p # NoPix => m.pix[p].refs >= 1,
           q # NoPix => m.pix[q].refs >= 1 + One(q = p)
    PROVE  Survives(m, Destroyed(Destroyed(m, p), q))
<1>. DEFINE m1 == Destroyed(m, p)
<1>1. Released(m, m1, p) /\ Solvent(m1) /\ Survives(m, m1)
    <2>1. Released(m, m1, p) /\ Survives(m, m1)
        BY DestroyedReleased, DestroyedSurvives
    <2>. QED
        BY <2>1, BalancedSolvent DEF Released
<1>. HIDE DEF m1
<1>2. q # NoPix => m1.pix[q].refs >= 1
    BY <1>1, PixmapRefs DEF Released, One
<1>3. Survives(m1, Destroyed(m1, q))
    BY <1>1, <1>2, DestroyedSurvives
<1>4. Survives(m, Destroyed(m1, q))
    BY <1>1, <1>3, SurvivesTrans
<1>. QED
    BY <1>4 DEF m1

\* The end of a blit, and the start of a flip: the root bo or the slot's backs a
\* pixmap.
LEMMA RootWrittenApart ==
    ASSUME NEW m, Solvent(m), m.pix[Root].refs >= 1
    PROVE  Apart(m, RootWritten(m), Root)
<1>1. CASE RootWritten(m) = m
    BY <1>1, SizesApart DEF Only
<1>2. CASE RootWritten(m) = BackedByRoot(m, Root)
    BY <1>2, SolventRefs, RebackedApart, NoPixOutside DEF BackedByRoot
<1>. QED
    BY <1>1, <1>2 DEF RootWritten

LEMMA SlotBackedApart ==
    ASSUME NEW m, Solvent(m), NEW p \in Pixmaps, m.pix[p].refs >= 1
    PROVE  Apart(m, SlotBacked(m, p), p) /\ SlotBacked(m, p).pix[p].bo = m.slot
    BY SolventRefs, RebackedApart, RebackedTouched DEF SlotBacked

LEMMA ExchangedSizes ==
    ASSUME NEW m, Solvent(m), NEW p \in Pixmaps, NEW q \in Pixmaps, p # q,
           m.pix[p].refs >= 1, m.pix[q].refs >= 1
    PROVE  LET n == Exchanged(m, p, q)
           IN  /\ n.scanout = m.scanout /\ n.slot = m.slot /\ n.size = m.size
               /\ n.pix[p].bo = m.pix[q].bo /\ n.pix[p].size = m.pix[p].size
               /\ n.pix[q].bo = m.pix[p].bo /\ n.pix[q].size = m.pix[q].size
               /\ \A x \in Pixmaps \ {p, q} : Same(m, n, x)
<1>. DEFINE a  == m.pix[p].bo
            b  == m.pix[q].bo
            m1 == Backed(m, p, b)
            n  == Backed(m1, q, a)
<1>1. Sound(m) /\ a \in Bos \cup {NoBo} /\ b \in Bos \cup {NoBo}
    BY SolventRefs, PixmapRefs
<1>2. /\ Sound(m1) /\ Only(m, m1, p) /\ m1.pix[p].bo = b /\ m1.pix[p].refs = m.pix[p].refs
      /\ m1.pix[p].size = m.pix[p].size
      /\ m1.scanout = m.scanout /\ m1.slot = m.slot /\ m1.size = m.size
    BY <1>1, BackedSound
<1>. HIDE DEF m1
<1>3. m1.pix[q] = m.pix[q]
    BY <1>2 DEF Only
<1>4. /\ Only(m1, n, q) /\ n.pix[q].bo = a /\ n.pix[q].size = m1.pix[q].size
      /\ n.scanout = m1.scanout /\ n.slot = m1.slot /\ n.size = m1.size
    BY <1>1, <1>2, <1>3, BackedSound
<1>. HIDE DEF n
<1>5. /\ n.scanout = m.scanout /\ n.slot = m.slot /\ n.size = m.size
      /\ n.pix[p].bo = m.pix[q].bo /\ n.pix[p].size = m.pix[p].size
      /\ n.pix[q].bo = m.pix[p].bo /\ n.pix[q].size = m.pix[q].size
      /\ \A x \in Pixmaps \ {p, q} : Same(m, n, x)
    BY <1>2, <1>3, <1>4 DEF Only, Same
<1>. QED
    BY <1>5 DEF n, m1, Exchanged

\* The bo that the slot gives up may go, but no pixmap has it then.
LEMMA ScanoutSetSizes ==
    ASSUME NEW m, Solvent(m), NEW b \in Bos \cup {NoBo}, b # NoBo => m.refs[b] >= 1,
           m.size[m.slot] = Mode
    PROVE  LET n == ScanoutSet(m, b)
           IN  /\ n.scanout = m.scanout /\ n.size[m.scanout] = m.size[m.scanout]
               /\ n.size[n.slot] = Mode
               /\ \A x \in Pixmaps : Same(m, n, x)
<1>1. CASE ScanoutSet(m, b) = m
    BY <1>1 DEF Same
<1>2. CASE /\ b # NoBo /\ m.size[b] = Mode
           /\ ScanoutSet(m, b) = WithSlot(Unreferenced(Referenced(m, b), m.slot), b)
    <2>. DEFINE m1 == Referenced(m, b)
                m2 == Unreferenced(m1, m.slot)
                n  == WithSlot(m2, b)
    <2>1. /\ Sound(m) /\ b \in Bos /\ m.refs[b] >= 1 /\ m.slot \in Bos /\ m.refs[m.slot] >= 1
          /\ m.refs \in [Bos -> Nat] /\ m.scanout \in Bos
        BY <1>2, SolventRefs
    <2>2. /\ Sound(m1) /\ m1.pix = m.pix /\ m1.scanout = m.scanout /\ m1.slot = m.slot
          /\ m1.size = m.size
          /\ \A c \in Bos : m1.refs[c] = m.refs[c] + One(c = b)
        BY <2>1, ReferencedSound
    <2>. HIDE DEF m1
    <2>3. m1.refs[m.slot] >= 1
        BY <2>1, <2>2 DEF One
    <2>4. /\ Sound(m2) /\ m2.pix = m.pix /\ m2.scanout = m.scanout
          /\ \A c \in Bos : c # m.slot \/ m1.refs[c] >= 2 => m2.size[c] = m.size[c]
        BY <2>1, <2>2, <2>3, UnreferencedSound, UnreferencedSizes
    <2>. HIDE DEF m2
    <2>5. n.pix = m2.pix /\ n.scanout = m2.scanout /\ n.size = m2.size /\ n.slot = b
        BY <2>4 DEF WithSlot, Sound, Memory
    <2>. HIDE DEF n
    <2>6. b # m.slot \/ m1.refs[b] >= 2
        BY <2>1, <2>2 DEF One
    <2>7. ASSUME NEW c \in Bos, m.scanout = c \/ \E x \in Pixmaps : m.pix[x].bo = c
          PROVE  c # m.slot \/ m1.refs[c] >= 2
        <3>1. ASSUME c = m.slot
              PROVE  m.refs[c] >= 2
            <4>1. PICK x \in Pixmaps : m.scanout = c \/ m.pix[x].bo = c
                BY <2>7, NoPixOutside
            <4>. DEFINE E == \E q \in Pixmaps \ {x} : m.pix[q].bo = c
            <4>2. Users(m, c) >= One(m.scanout = c) + One(m.slot = c) + One(m.pix[x].bo = c) + One(E)
                BY UsersAtLeast
            <4>. HIDE DEF E
            <4>3. /\ One(m.scanout = c) \in 0..1 /\ One(m.pix[x].bo = c) \in 0..1 /\ One(E) \in 0..1
                  /\ One(m.slot = c) = 1
                  /\ One(m.scanout = c) + One(m.pix[x].bo = c) >= 1
                BY <3>1, <4>1 DEF One
            <4>4. Users(m, c) \in Nat /\ Users(m, c) >= 2
                BY <4>2, <4>3, UsersType
            <4>5. Spare(m, c) >= 0 /\ m.refs[c] \in Nat
                BY <2>1 DEF Solvent
            <4>. QED
                BY <4>4, <4>5 DEF Spare
        <3>. QED
            BY <2>1, <2>2, <3>1 DEF One
    <2>8. n.size[m.scanout] = m.size[m.scanout] /\ n.size[n.slot] = Mode
        BY <1>2, <2>1, <2>4, <2>5, <2>6, <2>7
    <2>9. ASSUME NEW x \in Pixmaps
          PROVE  Same(m, n, x)
        <3>1. m.pix[x].bo # NoBo => m.pix[x].bo \in Bos
            BY PixmapRefs
        <3>. QED
            BY <2>4, <2>5, <2>7, <3>1 DEF Same
    <2>10. n.scanout = m.scanout
        BY <2>4, <2>5
    <2>11. ScanoutSet(m, b) = n
        BY <1>2 DEF n, m2, m1
    <2>. QED
        BY <2>8, <2>9, <2>10, <2>11
<1>. QED
    BY <1>1, <1>2 DEF ScanoutSet, WithSlot

\* drmmode_xf86crtc_resize: the root bo of before may go, if no pixmap has it.
LEMMA NewRootSame ==
    ASSUME NEW m, Solvent(m), NEW s \in Sizes \cup {Empty}, NEW x \in NewBo(m, s),
           x.bo # NoBo, NEW v \in BOOLEAN
    PROVE  LET n == WithRoot(Unreferenced(x.m, m.scanout), x.bo, v)
           IN  /\ n.slot = m.slot /\ n.size[m.slot] = m.size[m.slot]
               /\ \A q \in Pixmaps : Same(m, n, q)
<1>. DEFINE m2 == Unreferenced(x.m, m.scanout)
            n  == WithRoot(m2, x.bo, v)
<1>1. /\ Sound(m) /\ m.scanout \in Bos /\ m.refs[m.scanout] >= 1 /\ m.refs \in [Bos -> Nat]
      /\ m.slot \in Bos
    BY SolventRefs
<1>2. /\ Sound(x.m) /\ x.bo \in Bos /\ x.m.pix = m.pix /\ x.m.scanout = m.scanout
      /\ x.m.slot = m.slot
      /\ \A c \in Bos : x.m.refs[c] = m.refs[c] + One(c = x.bo)
      /\ \A c \in Bos : m.refs[c] >= 1 => x.m.size[c] = m.size[c]
    BY <1>1, NewBoSound, NewBoSizes
<1>3. x.m.refs[m.scanout] >= 1
    BY <1>1, <1>2 DEF One
<1>4. /\ Sound(m2) /\ m2.pix = m.pix /\ m2.slot = m.slot
      /\ \A c \in Bos : c # m.scanout \/ x.m.refs[c] >= 2 => m2.size[c] = x.m.size[c]
    BY <1>1, <1>2, <1>3, UnreferencedSound, UnreferencedSizes
<1>. HIDE DEF m2
<1>5. n.pix = m2.pix /\ n.slot = m2.slot /\ n.size = m2.size
    BY <1>4 DEF WithRoot, Sound, Memory
<1>. HIDE DEF n
<1>6. ASSUME NEW c \in Bos, m.slot = c \/ \E q \in Pixmaps : m.pix[q].bo = c
      PROVE  n.size[c] = m.size[c]
    <2>1. PICK q \in Pixmaps : m.slot = c \/ m.pix[q].bo = c
        BY <1>6, NoPixOutside
    <2>. DEFINE E == \E y \in Pixmaps \ {q} : m.pix[y].bo = c
    <2>2. Users(m, c) >= One(m.scanout = c) + One(m.slot = c) + One(m.pix[q].bo = c) + One(E)
        BY UsersAtLeast
    <2>. HIDE DEF E
    <2>3. /\ One(m.slot = c) \in 0..1 /\ One(m.pix[q].bo = c) \in 0..1 /\ One(E) \in 0..1
          /\ One(m.slot = c) + One(m.pix[q].bo = c) >= 1
          /\ One(m.scanout = c) \in 0..1 /\ (c = m.scanout => One(m.scanout = c) = 1)
        BY <2>1 DEF One
    <2>4. /\ Users(m, c) \in Nat /\ Users(m, c) >= 1
          /\ c = m.scanout => Users(m, c) >= 2
        BY <2>2, <2>3, UsersType
    <2>5. Spare(m, c) >= 0 /\ m.refs[c] \in Nat
        BY <1>1 DEF Solvent
    <2>6. m.refs[c] >= 1 /\ (c = m.scanout => m.refs[c] >= 2)
        BY <2>4, <2>5 DEF Spare
    <2>. QED
        BY <1>2, <1>4, <1>5, <2>5, <2>6 DEF One
<1>7. n.slot = m.slot /\ n.size[m.slot] = m.size[m.slot]
    BY <1>1, <1>4, <1>5, <1>6
<1>8. ASSUME NEW q \in Pixmaps
      PROVE  Same(m, n, q)
    <2>1. m.pix[q].bo # NoBo => m.pix[q].bo \in Bos
        BY PixmapRefs
    <2>. QED
        BY <1>4, <1>5, <1>6, <2>1 DEF Same
<1>. QED
    BY <1>7, <1>8 DEF n, m2

-----------------------------------------------------------------------------
(* What is drawn into fits.                                                *)

InMode(m, p) == m.pix[p].bo # NoBo => m.size[m.pix[p].bo] = Mode

\* The bo of the slot has the size of the mode, and so has the root bo unless
\* the screen may be resized.
ScanoutsFit ==
    /\ mem.size[mem.slot] = Mode
    /\ "resize" \notin Env => mem.size[mem.scanout] = Mode

\* The pixmaps that a window and its buffers have, and its flip under way.
Places(w) == {win[w].pix, buf[w].front, buf[w].back, cmd[w].src, cmd[w].dst}

PlainFits ==
    \A p \in plain : /\ Fits(mem, p) /\ p # Root
                     /\ \A w \in Windows : p \notin Places(w)

\* A back buffer fits that a client relies on or may get to reuse.  The bo that
\* it gets when a flip completes has the size of the mode, as the window has.
WindowFits(w) ==
    /\ ~win[w].alive => buf[w].back = NoPix
    /\ buf[w].back # NoPix /\ ~win[w].stale =>
           buf[w].front = win[w].pix /\ mem.pix[buf[w].back].size = win[w].size
    /\ buf[w].back # NoPix /\ cmd[w] = NoCmd /\ (~win[w].stale \/ buf[w].name # NoBo) =>
           Fits(mem, buf[w].back)
    /\ win[w].alive /\ cmd[w] # NoCmd =>
           /\ cmd[w].src = buf[w].back /\ InMode(mem, cmd[w].src)
           /\ ~win[w].stale => win[w].size = Mode /\ InMode(mem, cmd[w].dst)

FitInv == ScanoutsFit /\ PlainFits /\ \A w \in Windows : WindowFits(w)

LEMMA InitFitInv == Init => FitInv
<1>. SUFFICES ASSUME Init PROVE FitInv
    OBVIOUS
<1>1. 1 \in Bos /\ 2 \in Bos
    BY PixmapsAssumption DEF Bos
<1>2. mem.scanout = 1 /\ mem.slot = 2 /\ mem.size = [b \in Bos |-> IF b <= 2 THEN Mode ELSE Empty]
    BY DEF Init
<1>3. ScanoutsFit
    BY <1>1, <1>2 DEF ScanoutsFit
<1>. QED
    BY <1>3 DEF Init, FitInv, PlainFits, WindowFits, NoBuf

LEMMA SameFits ==
    ASSUME NEW m, NEW n, NEW q, Same(m, n, q)
    PROVE  /\ Fits(m, q) => Fits(n, q)
           /\ InMode(m, q) => InMode(n, q)
    BY DEF Same, Fits, InMode

\* What the next state names is held there too.
PlainHeld == \A p \in plain : p \in Pixmaps /\ mem.pix[p].refs >= 1
HeldBacks == \A w \in Windows : buf[w].back # NoPix => buf[w].back \in Pixmaps /\ mem.pix[buf[w].back].refs >= 1
HeldDsts == \A w \in Windows : cmd[w].dst # NoPix => cmd[w].dst \in Pixmaps /\ mem.pix[cmd[w].dst].refs >= 1
AllHeld == PlainHeld /\ HeldBacks /\ HeldDsts

LEMMA AllHeldNow == IInv => AllHeld
    BY InUse DEF AllHeld, PlainHeld, HeldBacks, HeldDsts

LEMMA AllHeldNext ==
    ASSUME IInv'
    PROVE  /\ \A p \in plain' : p \in Pixmaps /\ mem'.pix[p].refs >= 1
           /\ \A w \in Windows : /\ buf'[w].back # NoPix => buf'[w].back \in Pixmaps /\ mem'.pix[buf'[w].back].refs >= 1
                                 /\ cmd'[w].dst # NoPix => cmd'[w].dst \in Pixmaps /\ mem'.pix[cmd'[w].dst].refs >= 1
<1>1. (IInv => AllHeld)'
    BY AllHeldNow, PTL
<1>. QED
    BY <1>1 DEF AllHeld, PlainHeld, HeldBacks, HeldDsts

\* Pixmaps of the server keep apart from others: those a window gets are new,
\* that of the screen, or its own.
LEMMA PlainKept ==
    ASSUME IInv, PlainFits, plain' \subseteq plain,
           \A q \in plain' : Same(mem, mem', q) \/ Fits(mem', q),
           \A w \in Windows : \A x \in Places(w)' :
               x \in {Root, NoPix} \/ x \in Places(w) \/ mem.pix[x].refs = 0
    PROVE  PlainFits'
<1>. SUFFICES ASSUME NEW q \in plain'
              PROVE  /\ Fits(mem', q) /\ q # Root
                     /\ \A w \in Windows : q \notin Places(w)'
    BY DEF PlainFits
<1>1. Fits(mem, q) /\ q # Root /\ \A w \in Windows : q \notin Places(w)
    BY DEF PlainFits
<1>2. q \in Pixmaps /\ mem.pix[q].refs >= 1 /\ q # NoPix
    BY InUse, NoPixOutside
<1>3. Fits(mem', q)
    BY <1>1, SameFits
<1>. QED
    BY <1>1, <1>2, <1>3

\* A window with whose pixmaps nothing happens, or only what its flip allows.
LEMMA WindowKept ==
    ASSUME IInv, NEW w \in Windows, WindowFits(w),
           win'[w] = win[w], cmd'[w] = cmd[w],
           buf'[w].front = buf[w].front, buf'[w].back = buf[w].back,
           buf'[w].name \in {buf[w].name, NoBo},
           buf[w].back # NoPix => Same(mem, mem', buf[w].back),
           win[w].alive /\ cmd[w] # NoCmd =>
               Same(mem, mem', cmd[w].dst) \/ InMode(mem', cmd[w].dst)
    PROVE  WindowFits(w)'
<1>. DEFINE b == buf[w].back
<1>1. b # NoPix => /\ mem'.pix[b].size = mem.pix[b].size
                   /\ Fits(mem, b) => Fits(mem', b)
                   /\ InMode(mem, b) => InMode(mem', b)
    BY SameFits DEF Same
<1>2. win[w].alive /\ cmd[w] # NoCmd => cmd[w].src = b /\ b # NoPix
    BY DEF WindowFits, IInv, Pairs
<1>3. win[w].alive /\ cmd[w] # NoCmd /\ InMode(mem, cmd[w].dst) => InMode(mem', cmd[w].dst)
    BY SameFits
<1>. QED
    BY <1>1, <1>2, <1>3 DEF WindowFits

\* A step that changes one pixmap, which no client draws into.
LEMMA TouchedFits ==
    ASSUME IInv, FitInv, ScanoutsFit', NEW p,
           \A q \in Pixmaps \ {p} : mem.pix[q].refs >= 1 => Same(mem, mem', q),
           \A w \in Windows : buf[w].back # NoPix => buf[w].back # p,
           p \in plain => Fits(mem', p),
           \A w \in Windows : win[w].alive /\ cmd[w] # NoCmd /\ cmd[w].dst = p => InMode(mem', p),
           UNCHANGED <<plain, win, cmd>>,
           \A w \in Windows : /\ buf'[w].front = buf[w].front /\ buf'[w].back = buf[w].back
                              /\ buf'[w].name \in {buf[w].name, NoBo}
    PROVE  FitInv'
<1>1. PlainFits'
    <2>1. \A q \in plain' : Same(mem, mem', q) \/ Fits(mem', q)
        BY InUse
    <2>2. \A w \in Windows : Places(w)' = Places(w)
        BY DEF Places
    <2>. QED
        BY <2>1, <2>2, PlainKept DEF FitInv
<1>2. ASSUME NEW w \in Windows
      PROVE  WindowFits(w)'
    <2>1. buf[w].back # NoPix => Same(mem, mem', buf[w].back)
        BY InUse
    <2>2. ASSUME win[w].alive, cmd[w] # NoCmd
          PROVE  Same(mem, mem', cmd[w].dst) \/ InMode(mem', cmd[w].dst)
        <3>1. cmd[w].dst \in Pixmaps /\ mem.pix[cmd[w].dst].refs >= 1
            BY <2>2, InUse DEF IInv, Pairs
        <3>. QED
            BY <2>2, <3>1
    <2>. QED
        BY <2>1, <2>2, WindowKept DEF FitInv
<1>. QED
    BY <1>1, <1>2 DEF FitInv

LEMMA ApartScanouts ==
    ASSUME FitInv, NEW p, Apart(mem, mem', p)
    PROVE  ScanoutsFit'
    BY DEF FitInv, ScanoutsFit, Apart

LEMMA SwappedBuffers ==
    ASSUME IInv, UNCHANGED buf \/ \E w \in Windows : buf' = Swapped(w)
    PROVE  \A w \in Windows : /\ buf'[w].front = buf[w].front /\ buf'[w].back = buf[w].back
                              /\ buf'[w].name \in {buf[w].name, NoBo}
    BY DEF Swapped, BufType, IInv, TypeOK

LEMMA NoFlipsPending ==
    ASSUME NoFlips
    PROVE  \A w \in Windows : cmd[w] = NoCmd
    BY DEF NoFlips

LEMMA ModifyPixmapHeaderFits == IInv /\ FitInv /\ ModifyPixmapHeader => FitInv'
<1>. SUFFICES ASSUME IInv, FitInv, ModifyPixmapHeader PROVE FitInv'
    OBVIOUS
<1>1. PICK p \in plain, s \in Sizes, data \in {"null", "foreign"} : mem' \in Modified(mem, p, s, data)
    BY DEF ModifyPixmapHeader
<1>2. Apart(mem, mem', p) /\ Fits(mem', p)
    BY <1>1, IInvSolvent, InUse, ModifiedApart
<1>3. \A w \in Windows : buf[w].back # p /\ cmd[w].dst # p
    BY <1>1 DEF FitInv, PlainFits, Places
<1>4. UNCHANGED <<plain, win, buf, cmd>>
    BY DEF ModifyPixmapHeader
<1>5. \A q \in Pixmaps \ {p} : Same(mem, mem', q)
    BY <1>2 DEF Apart
<1>. QED
    BY <1>2, <1>3, <1>4, <1>5, SwappedBuffers, ApartScanouts, TouchedFits

LEMMA RootWriteFits == IInv /\ FitInv /\ RootWrite => FitInv'
<1>. SUFFICES ASSUME IInv, FitInv, RootWrite PROVE FitInv'
    OBVIOUS
<1>1. Apart(mem, mem', Root)
    BY IInvSolvent, InUse, RootWrittenApart DEF RootWrite
<1>2. /\ UNCHANGED <<plain, win, buf, cmd>> /\ NoFlips
      /\ \A q \in Pixmaps \ {Root} : Same(mem, mem', q)
    BY <1>1 DEF RootWrite, Apart
<1>3. Root \notin plain
    BY DEF FitInv, PlainFits
<1>. QED
    BY <1>1, <1>2, <1>3, BacksElsewhere, SwappedBuffers, NoFlipsPending, ApartScanouts, TouchedFits

LEMMA SwapFlipRefusedFits ==
    ASSUME IInv, FitInv, NEW w \in Windows, SwapFlipRefused(w)
    PROVE  FitInv'
<1>1. Apart(mem, BlitDone(mem, w), Root)
    BY IInvSolvent, InUse, RootWrittenApart, SizesApart DEF BlitDone, Only
<1>2. /\ UNCHANGED <<plain, win, cmd>> /\ NoFlips /\ mem' = BlitDone(mem, w) /\ buf' = Swapped(w)
    BY DEF SwapFlipRefused
<1>3. /\ Root \notin plain
      /\ \A q \in Pixmaps \ {Root} : Same(mem, mem', q)
    BY <1>1, <1>2 DEF FitInv, PlainFits, Apart
<1>. QED
    BY <1>1, <1>2, <1>3, BacksElsewhere, SwappedBuffers, NoFlipsPending, ApartScanouts, TouchedFits

\* The hypothesis of the theorem: a resized screen, of which the root bo has not
\* the size of the mode, has one window and waits for its flip.
Calm == "resize" \in Env => NumWindow = 1 /\ "resize_flip" \notin Env

LEMMA ResizeFits == Calm /\ IInv /\ FitInv /\ Resize => FitInv'
<1>. SUFFICES ASSUME Calm, IInv, FitInv, Resize PROVE FitInv'
    OBVIOUS
<1>0. /\ Solvent(mem) /\ mem.pix[Root].refs >= 1 /\ Root \in Pixmaps
      /\ "resize" \in Env /\ NoFlips /\ UNCHANGED <<plain, win, buf, cmd>>
    BY IInvSolvent, InUse, NoPixOutside DEF Resize, Calm
<1>1. PICK s \in Sizes :
         \/ \E n \in NewBo(mem, s) :
                 \/ n.bo = NoBo /\ mem' = n.m
                 \/ /\ n.bo # NoBo
                    /\ \E ok \in Maps([n.m EXCEPT !.mapped = FALSE]) :
                         mem' \in Modified([Unreferenced(n.m, mem.scanout)
                                              EXCEPT !.scanout = n.bo, !.mapped = ok],
                                           Root, s, IF ok THEN "root" ELSE "null")
         \/ \E ok \in Maps(mem) :
                mem' \in Modified([mem EXCEPT !.mapped = ok], Root, s, IF ok THEN "root" ELSE "null")
    BY DEF Resize
<1>. DEFINE Goal == /\ mem'.slot = mem.slot /\ mem'.size[mem.slot] = mem.size[mem.slot]
                    /\ \A q \in Pixmaps \ {Root} : Same(mem, mem', q)
<1>2. Goal
    <2>1. ASSUME NEW n \in NewBo(mem, s), n.bo = NoBo, mem' = n.m
          PROVE  Goal
        <3>1. /\ n.m.pix = mem.pix /\ n.m.slot = mem.slot /\ mem.slot \in Bos
              /\ mem.refs[mem.slot] >= 1
              /\ \A c \in Bos : mem.refs[c] >= 1 => n.m.size[c] = mem.size[c]
            BY <1>0, <2>1, NewBoSound, NewBoSizes, SolventRefs DEF Solvent
        <3>2. \A q \in Pixmaps : mem.pix[q].bo # NoBo =>
                  mem.pix[q].bo \in Bos /\ mem.refs[mem.pix[q].bo] >= 1
            BY <1>0, PixmapRefs
        <3>. QED
            BY <2>1, <3>1, <3>2 DEF Same
    <2>2. ASSUME NEW x, Balanced(mem, x), x.pix = mem.pix, x.slot = mem.slot,
                 x.size[mem.slot] = mem.size[mem.slot], \A q \in Pixmaps : Same(mem, x, q),
                 NEW data, mem' \in Modified(x, Root, s, data)
          PROVE  Goal
        <3>1. Solvent(x) /\ x.pix[Root].refs >= 1
            BY <1>0, <2>2, BalancedSolvent
        <3>2. Apart(x, mem', Root)
            BY <1>0, <2>2, <3>1, ModifiedApart
        <3>3. \A q \in Pixmaps \ {Root} : Same(mem, mem', q)
            BY <2>2, <3>2, SameTrans DEF Apart
        <3>. QED
            BY <2>2, <3>2, <3>3 DEF Apart
    <2>3. ASSUME NEW n \in NewBo(mem, s), n.bo # NoBo,
                 NEW ok \in Maps([n.m EXCEPT !.mapped = FALSE]),
                 mem' \in Modified(WithRoot(Unreferenced(n.m, mem.scanout), n.bo, ok),
                                   Root, s, IF ok THEN "root" ELSE "null")
          PROVE  Goal
        <3>1. ok \in BOOLEAN
            BY <2>3, MapsType
        <3>. DEFINE x == WithRoot(Unreferenced(n.m, mem.scanout), n.bo, ok)
        <3>2. /\ Balanced(mem, x) /\ x.pix = mem.pix /\ x.slot = mem.slot
              /\ x.size[mem.slot] = mem.size[mem.slot] /\ \A q \in Pixmaps : Same(mem, x, q)
            BY <1>0, <2>3, <3>1, NewRootBalanced, NewRootSame
        <3>. HIDE DEF x, Goal
        <3>3. mem' \in Modified(x, Root, s, IF ok THEN "root" ELSE "null")
            BY <2>3 DEF x
        <3>. QED
            BY <2>2, <3>2, <3>3
    <2>4. ASSUME NEW ok \in Maps(mem),
                 mem' \in Modified(WithMapped(mem, ok), Root, s, IF ok THEN "root" ELSE "null")
          PROVE  Goal
        <3>1. ok \in BOOLEAN
            BY <2>4, MapsType
        <3>. DEFINE x == WithMapped(mem, ok)
        <3>2. Touched(mem, x, Root) /\ Apart(mem, x, NoPix) /\ x.pix = mem.pix
            BY <1>0, <3>1, WithMappedTouched, WithMappedApart
        <3>. HIDE DEF x, Goal
        <3>3. mem' \in Modified(x, Root, s, IF ok THEN "root" ELSE "null")
            BY <2>4 DEF x
        <3>4. /\ Balanced(mem, x) /\ x.slot = mem.slot
              /\ x.size[mem.slot] = mem.size[mem.slot] /\ \A q \in Pixmaps : Same(mem, x, q)
            BY <3>2, NoPixOutside DEF Touched, Apart
        <3>. QED
            BY <2>2, <3>2, <3>3, <3>4
    <2>. HIDE DEF Goal
    <2>. QED
        BY <1>1, <2>1, <2>3, <2>4 DEF WithRoot, WithMapped
<1>3. ScanoutsFit'
    BY <1>0, <1>2 DEF FitInv, ScanoutsFit
<1>4. Root \notin plain
    BY DEF FitInv, PlainFits
<1>. QED
    BY <1>0, <1>2, <1>3, <1>4, BacksElsewhere, SwappedBuffers, NoFlipsPending, TouchedFits

LEMMA SwapBlitFits ==
    ASSUME Calm, IInv, FitInv, NEW w \in Windows, SwapBlit(w)
    PROVE  FitInv'
<1>. DEFINE f  == buf[w].front
            m1 == Referenced(mem, mem.scanout)
<1>1. /\ mem' = Backed(m1, f, mem.scanout) /\ buf' = Swapped(w) /\ UNCHANGED <<plain, win, cmd>>
      /\ cmd[w] = NoCmd /\ buf[w].back # NoPix
    BY DEF SwapBlit, SwapReady, MayAsk, HasBuffers, FrontOf
<1>2. Sound(mem) /\ mem.scanout \in Bos /\ mem.refs[mem.scanout] >= 1
    BY IInvSolvent, SolventRefs
<1>3. f \in Pixmaps /\ mem.pix[f].refs >= 1
    <2>1. f # NoPix
        BY <1>1 DEF IInv, Pairs
    <2>. QED
        BY <2>1, InUse
<1>4. /\ Sound(m1) /\ m1.pix = mem.pix /\ m1.size = mem.size /\ m1.scanout = mem.scanout
      /\ m1.slot = mem.slot
    BY <1>2, ReferencedSound
<1>. HIDE DEF m1
<1>5. /\ Only(m1, mem', f) /\ mem'.pix[f].bo = mem.scanout
      /\ mem'.size = m1.size /\ mem'.scanout = m1.scanout /\ mem'.slot = m1.slot
    BY <1>1, <1>2, <1>3, <1>4, BackedSound
<1>6. Apart(mem, mem', f)
    BY <1>4, <1>5, SizesApart DEF Only
<1>7. ASSUME NEW v \in Windows, cmd[v] # NoCmd
      PROVE  InMode(mem', f)
    <2>1. v # w
        BY <1>1, <1>7
    <2>2. "resize" \notin Env
        BY <2>1 DEF Calm, Windows
    <2>. QED
        BY <1>4, <1>5, <2>2 DEF FitInv, ScanoutsFit, InMode
<1>8. /\ f \notin plain
      /\ \A q \in Pixmaps \ {f} : Same(mem, mem', q)
      /\ \A v \in Windows : buf[v].back # NoPix => buf[v].back # f
    BY <1>6, BacksElsewhere DEF FitInv, PlainFits, Places, Apart
<1>. QED
    BY <1>1, <1>6, <1>7, <1>8, SwappedBuffers, ApartScanouts, TouchedFits

LEMMA SwapBlitReturnFits == IInv /\ FitInv /\ SwapBlitReturn => FitInv'
<1>. SUFFICES ASSUME IInv, FitInv, SwapBlitReturn PROVE FitInv'
    OBVIOUS
<1>. DEFINE old == call.old
            m1 == Unreferenced(mem, old)
<1>1. mem' = BlitDone(m1, call.win) /\ UNCHANGED <<plain, win, buf, cmd>> /\ NoFlips
    BY DEF SwapBlitReturn
<1>2. old \in Bos \cup {NoBo} /\ Solvent(mem) /\ Sound(mem) /\ mem.refs \in [Bos -> Nat]
    BY IInvSolvent, SolventRefs DEF IInv, TypeOK
<1>3. ASSUME old # NoBo
      PROVE  mem.refs[old] >= 1 /\ (Besides(mem, NoPix, old) => mem.refs[old] >= 2)
    <2>1. old \in Bos /\ Spare(mem, old) = 1
        BY <1>2, <1>3 DEF IInv, BosCounted, One
    <2>2. Users(mem, old) \in Nat
        BY UsersType
    <2>3. mem.refs[old] = 1 + Users(mem, old)
        BY <1>2, <2>1, <2>2 DEF Spare
    <2>4. Besides(mem, NoPix, old) => Users(mem, old) >= 1
        BY UsersType DEF Besides
    <2>. QED
        BY <2>2, <2>3, <2>4
<1>4. /\ Apart(mem, m1, NoPix) /\ Sound(m1) /\ m1.pix = mem.pix
      /\ \A c \in Bos : Spare(m1, c) = Spare(mem, c) - One(c = old)
    BY <1>2, <1>3, UnreferencedApart, UnreferencedSound
<1>. HIDE DEF m1
<1>5. \A c \in Bos : Spare(m1, c) = 0
    BY <1>4 DEF IInv, BosCounted, One
<1>6. Apart(m1, mem', Root)
    <2>1. Solvent(m1) /\ m1.pix[Root].refs >= 1
        BY <1>4, <1>5, InUse DEF Solvent
    <2>. QED
        BY <1>1, <2>1, RootWrittenApart, SizesApart DEF BlitDone, Only
<1>7. Apart(mem, mem', Root)
    <2>1. Apart(mem, m1, Root)
        BY <1>4, NoPixOutside DEF Apart
    <2>. QED
        BY <1>6, <2>1, ApartTrans
<1>8. /\ Root \notin plain
      /\ \A q \in Pixmaps \ {Root} : Same(mem, mem', q)
    BY <1>7 DEF FitInv, PlainFits, Apart
<1>. QED
    BY <1>1, <1>7, <1>8, BacksElsewhere, SwappedBuffers, NoFlipsPending, ApartScanouts, TouchedFits

LEMMA SwapNothingFits ==
    ASSUME IInv, FitInv, NEW w \in Windows, SwapNothing(w)
    PROVE  FitInv'
<1>1. UNCHANGED <<mem, plain, win, buf, cmd>>
    BY DEF SwapNothing
<1>. QED
    BY <1>1 DEF FitInv, ScanoutsFit, PlainFits, WindowFits, Places, Fits, InMode

LEMMA ReuseBuffersFits ==
    ASSUME IInv, FitInv, NEW w \in Windows, ReuseBuffers(w)
    PROVE  FitInv'
<1>1. /\ UNCHANGED <<mem, plain, win, cmd>> /\ buf' = NewName(w)
      /\ cmd[w] = NoCmd /\ ~win[w].stale /\ buf[w].back # NoPix
    BY DEF ReuseBuffers, MayAsk, HasBuffers
<1>2. buf \in [Windows -> BufType]
    BY DEF IInv, TypeOK
<1>3. \A v \in Windows : /\ buf'[v].front = buf[v].front /\ buf'[v].back = buf[v].back
                         /\ v # w => buf'[v].name = buf[v].name
    BY <1>1, <1>2 DEF NewName, BufType
<1>4. ScanoutsFit' /\ PlainFits'
    BY <1>1, <1>3 DEF FitInv, ScanoutsFit, PlainFits, Places, Fits
<1>5. ASSUME NEW v \in Windows
      PROVE  WindowFits(v)'
    BY <1>1, <1>3 DEF FitInv, WindowFits, Fits, InMode
<1>. QED
    BY <1>4, <1>5 DEF FitInv

LEMMA CreatePixmapFits == IInv /\ FitInv /\ CreatePixmap => FitInv'
<1>. SUFFICES ASSUME IInv, FitInv, CreatePixmap PROVE FitInv'
    OBVIOUS
<1>1. PICK p \in Unused(mem), s \in Sizes \cup {Empty} :
        mem' \in Created(mem, p, s) /\ plain' = plain \cup {p}
    BY DEF CreatePixmap
<1>2. UNCHANGED <<win, buf, cmd>>
    BY DEF CreatePixmap
<1>3. p \in Pixmaps /\ mem.pix[p].refs = 0
    BY <1>1 DEF Unused, First
<1>4. Apart(mem, mem', p) /\ Fits(mem', p)
    BY <1>1, <1>3, IInvSolvent, CreatedApart
<1>5. ASSUME NEW w \in Windows
      PROVE  /\ p # Root /\ p \notin Places(w)
             /\ buf[w].back # NoPix => Same(mem, mem', buf[w].back)
             /\ win[w].alive /\ cmd[w] # NoCmd => Same(mem, mem', cmd[w].dst)
    <2>1. p # Root /\ p \notin Places(w)
        BY <1>3, InUse, NoPixOutside DEF Places
    <2>2. cmd[w] # NoCmd => cmd[w].dst \in Pixmaps
        BY InUse DEF IInv, Pairs
    <2>3. buf[w].back # NoPix => buf[w].back \in Pixmaps
        BY InUse
    <2>. QED
        BY <1>4, <2>1, <2>2, <2>3 DEF Apart, Places
<1>6. PlainFits'
    <2>1. p # Root
        BY <1>3, InUse
    <2>2. ASSUME NEW q \in plain
          PROVE  Fits(mem', q)
        <3>1. q \in Pixmaps \ {p} /\ Fits(mem, q)
            BY <1>3, InUse DEF FitInv, PlainFits
        <3>. QED
            BY <1>4, <3>1, SameFits DEF Apart
    <2>3. \A w \in Windows : Places(w)' = Places(w)
        BY <1>2 DEF Places
    <2>. QED
        BY <1>1, <1>4, <1>5, <2>1, <2>2, <2>3 DEF FitInv, PlainFits
<1>7. \A w \in Windows : WindowFits(w)'
    BY <1>2, <1>5, WindowKept DEF FitInv
<1>. QED
    BY <1>4, <1>6, <1>7, ApartScanouts DEF FitInv

\* A step that only gives up pixmaps, of others than those windows.
LEMMA SurvivesKept ==
    ASSUME IInv, IInv', FitInv, Survives(mem, mem'), NEW w \in Windows,
           win'[w] = win[w], cmd'[w] = cmd[w], buf'[w] = buf[w]
    PROVE  WindowFits(w)'
<1>1. buf[w].back # NoPix => Same(mem, mem', buf[w].back)
    BY AllHeldNext DEF Survives
<1>2. cmd[w] # NoCmd => Same(mem, mem', cmd[w].dst)
    BY AllHeldNext DEF Survives, IInv, Pairs
<1>. QED
    BY <1>1, <1>2, WindowKept DEF FitInv

LEMMA SurvivesScanouts ==
    ASSUME FitInv, Survives(mem, mem')
    PROVE  ScanoutsFit'
    BY DEF FitInv, ScanoutsFit, Survives

LEMMA DestroyPixmapFits == IInv /\ IInv' /\ FitInv /\ DestroyPixmap => FitInv'
<1>. SUFFICES ASSUME IInv, IInv', FitInv, DestroyPixmap PROVE FitInv'
    OBVIOUS
<1>1. PICK p \in plain : mem' = Destroyed(mem, p) /\ plain' = plain \ {p}
    BY DEF DestroyPixmap
<1>2. UNCHANGED <<win, buf, cmd>>
    BY DEF DestroyPixmap
<1>3. p \in Pixmaps /\ mem.pix[p].refs >= 1
    BY <1>1, InUse
<1>4. Survives(mem, mem')
    BY <1>1, <1>3, IInvSolvent, DestroyedSurvives
<1>5. PlainFits'
    <2>1. \A q \in plain' : Same(mem, mem', q)
        BY <1>4, AllHeldNext DEF Survives
    <2>2. \A w \in Windows : Places(w)' = Places(w)
        BY <1>2 DEF Places
    <2>. QED
        BY <1>1, <2>1, <2>2, PlainKept DEF FitInv
<1>. QED
    BY <1>2, <1>4, <1>5, SurvivesKept, SurvivesScanouts DEF FitInv

\* A window whose pixmap is another has buffers that are of no use any more.
LEMMA WindowStale ==
    ASSUME IInv, NEW w \in Windows, WindowFits(w),
           win'[w].stale, win'[w].alive = win[w].alive, cmd'[w] = cmd[w], buf'[w] = buf[w],
           buf[w].back # NoPix => Same(mem, mem', buf[w].back)
    PROVE  WindowFits(w)'
<1>. DEFINE b == buf[w].back
<1>1. b # NoPix => /\ Fits(mem, b) => Fits(mem', b)
                   /\ InMode(mem, b) => InMode(mem', b)
    BY SameFits
<1>2. win[w].alive /\ cmd[w] # NoCmd => cmd[w].src = b /\ b # NoPix
    BY DEF WindowFits, IInv, Pairs
<1>. QED
    BY <1>1, <1>2 DEF WindowFits

LEMMA RedirectFits ==
    ASSUME IInv, IInv', FitInv, NEW w \in Windows, Redirect(w)
    PROVE  FitInv'
<1>. DEFINE o == OwnPixmap(w)
<1>1. UNCHANGED <<plain, buf, cmd>> /\ win \in [Windows -> WinType]
    BY DEF Redirect, IInv, TypeOK
<1>2. o \in Pixmaps \cup {NoPix} /\ (o # NoPix => mem.pix[o].refs >= 1)
    BY OwnInUse
\* Whatever pixmap the window gets:
<1>3. ASSUME NEW p, p = Root \/ (p \in Pixmaps /\ mem.pix[p].refs = 0),
             ScanoutsFit',
             \A y \in Pixmaps : mem.pix[y].refs >= 1 /\ mem'.pix[y].refs >= 1 => Same(mem, mem', y),
             win'[w].pix = p, win'[w].stale, win'[w].alive = win[w].alive,
             \A v \in Windows \ {w} : win'[v] = win[v]
      PROVE  FitInv'
    <2>1. \A q \in plain' : Same(mem, mem', q)
        BY <1>1, <1>3, InUse, AllHeldNext
    <2>2. ASSUME NEW v \in Windows
          PROVE  \A x \in Places(v)' : x \in {Root, NoPix} \/ x \in Places(v) \/ mem.pix[x].refs = 0
        BY <1>1, <1>3 DEF Places
    <2>3. PlainFits'
        BY <1>1, <2>1, <2>2, PlainKept DEF FitInv
    <2>4. ASSUME NEW v \in Windows
          PROVE  /\ buf[v].back # NoPix => Same(mem, mem', buf[v].back)
                 /\ cmd[v] # NoCmd => Same(mem, mem', cmd[v].dst)
        <3>1. cmd[v] # NoCmd => cmd[v].dst # NoPix
            BY DEF IInv, Pairs
        <3>. QED
            BY <1>1, <1>3, <3>1, InUse, AllHeldNext
    <2>5. ASSUME NEW v \in Windows
          PROVE  WindowFits(v)'
        <3>1. CASE v = w
            BY <1>1, <1>3, <2>4, <3>1, WindowStale DEF FitInv
        <3>2. CASE v # w
            BY <1>1, <1>3, <2>4, <3>2, WindowKept DEF FitInv
        <3>. QED
            BY <3>1, <3>2
    <2>. QED
        BY <1>3, <2>3, <2>5 DEF FitInv
<1>4. ASSUME NEW p \in Unused(mem), NEW s \in Sizes, NEW m \in Created(mem, p, s),
             mem' = Destroyed(m, o),
             win' = [win EXCEPT ![w] = [@ EXCEPT !.size = s, !.pix = p, !.stale = TRUE]]
      PROVE  FitInv'
    <2>1. p \in Pixmaps /\ mem.pix[p].refs = 0
        BY <1>4 DEF Unused, First
    <2>2. Balanced(mem, m) /\ Only(mem, m, p) /\ m.pix[p].refs = 1 /\ Apart(mem, m, p)
        BY <1>4, <2>1, IInvSolvent, CreatedOnly, CreatedApart
    <2>3. Solvent(m) /\ (o # NoPix => m.pix[o].refs >= 1)
        BY <1>2, <2>1, <2>2, IInvSolvent, BalancedSolvent DEF Only
    <2>. HIDE DEF o
    <2>4. Survives(m, mem')
        BY <1>2, <1>4, <2>3, DestroyedSurvives
    <2>5. \A y \in Pixmaps : mem.pix[y].refs >= 1 /\ mem'.pix[y].refs >= 1 => Same(mem, mem', y)
        BY <2>1, <2>2, <2>4, SameTrans DEF Apart, Survives
    <2>6. ScanoutsFit'
        BY <2>2, <2>4 DEF FitInv, ScanoutsFit, Apart, Survives
    <2>7. /\ win'[w].pix = p /\ win'[w].stale /\ win'[w].alive = win[w].alive
          /\ \A v \in Windows \ {w} : win'[v] = win[v]
        BY <1>1, <1>4 DEF WinType
    <2>. QED
        BY <1>3, <2>1, <2>5, <2>6, <2>7
<1>5. ASSUME win[w].pix # Root, mem' = Destroyed(mem, win[w].pix),
             win' = [win EXCEPT ![w] = [@ EXCEPT !.pix = Root, !.stale = TRUE]]
      PROVE  FitInv'
    <2>1. o = win[w].pix
        BY <1>5 DEF OwnPixmap
    <2>. HIDE DEF o
    <2>2. Survives(mem, mem')
        BY <1>2, <1>5, <2>1, IInvSolvent, DestroyedSurvives
    <2>3. /\ win'[w].pix = Root /\ win'[w].stale /\ win'[w].alive = win[w].alive
          /\ \A v \in Windows \ {w} : win'[v] = win[v]
        BY <1>1, <1>5 DEF WinType
    <2>4. \A y \in Pixmaps : mem.pix[y].refs >= 1 /\ mem'.pix[y].refs >= 1 => Same(mem, mem', y)
        BY <2>2 DEF Survives
    <2>. QED
        BY <1>3, <2>2, <2>3, <2>4, SurvivesScanouts
<1>. QED
    BY <1>4, <1>5 DEF Redirect, o

\* Both buffers of a window go.
LEMMA BuffersSurvive ==
    ASSUME IInv, NEW w \in Windows, NEW m, Solvent(m),
           \A x \in Pixmaps : m.pix[x].refs >= mem.pix[x].refs
    PROVE  Survives(m, BuffersDestroyed(m, w))
<1>. DEFINE f == buf[w].front
            b == buf[w].back
<1>1. f \in Pixmaps \cup {NoPix} /\ b \in Pixmaps \cup {NoPix}
    BY DEF IInv, TypeOK, BufType
<1>2. /\ f # NoPix => mem.pix[f].refs >= 1
      /\ b # NoPix => mem.pix[b].refs >= 1 /\ b # f
      /\ \A x \in Pixmaps : mem.pix[x].refs \in Nat
    BY InUse, BacksElsewhere
<1>3. \A x \in Pixmaps : m.pix[x].refs \in Nat
    BY PixmapRefs
<1>. HIDE DEF f, b
<1>4. /\ f # NoPix => m.pix[f].refs >= 1
      /\ b # NoPix => m.pix[b].refs >= 1 + One(b = f)
    BY <1>1, <1>2, <1>3 DEF One
<1>5. BuffersDestroyed(m, w) = Destroyed(Destroyed(m, f), b)
    BY DEF BuffersDestroyed, f, b
<1>6. Survives(m, Destroyed(Destroyed(m, f), b))
    BY <1>1, <1>4, DestroyedTwiceSurvives
<1>. QED
    BY <1>5, <1>6

LEMMA DestroyWindowFits ==
    ASSUME IInv, IInv', FitInv, NEW w \in Windows, DestroyWindow(w)
    PROVE  FitInv'
<1>. DEFINE n == BuffersDestroyed(mem, w)
            o == OwnPixmap(w)
            f == buf[w].front
            b == buf[w].back
<1>1. /\ mem' = Destroyed(n, o) /\ buf' = [buf EXCEPT ![w] = NoBuf]
      /\ win' = [win EXCEPT ![w] = [@ EXCEPT !.alive = FALSE, !.pix = Root]]
      /\ UNCHANGED <<plain, cmd>>
    BY DEF DestroyWindow
<1>2. /\ o \in Pixmaps \cup {NoPix} /\ (o # NoPix => mem.pix[o].refs >= 1 + One(o = f) /\ o # b)
      /\ \A x \in Pixmaps : mem.pix[x].refs \in Nat
    BY OwnInUse, OwnHeldBesides, InUse
<1>3. /\ Survives(mem, n) /\ Solvent(n)
      /\ \A x \in Pixmaps : n.pix[x].refs = mem.pix[x].refs - One(x = f) - One(x = b)
    <2>1. \A x \in Pixmaps : mem.pix[x].refs >= mem.pix[x].refs
        BY <1>2
    <2>2. /\ Balanced(mem, n) /\ Survives(mem, n)
          /\ \A x \in Pixmaps : n.pix[x].refs = mem.pix[x].refs - One(x = f) - One(x = b)
        BY <2>1, IInvSolvent, BuffersReleased, BuffersSurvive
    <2>. HIDE DEF n
    <2>. QED
        BY <2>2, IInvSolvent, BalancedSolvent
<1>. HIDE DEF n, o
<1>4. o # NoPix => n.pix[o].refs >= 1
    <2>1. ASSUME o # NoPix
          PROVE  n.pix[o].refs >= 1
        <3>1. One(o = b) = 0 /\ One(o = f) \in Nat /\ o \in Pixmaps
            BY <1>2, <2>1 DEF One
        <3>. QED
            BY <1>2, <1>3, <2>1, <3>1
    <2>. QED
        BY <2>1
<1>5. Survives(mem, mem')
    <2>1. Survives(n, mem')
        BY <1>1, <1>2, <1>3, <1>4, DestroyedSurvives
    <2>. QED
        BY <1>3, <2>1, SurvivesTrans
<1>6. buf \in [Windows -> BufType] /\ win \in [Windows -> WinType]
    BY DEF IInv, TypeOK
<1>7. /\ buf'[w] = NoBuf /\ win'[w].pix = Root /\ win'[w].alive = FALSE
      /\ \A v \in Windows \ {w} : buf'[v] = buf[v] /\ win'[v] = win[v]
    BY <1>1, <1>6 DEF WinType
<1>8. PlainFits'
    <2>1. \A q \in plain' : Same(mem, mem', q)
        BY <1>5, AllHeldNext DEF Survives
    <2>2. ASSUME NEW v \in Windows
          PROVE  \A x \in Places(v)' : x \in {Root, NoPix} \/ x \in Places(v) \/ mem.pix[x].refs = 0
        BY <1>1, <1>7 DEF Places, NoBuf
    <2>. QED
        BY <1>1, <2>1, <2>2, PlainKept DEF FitInv
<1>9. ASSUME NEW v \in Windows
      PROVE  WindowFits(v)'
    <2>1. CASE v = w
        BY <1>7, <2>1 DEF WindowFits, NoBuf
    <2>2. CASE v # w
        BY <1>1, <1>5, <1>7, <2>2, SurvivesKept
    <2>. QED
        BY <2>1, <2>2
<1>. QED
    BY <1>5, <1>8, <1>9, SurvivesScanouts DEF FitInv

LEMMA CreateBuffersFits ==
    ASSUME IInv, IInv', FitInv, NEW w \in Windows, CreateBuffers(w)
    PROVE  FitInv'
<1>. DEFINE f == win[w].pix
            h == Held(mem, f)
<1>1. PICK b \in Unused(mem) : \E r \in Requested(w, f, b) :
         /\ mem' = r.mem
         /\ buf' = [buf EXCEPT ![w] = r.buf]
         /\ win' = [win EXCEPT ![w].stale = r.stale]
    BY DEF CreateBuffers
<1>2. PICK r \in Requested(w, f, b) :
         /\ mem' = r.mem
         /\ buf' = [buf EXCEPT ![w] = r.buf]
         /\ win' = [win EXCEPT ![w].stale = r.stale]
    BY <1>1
<1>3. UNCHANGED <<plain, cmd>> /\ cmd[w] = NoCmd /\ win[w].alive
    BY DEF CreateBuffers, MayAsk
<1>. DEFINE Kept(m, c) == r = [mem |-> m, buf |-> buf[w], stale |-> win[w].stale, crashed |-> c]
<1>4. PICK m \in Created(h, b, win[w].size) :
         \/ Kept(m, TRUE)
         \/ "get_name" \in Failing /\ (Kept(h, FALSE) \/ Kept(Destroyed(m, f), FALSE))
         \/ r = [mem |-> BuffersDestroyed(m, w), stale |-> FALSE, crashed |-> FALSE,
                 buf |-> [front |-> f, back |-> b, name |-> m.pix[b].bo]]
    BY <1>2, RequestedCases
<1>5. /\ b \in Pixmaps /\ mem.pix[b].refs = 0 /\ f \in Pixmaps /\ mem.pix[f].refs >= 1
      /\ win[w].size \in Sizes /\ \A x \in Pixmaps : mem.pix[x].refs \in Nat
    BY InUse DEF Unused, First, IInv, TypeOK, WinType
<1>6. /\ Balanced(mem, h) /\ Only(mem, h, f) /\ h.pix[f].refs = mem.pix[f].refs + 1
      /\ h.scanout = mem.scanout /\ h.slot = mem.slot /\ h.size = mem.size
      /\ \A x \in Pixmaps : Same(mem, h, x)
    BY <1>5, IInvSolvent, HeldOnly, HeldSame
<1>. HIDE DEF h
<1>7. Solvent(h) /\ b # f /\ h.pix[b].refs = 0 /\ Apart(mem, h, b)
    BY <1>5, <1>6, IInvSolvent, BalancedSolvent DEF Only, Apart
<1>8. /\ Balanced(h, m) /\ Only(h, m, b) /\ m.pix[b].refs = 1
      /\ Apart(mem, m, b) /\ Fits(m, b) /\ m.pix[b].size = win[w].size
    BY <1>4, <1>5, <1>7, CreatedOnly, CreatedApart, ApartTrans
<1>9. Solvent(m)
    BY <1>7, <1>8, BalancedSolvent
<1>10. \A x \in Pixmaps : /\ m.pix[x].refs = mem.pix[x].refs + One(x = f) + One(x = b)
                          /\ One(x = f) \in Nat /\ One(x = b) \in Nat
    BY <1>5, <1>6, <1>7, <1>8 DEF Only, One
<1>11. buf \in [Windows -> BufType] /\ win \in [Windows -> WinType]
    BY DEF IInv, TypeOK
<1>12. b \notin plain /\ \A v \in Windows : b \notin Places(v)
    BY <1>5, InUse, NoPixOutside DEF Places
\* Nothing is given to the client:
<1>13. ASSUME NEW n, NEW c, Kept(n, c),
              n.scanout = mem.scanout, n.size[mem.scanout] = mem.size[mem.scanout],
              n.slot = mem.slot, n.size[mem.slot] = mem.size[mem.slot],
              \A x \in Pixmaps \ {b} : mem.pix[x].refs >= 1 => Same(mem, n, x)
       PROVE  FitInv'
    <2>1. mem' = n /\ buf' = buf /\ win' = win
        BY <1>2, <1>11, <1>13 DEF WinType
    <2>2. ScanoutsFit'
        BY <1>13, <2>1 DEF FitInv, ScanoutsFit
    <2>3. \A v \in Windows : buf[v].back # b /\ cmd[v].dst # b
        BY <1>12 DEF Places
    <2>. QED
        BY <1>3, <1>12, <1>13, <2>1, <2>2, <2>3, TouchedFits
<1>14. CASE Kept(m, TRUE)
    <2>. HIDE DEF Kept
    <2>. QED
        BY <1>8, <1>13, <1>14 DEF Apart
<1>15. CASE Kept(h, FALSE)
    <2>. HIDE DEF Kept
    <2>. QED
        BY <1>6, <1>13, <1>15
<1>16. CASE Kept(Destroyed(m, f), FALSE)
    <2>. DEFINE n == Destroyed(m, f)
    <2>1. m.pix[f].refs >= 1 /\ f \in Pixmaps \cup {NoPix}
        BY <1>5, <1>10
    <2>2. Released(m, n, f) /\ Survives(m, n)
        BY <1>9, <2>1, DestroyedReleased, DestroyedSurvives
    <2>. HIDE DEF n, Kept
    <2>3. ASSUME NEW x \in Pixmaps \ {b}, mem.pix[x].refs >= 1
          PROVE  Same(mem, n, x)
        <3>1. n.pix[x].refs >= 1
            BY <1>5, <1>10, <2>2, <2>3 DEF Released, One
        <3>. QED
            BY <1>8, <2>2, <3>1, SameTrans DEF Apart, Survives
    <2>. QED
        BY <1>8, <1>13, <1>16, <2>2, <2>3 DEF Apart, Survives, n
<1>17. CASE r = [mem |-> BuffersDestroyed(m, w), stale |-> FALSE, crashed |-> FALSE,
                 buf |-> [front |-> f, back |-> b, name |-> m.pix[b].bo]]
    <2>. DEFINE new == [front |-> f, back |-> b, name |-> m.pix[b].bo]
    <2>1. /\ mem' = BuffersDestroyed(m, w) /\ buf' = [buf EXCEPT ![w] = new]
          /\ win' = [win EXCEPT ![w].stale = FALSE]
        BY <1>2, <1>17
    <2>2. Survives(m, mem')
        <3>1. \A x \in Pixmaps : m.pix[x].refs >= mem.pix[x].refs
            BY <1>5, <1>10
        <3>. QED
            BY <1>9, <2>1, <3>1, BuffersSurvive
    <2>3. ASSUME NEW x \in Pixmaps, x # b, mem'.pix[x].refs >= 1
          PROVE  Same(mem, mem', x)
        BY <1>8, <2>2, <2>3, SameTrans DEF Apart, Survives
    <2>4. /\ buf'[w].front = f /\ buf'[w].back = b
          /\ \A v \in Windows \ {w} : buf'[v] = buf[v]
        BY <1>11, <2>1
    <2>5. /\ win'[w].pix = f /\ win'[w].size = win[w].size /\ win'[w].alive
          /\ \A v \in Windows \ {w} : win'[v] = win[v]
        BY <1>3, <1>11, <2>1 DEF WinType
    <2>6. ScanoutsFit'
        BY <1>8, <2>2 DEF FitInv, ScanoutsFit, Apart, Survives
    <2>7. PlainFits'
        <3>1. \A q \in plain' : Same(mem, mem', q)
            BY <1>3, <1>12, <2>3, AllHeldNext
        <3>2. ASSUME NEW v \in Windows
              PROVE  \A x \in Places(v)' : x \in {Root, NoPix} \/ x \in Places(v) \/ mem.pix[x].refs = 0
            BY <1>3, <1>5, <2>4, <2>5 DEF Places
        <3>. QED
            BY <1>3, <3>1, <3>2, PlainKept DEF FitInv
    <2>8. WindowFits(w)'
        <3>1. b # NoPix /\ mem'.pix[b].refs >= 1
            BY <1>5, <2>4, NoPixOutside, AllHeldNext
        <3>2. Same(m, mem', b)
            BY <1>5, <2>2, <3>1 DEF Survives
        <3>3. Fits(mem', b) /\ mem'.pix[b].size = win[w].size
            BY <1>8, <3>2, SameFits DEF Same
        <3>. QED
            BY <1>3, <2>4, <2>5, <3>3 DEF WindowFits
    <2>9. ASSUME NEW v \in Windows \ {w}
          PROVE  WindowFits(v)'
        <3>1. buf[v].back # b /\ cmd[v].dst # b
            BY <1>12 DEF Places
        <3>2. buf[v].back # NoPix => Same(mem, mem', buf[v].back)
            BY <2>3, <2>4, <3>1, AllHeldNext
        <3>3. cmd[v] # NoCmd => Same(mem, mem', cmd[v].dst)
            BY <1>3, <2>3, <3>1, AllHeldNext DEF IInv, Pairs
        <3>. QED
            BY <1>3, <2>4, <2>5, <3>2, <3>3, WindowKept DEF FitInv
    <2>. QED
        BY <2>6, <2>7, <2>8, <2>9 DEF FitInv
<1>. HIDE DEF Kept
<1>. QED
    BY <1>4, <1>14, <1>15, <1>16, <1>17

\* The front buffer has the bo of the slot, and so has, unless the window has
\* another pixmap by now, the destination.
LEMMA SwapFlipFits ==
    ASSUME IInv, FitInv, NEW w \in Windows, SwapFlip(w)
    PROVE  FitInv'
<1>. DEFINE f == buf[w].front
            p == buf[w].back
            q == win[w].pix
            m == SlotBacked(mem, f)
            n == Held(m, p)
<1>1. /\ \/ mem' = Held(n, q) /\ cmd' = [cmd EXCEPT ![w] = [src |-> p, dst |-> q]]
         \/ mem' = m /\ UNCHANGED cmd
      /\ buf' = Swapped(w) /\ UNCHANGED <<plain, win>>
      /\ cmd[w] = NoCmd /\ p # NoPix
      /\ win[w].size = Mode /\ mem.size[mem.pix[p].bo] = Mode
    BY DEF SwapFlip, SwapReady, MayFlip, MayAsk, HasBuffers, SrcOf, FrontOf, DstOf
<1>2. /\ f \in Pixmaps /\ mem.pix[f].refs >= 1
      /\ p \in Pixmaps /\ mem.pix[p].refs >= 1
      /\ q \in Pixmaps /\ mem.pix[q].refs >= 1
    <2>1. f # NoPix
        BY <1>1 DEF IInv, Pairs
    <2>. QED
        BY <1>1, <2>1, InUse
<1>3. /\ Touched(mem, m, f) /\ Solvent(m) /\ Apart(mem, m, f) /\ m.pix[f].bo = mem.slot
    BY <1>2, IInvSolvent, SlotBackedTouched, SlotBackedApart, TouchedSolvent
<1>. HIDE DEF m
<1>4. InMode(m, f)
    BY <1>3 DEF FitInv, ScanoutsFit, Apart, InMode
<1>5. /\ f \notin plain /\ \A v \in Windows : buf[v].back # NoPix => buf[v].back # f
    BY BacksElsewhere DEF FitInv, PlainFits, Places
<1>6. CASE mem' = m /\ UNCHANGED cmd
    <2>1. \A x \in Pixmaps \ {f} : Same(mem, mem', x)
        BY <1>3, <1>6 DEF Apart
    <2>. QED
        BY <1>1, <1>3, <1>4, <1>5, <1>6, <2>1, SwappedBuffers, ApartScanouts, TouchedFits
<1>7. CASE mem' = Held(n, q) /\ cmd' = [cmd EXCEPT ![w] = [src |-> p, dst |-> q]]
    <2>1. m.pix[p].refs >= 1 /\ m.pix[q].refs >= 1
        BY <1>2, <1>3 DEF Touched, Only
    <2>2. /\ Balanced(m, n) /\ Only(m, n, p) /\ n.pix[p].refs = m.pix[p].refs + 1
          /\ n.scanout = m.scanout /\ n.slot = m.slot /\ n.size = m.size
          /\ \A x \in Pixmaps : Same(m, n, x)
        BY <1>2, <1>3, <2>1, HeldOnly, HeldSame
    <2>. HIDE DEF n
    <2>3. Solvent(n) /\ n.pix[q].refs >= 1
        <3>1. m.pix[p].refs \in Nat
            BY <1>2, <1>3, PixmapRefs
        <3>. QED
            BY <1>2, <1>3, <2>1, <2>2, <3>1, BalancedSolvent DEF Only
    <2>4. /\ mem'.scanout = n.scanout /\ mem'.slot = n.slot /\ mem'.size = n.size
          /\ \A x \in Pixmaps : Same(n, mem', x)
        BY <1>2, <1>7, <2>3, HeldSame
    <2>5. \A x \in Pixmaps : Same(m, mem', x)
        BY <2>2, <2>4, SameTrans
    <2>6. Apart(mem, mem', f) /\ InMode(mem', f)
        <3>1. Apart(m, mem', f)
            BY <2>2, <2>4, <2>5 DEF Apart
        <3>. QED
            BY <1>2, <1>3, <1>4, <2>5, <3>1, ApartTrans, SameFits
    <2>7. cmd \in [Windows -> CmdType]
        BY DEF IInv, TypeOK
    <2>8. /\ cmd'[w].src = p /\ cmd'[w].dst = q
          /\ \A v \in Windows \ {w} : cmd'[v] = cmd[v]
        BY <1>7, <2>7
    <2>9. \A v \in Windows : /\ buf'[v].front = buf[v].front /\ buf'[v].back = buf[v].back
                             /\ buf'[v].name \in {buf[v].name, NoBo}
        BY <1>1, SwappedBuffers
    <2>10. PlainFits'
        <3>1. \A x \in plain' : Same(mem, mem', x)
            BY <1>1, <1>5, <2>6, InUse DEF Apart
        <3>2. ASSUME NEW v \in Windows
              PROVE  \A x \in Places(v)' : x \in {Root, NoPix} \/ x \in Places(v) \/ mem.pix[x].refs = 0
            BY <1>1, <2>8, <2>9 DEF Places
        <3>. QED
            BY <1>1, <3>1, <3>2, PlainKept DEF FitInv
    <2>11. WindowFits(w)'
        <3>1. Same(mem, mem', p) /\ InMode(mem', p)
            <4>1. InMode(mem, p)
                BY <1>1 DEF InMode
            <4>. QED
                BY <1>1, <1>2, <1>5, <2>6, <4>1, SameFits DEF Apart
        <3>2. mem'.pix[p].size = mem.pix[p].size
            BY <3>1 DEF Same
        <3>3. ~win[w].stale => f = q
            BY <1>1 DEF FitInv, WindowFits
        <3>4. cmd'[w] # NoCmd
            BY <1>1, <2>8 DEF NoCmd
        <3>. QED
            BY <1>1, <2>6, <2>8, <2>9, <3>1, <3>2, <3>3, <3>4 DEF FitInv, WindowFits
    <2>12. ASSUME NEW v \in Windows \ {w}
           PROVE  WindowFits(v)'
        <3>1. buf[v].back # NoPix => Same(mem, mem', buf[v].back)
            BY <1>5, <2>6, InUse DEF Apart
        <3>2. cmd[v] # NoCmd => Same(mem, mem', cmd[v].dst) \/ InMode(mem', cmd[v].dst)
            BY <2>6, InUse DEF Apart, IInv, Pairs
        <3>. QED
            BY <1>1, <2>8, <2>9, <3>1, <3>2, WindowKept DEF FitInv
    <2>. QED
        BY <2>6, <2>10, <2>11, <2>12, ApartScanouts DEF FitInv
<1>. QED
    BY <1>1, <1>6, <1>7

\* The bo that comes back with a completed flip has the size of the mode, as the
\* window and its back pixmap have, unless the window's pixmap has changed.
LEMMA SwapCompleteFits ==
    ASSUME IInv, IInv', FitInv, NEW w \in Windows, SwapComplete(w)
    PROVE  FitInv'
<1>. DEFINE p == cmd[w].src
            q == cmd[w].dst
            x == Exchanged(mem, p, q)
            m == IF win[w].alive THEN ScanoutSet(x, x.pix[q].bo) ELSE mem
<1>1. /\ mem' = Destroyed(Destroyed(m, p), q) /\ cmd' = [cmd EXCEPT ![w] = NoCmd]
      /\ UNCHANGED <<plain, win, buf>> /\ cmd[w] # NoCmd
    BY DEF SwapComplete
<1>2. /\ p \in Pixmaps /\ mem.pix[p].refs >= 1 /\ q \in Pixmaps /\ mem.pix[q].refs >= 1
      /\ buf[w].name = NoBo /\ mem.pix[q].refs >= 1 + One(q = p)
    BY <1>1, FlipHeld
<1>3. ScanoutsFit /\ WindowFits(w)
    BY DEF FitInv
<1>4. CASE ~win[w].alive
    <2>1. m = mem
        BY <1>4
    <2>. HIDE DEF m
    <2>2. Survives(mem, mem')
        BY <1>1, <1>2, <2>1, IInvSolvent, DestroyedTwiceSurvives
    <2>3. cmd \in [Windows -> CmdType]
        BY DEF IInv, TypeOK
    <2>4. cmd'[w] = NoCmd /\ \A v \in Windows \ {w} : cmd'[v] = cmd[v]
        BY <1>1, <2>3
    <2>5. PlainFits'
        <3>1. \A y \in plain' : Same(mem, mem', y)
            BY <2>2, AllHeldNext DEF Survives
        <3>2. ASSUME NEW v \in Windows
              PROVE  \A y \in Places(v)' : y \in {Root, NoPix} \/ y \in Places(v) \/ mem.pix[y].refs = 0
            BY <1>1, <2>4 DEF Places, NoCmd
        <3>. QED
            BY <1>1, <3>1, <3>2, PlainKept DEF FitInv
    <2>6. WindowFits(w)'
        BY <1>1, <1>3, <1>4 DEF WindowFits
    <2>7. \A v \in Windows \ {w} : WindowFits(v)'
        BY <1>1, <2>2, <2>4, SurvivesKept
    <2>. QED
        BY <2>2, <2>5, <2>6, <2>7, SurvivesScanouts DEF FitInv
<1>5. CASE win[w].alive
    <2>1. p = buf[w].back /\ p # NoPix /\ p # q /\ InMode(mem, p)
        BY <1>1, <1>2, <1>3, <1>5, BacksElsewhere, NoPixOutside DEF WindowFits
    <2>2. /\ Balanced(mem, x) /\ x.scanout = mem.scanout /\ x.slot = mem.slot /\ x.size = mem.size
          /\ \A y \in Pixmaps : x.pix[y].refs = mem.pix[y].refs
          /\ x.pix[p].bo = mem.pix[q].bo /\ x.pix[p].size = mem.pix[p].size
          /\ x.pix[q].bo = mem.pix[p].bo
          /\ \A y \in Pixmaps \ {p, q} : Same(mem, x, y)
        BY <1>2, <2>1, IInvSolvent, ExchangedBalanced, ExchangedSizes
    <2>3. m = ScanoutSet(x, x.pix[q].bo)
        BY <1>5
    <2>. HIDE DEF x, m
    <2>4. Solvent(x) /\ x.size[x.slot] = Mode
        BY <1>3, <2>2, IInvSolvent, BalancedSolvent DEF ScanoutsFit
    <2>5. /\ Balanced(x, m) /\ m.pix = x.pix
          /\ m.scanout = x.scanout /\ m.size[x.scanout] = x.size[x.scanout]
          /\ m.size[m.slot] = Mode /\ \A y \in Pixmaps : Same(x, m, y)
        <3>1. x.pix[q].bo \in Bos \cup {NoBo} /\ (x.pix[q].bo # NoBo => x.refs[x.pix[q].bo] >= 1)
            BY <1>2, <2>2, <2>4, PixmapRefs
        <3>. QED
            BY <1>2, <2>2, <2>3, <2>4, <3>1, ScanoutSetBalanced, ScanoutSetSizes
    <2>6. Solvent(m) /\ \A y \in Pixmaps : m.pix[y].refs = mem.pix[y].refs
        BY <2>2, <2>4, <2>5, BalancedSolvent
    <2>7. Survives(m, mem')
        BY <1>1, <1>2, <2>6, DestroyedTwiceSurvives
    <2>8. ASSUME NEW y \in Pixmaps, mem'.pix[y].refs >= 1
          PROVE  Same(x, mem', y)
        BY <2>5, <2>7, <2>8, SameTrans DEF Survives
    <2>9. ASSUME NEW y \in Pixmaps, mem'.pix[y].refs >= 1, y # p, y # q
          PROVE  Same(mem, mem', y)
        BY <2>2, <2>8, <2>9, SameTrans
    <2>10. InMode(x, q)
        BY <2>1, <2>2 DEF InMode
    <2>11. cmd \in [Windows -> CmdType]
        BY DEF IInv, TypeOK
    <2>12. cmd'[w] = NoCmd /\ \A v \in Windows \ {w} : cmd'[v] = cmd[v]
        BY <1>1, <2>11
    <2>13. ScanoutsFit'
        BY <1>3, <2>2, <2>5, <2>7 DEF ScanoutsFit, Survives
    <2>14. PlainFits'
        <3>1. \A y \in plain' : y # p /\ y # q
            BY <1>1 DEF FitInv, PlainFits, Places
        <3>2. \A y \in plain' : Same(mem, mem', y)
            BY <2>9, <3>1, AllHeldNext
        <3>3. ASSUME NEW v \in Windows
              PROVE  \A y \in Places(v)' : y \in {Root, NoPix} \/ y \in Places(v) \/ mem.pix[y].refs = 0
            BY <1>1, <2>12 DEF Places, NoCmd
        <3>. QED
            BY <1>1, <3>2, <3>3, PlainKept DEF FitInv
    <2>15. WindowFits(w)'
        <3>1. Same(x, mem', p)
            BY <1>1, <1>2, <2>1, <2>8, AllHeldNext
        <3>2. mem'.pix[p].size = mem.pix[p].size
            BY <2>2, <3>1 DEF Same
        <3>3. ASSUME ~win[w].stale
              PROVE  Fits(mem', p)
            <4>1. mem.pix[p].size = Mode /\ InMode(mem, q)
                BY <1>1, <1>3, <1>5, <2>1, <3>3 DEF WindowFits
            <4>2. InMode(x, p)
                BY <2>2, <4>1 DEF InMode
            <4>. QED
                BY <3>1, <3>2, <4>1, <4>2, SameFits DEF Fits, InMode
        <3>. QED
            BY <1>1, <1>2, <1>3, <1>5, <2>1, <2>12, <3>2, <3>3 DEF WindowFits
    <2>16. ASSUME NEW v \in Windows \ {w}
           PROVE  WindowFits(v)'
        <3>1. ASSUME buf[v].back # NoPix
              PROVE  Same(mem, mem', buf[v].back)
            <4>1. buf[v].back # p /\ buf[v].back # q
                BY <3>1, BacksElsewhere DEF IInv, BacksApart
            <4>. QED
                BY <1>1, <2>9, <3>1, <4>1, AllHeldNext
        <3>2. ASSUME cmd[v] # NoCmd
              PROVE  Same(mem, mem', cmd[v].dst) \/ InMode(mem', cmd[v].dst)
            <4>. DEFINE y == cmd[v].dst
            <4>1. y # p
                BY <2>1, BacksElsewhere
            <4>2. y \in Pixmaps /\ mem'.pix[y].refs >= 1
                BY <2>12, <3>2, AllHeldNext DEF IInv, Pairs
            <4>. HIDE DEF y
            <4>3. Same(mem, mem', y) \/ InMode(mem', y)
                BY <2>8, <2>9, <2>10, <4>1, <4>2, SameFits
            <4>. QED
                BY <4>3 DEF y
        <3>. QED
            BY <1>1, <2>12, <3>1, <3>2, WindowKept DEF FitInv
    <2>. QED
        BY <2>13, <2>14, <2>15, <2>16 DEF FitInv
<1>. QED
    BY <1>4, <1>5

LEMMA NextFitInv == Calm /\ IInv /\ IInv' /\ FitInv /\ [Next]_vars => FitInv'
<1>. SUFFICES ASSUME Calm, IInv, IInv', FitInv, [Next]_vars PROVE FitInv'
    OBVIOUS
<1>1. CASE UNCHANGED vars
    BY <1>1 DEF vars, FitInv, ScanoutsFit, PlainFits, WindowFits, Places, Fits, InMode
<1>2. CASE CreatePixmap \/ ModifyPixmapHeader \/ DestroyPixmap \/ Resize \/ RootWrite
    BY <1>2, CreatePixmapFits, ModifyPixmapHeaderFits, DestroyPixmapFits, ResizeFits, RootWriteFits
<1>3. CASE SwapBlitReturn
    BY <1>3, SwapBlitReturnFits
<1>4. ASSUME NEW w \in Windows,
             \/ Redirect(w) \/ DestroyWindow(w) \/ CreateBuffers(w) \/ ReuseBuffers(w)
             \/ SwapNothing(w)
      PROVE  FitInv'
    BY <1>4, RedirectFits, DestroyWindowFits, CreateBuffersFits, ReuseBuffersFits, SwapNothingFits
<1>5. ASSUME NEW w \in Windows,
             SwapFlip(w) \/ SwapFlipRefused(w) \/ SwapBlit(w) \/ SwapComplete(w)
      PROVE  FitInv'
    BY <1>5, SwapFlipFits, SwapFlipRefusedFits, SwapBlitFits, SwapCompleteFits
<1>. QED
    BY <1>1, <1>2, <1>3, <1>4, <1>5 DEF Next

-----------------------------------------------------------------------------
(* Theorems.                                                               *)

\* Every variable keeps its type: no count of references falls below zero,
\* whatever fails.
THEOREM TypesThm == Spec => []TypeOK
<1>1. IInv => TypeOK
    BY DEF IInv
<1>. QED
    BY <1>1, IInvHolds, PTL

\* The references to a bo are those of pixmaps, root bo, slot and waiting swap,
\* whatever fails.
THEOREM BosReferencedThm == Spec => []BosReferenced
<1>1. IInv => BosReferenced
    <2>. SUFFICES ASSUME IInv, NEW b \in Bos
                  PROVE  mem.refs[b] = Cardinality({p \in Pixmaps : mem.pix[p].bo = b})
                             + One(mem.scanout = b) + One(mem.slot = b) + One(call.old = b)
        BY DEF BosReferenced
    <2>1. mem.refs[b] - Users(mem, b) = One(call.old = b)
        BY DEF IInv, BosCounted, Spare
    <2>2. mem.refs[b] \in Nat /\ Users(mem, b) \in Nat /\ One(call.old = b) \in Nat
        BY UsersType DEF IInv, TypeOK, Memory, One
    <2>. HIDE DEF Users
    <2>3. mem.refs[b] = Users(mem, b) + One(call.old = b)
        BY <2>1, <2>2
    <2>. QED
        BY <2>3 DEF Users
<1>. QED
    BY <1>1, IInvHolds, PTL

\* Each holder of a pixmap has one reference to it, if the kernel never refuses
\* a name for a DRI2 buffer: the code keeps what it holds by then.
THEOREM PixmapsHeldThm ==
    ASSUME "get_name" \notin Failing
    PROVE  Spec => []PixmapsHeld
<1>1. IInv => PixmapsHeld
    <2>. SUFFICES ASSUME IInv, ~crashed, NEW p \in Pixmaps
                  PROVE  mem.pix[p].refs = Holders(p)
        BY DEF PixmapsHeld, Holders, Owners, Fronts, Backs, Srcs, Dsts
    <2>1. Surplus(p) = 0
        BY DEF IInv, PixmapsCounted
    <2>2. Holders(p) \in Nat
        BY CountsAtLeast DEF Holders, One
    <2>. QED
        BY <2>1, <2>2, InUse DEF Surplus
<1>. QED
    BY <1>1, IInvHolds, PTL

\* The kernel's buffers are those of the bos referred to, if a back end never
\* fails after it has made one: it keeps that one.
THEOREM KernelBuffersThm ==
    ASSUME "get_prop" \notin Failing
    PROVE  Spec => []KernelBuffers
<1>1. IInv => KernelBuffers
    BY DEF IInv, Sound, Memory, KernelBuffers
<1>. QED
    BY <1>1, IInvHolds, PTL

\* What a client draws into is the bo of its back pixmap, although completions
\* have moved bos between pixmaps.
THEOREM DrawsInBackThm == Spec => []DrawsInBack
<1>1. IInv => DrawsInBack
    BY DEF IInv, Named, DrawsInBack, SrcOf
<1>. QED
    BY <1>1, IInvHolds, PTL

\* The bo of a pixmap that the server draws into, and that of a back buffer a
\* client has asked for since its last swap, has the size that they think it
\* has: a header that is modified gets another bo, a buffer is reused for a
\* window of its size alone, and the bo that a flip gives back has the size of
\* the mode.  The screen may be resized under one window that is not in a flip;
\* else the root bo, of another size than the mode, gets behind a back buffer.
THEOREM BosFitThm ==
    ASSUME "resize" \in Env => NumWindow = 1 /\ "resize_flip" \notin Env
    PROVE  Spec => []BosFit
<1>1. Calm
    BY DEF Calm
<1>2. IInv /\ FitInv => BosFit
    <2>. SUFFICES ASSUME IInv, FitInv, NEW p \in DrawnTo
                  PROVE  Fits(mem, p)
        BY DEF BosFit, Fits
    <2>1. CASE p \in plain
        BY <2>1 DEF FitInv, PlainFits
    <2>2. CASE \E w \in Windows : p = buf[w].back /\ buf[w].name # NoBo
        BY <2>2 DEF FitInv, WindowFits, IInv, Pairs
    <2>. QED
        BY <2>1, <2>2 DEF DrawnTo, SrcOf
<1>3. Init => FitInv
    BY InitFitInv
<1>4. IInv /\ IInv' /\ FitInv /\ [Next]_vars => FitInv'
    BY <1>1, NextFitInv
<1>. QED
    BY <1>2, <1>3, <1>4, IInvHolds, PTL DEF Spec

\* Pixmap p, the bo behind it and the kernel's buffer behind that exist.
Alive(p) ==
    /\ mem.pix[p].refs > 0
    /\ mem.pix[p].bo # NoBo => mem.refs[mem.pix[p].bo] > 0 /\ mem.pix[p].bo \in mem.objs

NothingInUseFreed ==
    /\ Alive(Root) /\ \A p \in plain : Alive(p)
    /\ \A w \in Windows :
         \A p \in {win[w].pix, buf[w].front, buf[w].back, cmd[w].src, cmd[w].dst} \ {NoPix} : Alive(p)
    /\ {mem.scanout, mem.slot} \subseteq mem.objs

\* What the screen, a window, a DRI2 buffer or a pending flip names has not been
\* freed, nor has the bo behind it or the kernel's buffer behind that, whatever
\* fails: what the code loses it only keeps too long.
THEOREM NothingInUseFreedThm == Spec => []NothingInUseFreed
<1>1. IInv => NothingInUseFreed
    <2>. SUFFICES ASSUME IInv PROVE NothingInUseFreed
        OBVIOUS
    <2>1. ASSUME NEW p \in Pixmaps, mem.pix[p].refs >= 1
          PROVE  Alive(p)
        <3>1. mem.pix[p].bo # NoBo => mem.pix[p].bo \in Bos /\ mem.refs[mem.pix[p].bo] >= 1
            BY IInvSolvent, PixmapRefs
        <3>2. /\ mem.pix[p].refs \in Nat /\ mem.refs \in [Bos -> Nat]
              /\ \A b \in Bos : mem.refs[b] > 0 => b \in mem.objs
            BY InUse DEF IInv, Sound, Memory
        <3>. QED
            BY <2>1, <3>1, <3>2 DEF Alive
    <2>2. Alive(Root) /\ \A p \in plain : Alive(p)
        BY <2>1, InUse, NoPixOutside
    <2>3. ASSUME NEW w \in Windows,
                 NEW p \in {win[w].pix, buf[w].front, buf[w].back, cmd[w].src, cmd[w].dst} \ {NoPix}
          PROVE  Alive(p)
        <3>1. p \in Pixmaps /\ mem.pix[p].refs >= 1
            BY InUse
        <3>. QED
            BY <2>1, <3>1
    <2>4. {mem.scanout, mem.slot} \subseteq mem.objs
        BY IInvSolvent, SolventRefs DEF IInv, Sound
    <2>. QED
        BY <2>2, <2>3, <2>4 DEF NothingInUseFreed
<1>. QED
    BY <1>1, IInvHolds, PTL
=============================================================================
