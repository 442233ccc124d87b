--------------------------- MODULE Scanouts_proofs ---------------------------
(***************************************************************************)
(* Lemmas about the operators of Scanouts, for every number of CRTCs,      *)
(* slots and buffer objects.                                               *)
(***************************************************************************)
EXTENDS Scanouts, FiniteSetTheorems, TLAPS

LEMMA TheMember ==
    ASSUME NEW S, S # {}
    PROVE  The(S) \in S
    BY DEF The

LEMMA CrtcsFinite == IsFiniteSet(Crtcs) /\ Crtcs \subseteq Int
    BY SizeAssumption, FS_Interval DEF Crtcs

LEMMA SlotsFinite == IsFiniteSet(Slots) /\ Slots \subseteq Int
    BY SizeAssumption, FS_Interval DEF Slots

LEMMA BosFinite == IsFiniteSet(Bos) /\ Bos \subseteq Int
    BY SizeAssumption, FS_Interval DEF Bos

\* The members of S up to x: at least one if x is in S, at most all.
LEMMA UpToBounds ==
    ASSUME NEW S \in SUBSET Int, IsFiniteSet(S), NEW x \in S
    PROVE  Cardinality({t \in S : t <= x}) \in 1..Cardinality(S)
<1>. DEFINE U == {t \in S : t <= x}
<1>1. IsFiniteSet(U) /\ Cardinality(U) <= Cardinality(S)
    BY FS_Subset
<1>2. x \in U
    OBVIOUS
<1>3. Cardinality(U) # 0
    BY <1>1, <1>2, FS_EmptySet
<1>4. Cardinality(U) \in Nat /\ Cardinality(S) \in Nat
    BY <1>1, FS_CardinalityType
<1>. QED
    BY <1>1, <1>3, <1>4

\* A finite set of integers has a k-th smallest member for each k up to its size.
\* (The number of members up to x is an injection into 1..Cardinality(S), and
\* one between sets of the same size is onto.)
LEMMA NthExists ==
    ASSUME NEW S \in SUBSET Int, IsFiniteSet(S), NEW k \in 1..Cardinality(S)
    PROVE  Nth(S, k) # {} /\ Nth(S, k) \subseteq S
<1>. DEFINE U(x) == {t \in S : t <= x}
            T    == 1..Cardinality(S)
            f    == [x \in S |-> Cardinality(U(x))]
<1>1. f \in [S -> T]
    BY UpToBounds
<1>2. ASSUME NEW a \in S, NEW b \in S, a < b
      PROVE  f[a] # f[b]
    <2>0. a \in Int /\ b \in Int /\ \A t \in S : t \in Int
        OBVIOUS
    <2>1. U(a) \subseteq U(b) /\ b \in U(b) /\ b \notin U(a)
        <3>1. \A t \in S : t <= a => t <= b
            BY <1>2, <2>0
        <3>2. b <= b /\ ~(b <= a)
            BY <1>2, <2>0
        <3>. QED
            BY <3>1, <3>2
    <2>2. IsFiniteSet(U(b))
        BY FS_Subset
    <2>3. Cardinality(U(b)) # Cardinality(U(a))
        BY <2>1, <2>2, FS_Subset
    <2>. QED
        BY <2>3
<1>3. ASSUME NEW a \in S, NEW b \in S, f[a] = f[b]
      PROVE  a = b
    <2>1. a \in Int /\ b \in Int
        OBVIOUS
    <2>2. ~(a < b) /\ ~(b < a)
        BY <1>2, <1>3
    <2>. QED
        BY <2>1, <2>2
<1>. HIDE DEF f
<1>4. f \in Injection(S, T)
    <2>1. DOMAIN f = S
        BY <1>1
    <2>. QED
        BY <1>1, <1>3, <2>1 DEF Injection, IsInjective
<1>5. Cardinality(S) \in Nat
    BY FS_CardinalityType
<1>6. IsFiniteSet(T) /\ Cardinality(T) = Cardinality(S)
    BY <1>5, FS_Interval
<1>7. f \in Surjection(S, T)
    BY <1>4, <1>6, FS_Injection
<1>8. PICK x \in S : f[x] = k
    BY <1>7 DEF Surjection
<1>9. x \in Nth(S, k)
    BY <1>8 DEF f, Nth
<1>. QED
    BY <1>9 DEF Nth

-----------------------------------------------------------------------------
LEMMA RefsType ==
    ASSUME NEW rc \in [Bos -> Int], NEW b
    PROVE  Reference(rc, b) \in [Bos -> Int] /\ Unreference(rc, b) \in [Bos -> Int]
<1>1. CASE b \in Bos
    BY <1>1 DEF Reference, Unreference
<1>2. CASE b \notin Bos
    <2>1. \A e : [rc EXCEPT ![b] = e] = rc
        BY <1>2
    <2>. QED
        BY <2>1 DEF Reference, Unreference
<1>. QED
    BY <1>1, <1>2

LEMMA LookupType ==
    ASSUME NEW tab, NEW r
    PROVE  ScanoutFromSize(tab, r) \in Slots \cup {0}
<1>. DEFINE same == {s \in Slots : tab[s].rect = r}
<1>1. CASE same = {}
    BY <1>1 DEF ScanoutFromSize
<1>2. CASE same # {}
    <2>1. IsFiniteSet(same) /\ same \subseteq Int
        BY SlotsFinite, FS_Subset
    <2>2. 1 \in 1..Cardinality(same)
        BY <1>2, <2>1, FS_EmptySet, FS_CardinalityType
    <2>3. Nth(same, 1) # {} /\ Nth(same, 1) \subseteq same
        BY <2>1, <2>2, NthExists
    <2>4. The(Nth(same, 1)) \in same
        BY <2>3, TheMember
    <2>. QED
        BY <1>2, <2>4 DEF ScanoutFromSize
<1>. QED
    BY <1>1, <1>2

LEMMA ScanoutSetType ==
    ASSUME NEW tab \in TableType, NEW r, NEW b \in Bos \cup {NoBo}, NEW rc \in [Bos -> Int]
    PROVE  ScanoutSet(tab, r, b) \in TableType /\ ScanoutSetRefs(rc, tab, r, b) \in [Bos -> Int]
<1>1. ScanoutSet(tab, r, b) \in TableType
    BY DEF ScanoutSet, TableType, SlotType
<1>2. ScanoutSetRefs(rc, tab, r, b) \in [Bos -> Int]
    BY RefsType DEF ScanoutSetRefs
<1>. QED
    BY <1>1, <1>2

-----------------------------------------------------------------------------
(* drmmode_update_scanouts yields a table again.                           *)

\* A CRTC that needs a bo gets one of the free ones, if there are enough.
LEMMA NewBoType ==
    ASSUME NEW tab, NEW act \in SUBSET Crtcs, NEW rect, NEW free \in SUBSET Bos,
           Cardinality(Starved(tab, act, rect)) <= Cardinality(free),
           NEW c \in Starved(tab, act, rect)
    PROVE  NewBo(tab, act, rect, free, c) \in free
<1>. DEFINE starved == Starved(tab, act, rect)
            k == Rank(starved, c)
<1>1. starved \in SUBSET Int /\ IsFiniteSet(starved)
    <2>1. starved \in SUBSET Crtcs
        BY DEF Starved
    <2>. QED
        BY <2>1, CrtcsFinite, FS_Subset
<1>2. free \in SUBSET Int /\ IsFiniteSet(free)
    BY BosFinite, FS_Subset
<1>. HIDE DEF starved
<1>3. c \in starved /\ Cardinality(starved) <= Cardinality(free)
    BY DEF starved
<1>4. k \in 1..Cardinality(starved)
    BY <1>1, <1>3, UpToBounds DEF Rank
<1>5. Cardinality(starved) \in Nat /\ Cardinality(free) \in Nat
    BY <1>1, <1>2, FS_CardinalityType
<1>6. k \in 1..Cardinality(free)
    BY <1>3, <1>4, <1>5
<1>. HIDE DEF k
<1>7. The(Nth(free, k)) \in free
    BY <1>2, <1>6, NthExists, TheMember
<1>. QED
    BY <1>7 DEF NewBo, starved, k

LEMMA NewSlotType ==
    ASSUME NEW tab \in TableType, NEW act \in SUBSET Crtcs, NEW rect \in [Crtcs -> Rects],
           NEW free \in SUBSET Bos,
           Cardinality(Starved(tab, act, rect)) <= Cardinality(free),
           NEW c \in act
    PROVE  NewSlot(tab, act, rect, free, c) \in SlotType
<1>. DEFINE old == Taken(tab, act, rect, c)
<1>1. rect[c] \in Rects
    OBVIOUS
<1>2. CASE old = {}
    <2>1. NewBo(tab, act, rect, free, c) \in Bos
        BY <1>2, NewBoType DEF Starved
    <2>. QED
        BY <1>1, <1>2, <2>1 DEF NewSlot, SlotType
<1>3. CASE old # {}
    <2>1. The(old) \in Slots
        BY <1>3, TheMember DEF Taken, Nth
    <2>2. tab[The(old)] \in SlotType
        BY <2>1 DEF TableType
    <2>. QED
        BY <1>1, <1>3, <2>2 DEF NewSlot, SlotType
<1>. QED
    BY <1>2, <1>3

LEMMA UpdatedTableType ==
    ASSUME NEW tab \in TableType, NEW act \in SUBSET Crtcs, NEW rect \in [Crtcs -> Rects],
           NEW free \in SUBSET Bos, NEW n,
           Cardinality(Starved(tab, act, rect)) <= Cardinality(free)
    PROVE  UpdatedTable(tab, act, rect, free, n) \in TableType
<1>1. EmptySlot \in SlotType
    BY DEF EmptySlot, SlotType, NoRect, Rects
<1>2. ASSUME NEW s \in Slots
      PROVE  UpdatedTable(tab, act, rect, free, n)[s] \in SlotType
    <2>. DEFINE here == {c \in Nth(act, s) : s <= n}
    <2>1. CASE here = {}
        BY <1>1, <2>1 DEF UpdatedTable
    <2>2. CASE here # {}
        <3>1. The(here) \in act
            BY <2>2, TheMember DEF Nth
        <3>2. NewSlot(tab, act, rect, free, The(here)) \in SlotType
            BY <3>1, NewSlotType
        <3>. QED
            BY <2>2, <3>2 DEF UpdatedTable
    <2>. QED
        BY <2>1, <2>2
<1>. QED
    BY <1>2 DEF UpdatedTable, TableType

LEMMA LostType ==
    ASSUME NEW tab, NEW slots \in SUBSET Slots, NEW b
    PROVE  Lost(tab, slots, b) \in Nat
<1>1. IsFiniteSet({s \in slots : tab[s].bo = b})
    BY SlotsFinite, FS_Subset
<1>. QED
    BY <1>1, FS_CardinalityType DEF Lost

LEMMA UpdateDoneType ==
    ASSUME NEW tab \in TableType, NEW act \in SUBSET Crtcs, NEW rect \in [Crtcs -> Rects],
           NEW free \in SUBSET Bos, NEW rc \in [Bos -> Int],
           Cardinality(Starved(tab, act, rect)) <= Cardinality(free)
    PROVE  LET u == UpdateDone(tab, act, rect, free, rc)
           IN  u.ret = TRUE /\ u.resized \in BOOLEAN /\ u.tab \in TableType /\ u.rc \in [Bos -> Int]
<1>1. UpdatedTable(tab, act, rect, free, NumCrtc) \in TableType
    BY UpdatedTableType
<1>2. \A b \in Bos : Lost(tab, Discarded(tab, act, rect), b) \in Nat
    BY LostType DEF Discarded
<1>. QED
    BY <1>1, <1>2 DEF UpdateDone

LEMMA UpdateStoppedType ==
    ASSUME NEW tab \in TableType, NEW act \in SUBSET Crtcs, NEW rect \in [Crtcs -> Rects],
           NEW free \in SUBSET Bos, NEW rc \in [Bos -> Int], NEW n, NEW dropped \in SUBSET Slots,
           Cardinality(Starved(tab, act, rect)) <= Cardinality(free)
    PROVE  LET u == UpdateStopped(tab, act, rect, free, rc, n, dropped)
           IN  u.ret = FALSE /\ u.resized = FALSE /\ u.tab \in TableType /\ u.rc \in [Bos -> Int]
<1>1. UpdatedTable(tab, act, rect, free, n) \in TableType
    BY UpdatedTableType
<1>2. \A b \in Bos : Lost(tab, dropped, b) \in Nat
    BY LostType
<1>. QED
    BY <1>1, <1>2 DEF UpdateStopped

LEMMA UpdateType ==
    ASSUME NEW tab \in TableType, NEW act \in SUBSET Crtcs, NEW rect \in [Crtcs -> Rects],
           NEW free \in SUBSET Bos, NEW rc \in [Bos -> Int], NEW canFail \in BOOLEAN,
           Cardinality(Starved(tab, act, rect)) <= Cardinality(free),
           NEW u \in UpdateScanouts(tab, act, rect, free, rc, canFail)
    PROVE  /\ u.ret \in BOOLEAN /\ u.resized \in BOOLEAN
           /\ u.tab \in TableType /\ u.rc \in [Bos -> Int]
<1>. DEFINE full == {c \in act : Rank(act, c) = MaxScanouts + 1}
<1>0. Taken(tab, act, rect, The(full)) \in SUBSET Slots /\ {} \in SUBSET Slots
    BY DEF Taken, Nth
<1>1. CASE u = UpdateDone(tab, act, rect, free, rc)
    BY <1>1, UpdateDoneType
<1>2. CASE \E c \in act : u = UpdateStopped(tab, act, rect, free, rc, Rank(act, c) - 1, {})
    <2>1. PICK c \in act : u = UpdateStopped(tab, act, rect, free, rc, Rank(act, c) - 1, {})
        BY <1>2
    <2>2. u.ret = FALSE /\ u.resized = FALSE /\ u.tab \in TableType /\ u.rc \in [Bos -> Int]
        BY <1>0, <2>1, UpdateStoppedType
    <2>. QED
        BY <2>2
<1>3. CASE u = UpdateStopped(tab, act, rect, free, rc, MaxScanouts,
                             Taken(tab, act, rect, The(full)))
    <2>1. u.ret = FALSE /\ u.resized = FALSE /\ u.tab \in TableType /\ u.rc \in [Bos -> Int]
        BY <1>0, <1>3, UpdateStoppedType
    <2>. QED
        BY <2>1
<1>. QED
    BY <1>1, <1>2, <1>3 DEF UpdateScanouts, Starved

-----------------------------------------------------------------------------
(* Looking for the first slot.                                             *)

\* The first member is the smallest.
LEMMA FirstMember ==
    ASSUME NEW S \in SUBSET Int, IsFiniteSet(S), S # {}
    PROVE  The(Nth(S, 1)) \in S /\ \A t \in S : The(Nth(S, 1)) <= t
<1>. DEFINE x == The(Nth(S, 1))
            U == {t \in S : t <= x}
<1>1. Cardinality(S) \in Nat /\ Cardinality(S) # 0
    BY FS_CardinalityType, FS_EmptySet
<1>2. Nth(S, 1) # {}
    BY <1>1, NthExists
<1>3. x \in S /\ Cardinality(U) = 1
    BY <1>2, TheMember DEF Nth
<1>. HIDE DEF x
<1>4. IsFiniteSet(U)
    BY FS_Subset
<1>5. PICK e : U = {e}
    <2>. HIDE DEF U
    <2>. QED
        BY <1>3, <1>4, FS_Singleton
<1>6. ASSUME NEW t \in S
      PROVE  x <= t
    <2>1. x \in Int /\ t \in Int /\ x \in U
        BY <1>3
    <2>2. t <= x => t = x
        BY <1>5, <2>1
    <2>. QED
        BY <2>1, <2>2
<1>. QED
    BY <1>3, <1>6 DEF x

LEMMA SomeSlots ==
    ASSUME NEW S \in SUBSET Slots, S # {}
    PROVE  The(Nth(S, 1)) \in S /\ \A t \in S : The(Nth(S, 1)) <= t
<1>1. IsFiniteSet(S) /\ S \in SUBSET Int
    BY SlotsFinite, FS_Subset
<1>. QED
    BY <1>1, FirstMember

\* drmmode_scanout_from_size finds the first slot with the rectangle.
LEMMA LookupFirst ==
    ASSUME NEW tab, NEW r
    PROVE  LET s == ScanoutFromSize(tab, r)
           IN  /\ s \in Slots \cup {0}
               /\ s # 0 => tab[s].rect = r /\ \A t \in Slots : tab[t].rect = r => s <= t
               /\ s = 0 => \A t \in Slots : tab[t].rect # r
<1>. DEFINE same == {s \in Slots : tab[s].rect = r}
<1>1. CASE same = {}
    BY <1>1 DEF ScanoutFromSize
<1>2. CASE same # {}
    <2>1. The(Nth(same, 1)) \in same /\ \A t \in same : The(Nth(same, 1)) <= t
        BY <1>2, SomeSlots
    <2>2. ScanoutFromSize(tab, r) = The(Nth(same, 1)) /\ 0 \notin Slots
        BY <1>2 DEF ScanoutFromSize, Slots
    <2>. QED
        BY <2>1, <2>2
<1>. QED
    BY <1>1, <1>2

LEMMA LookupFinds ==
    ASSUME NEW tab, NEW r, NEW s \in Slots, tab[s].rect = r,
           \A t \in Slots : tab[t].rect = r => s <= t
    PROVE  ScanoutFromSize(tab, r) = s
<1>. DEFINE x == ScanoutFromSize(tab, r)
<1>1. /\ x \in Slots \cup {0}
      /\ x # 0 => tab[x].rect = r /\ \A t \in Slots : tab[t].rect = r => x <= t
      /\ x = 0 => \A t \in Slots : tab[t].rect # r
    BY LookupFirst
<1>. HIDE DEF x
<1>2. x \in Slots /\ x <= s /\ s <= x
    BY <1>1
<1>3. x \in Int /\ s \in Int
    BY <1>2 DEF Slots
<1>. QED
    BY <1>2, <1>3 DEF x

\* What a lookup finds depends on the slots with that rectangle only.
LEMMA LookupSame ==
    ASSUME NEW tab, NEW tab2, NEW r,
           \A s \in Slots : tab[s].rect = r \/ tab2[s].rect = r => tab[s] = tab2[s]
    PROVE  ScanoutFromSize(tab, r) = ScanoutFromSize(tab2, r)
<1>1. {s \in Slots : tab[s].rect = r} = {s \in Slots : tab2[s].rect = r}
    OBVIOUS
<1>. QED
    BY <1>1 DEF ScanoutFromSize

-----------------------------------------------------------------------------
(* Counting, and ranks: the member of S of rank k is the k-th.             *)

One(P) == IF P THEN 1 ELSE 0

\* Two finite sets that differ at most in e differ in size by e.
LEMMA CountChange ==
    ASSUME NEW S, IsFiniteSet(S), NEW A \in SUBSET S, NEW B \in SUBSET S, NEW e \in S,
           \A s \in S \ {e} : s \in A <=> s \in B
    PROVE  /\ Cardinality(A) \in Nat /\ Cardinality(B) \in Nat
           /\ Cardinality(B) = Cardinality(A) - One(e \in A) + One(e \in B)
           /\ Cardinality(A) >= One(e \in A)
<1>1. IsFiniteSet(A) /\ IsFiniteSet(B)
    BY FS_Subset
<1>2. Cardinality(A) \in Nat /\ Cardinality(B) \in Nat
    BY <1>1, FS_CardinalityType
<1>3. A \ {e} = B \ {e}
    OBVIOUS
<1>4. /\ Cardinality(A \ {e}) = IF e \in A THEN Cardinality(A) - 1 ELSE Cardinality(A)
      /\ Cardinality(B \ {e}) = IF e \in B THEN Cardinality(B) - 1 ELSE Cardinality(B)
      /\ Cardinality(A \ {e}) \in Nat
    <2>1. IsFiniteSet(A \ {e})
        BY <1>1, FS_RemoveElement
    <2>. QED
        BY <1>1, <2>1, FS_RemoveElement, FS_CardinalityType
<1>5. Cardinality(A \ {e}) = Cardinality(B \ {e})
    BY <1>3
<1>6. /\ Cardinality(A \ {e}) = Cardinality(A) - One(e \in A)
      /\ Cardinality(B \ {e}) = Cardinality(B) - One(e \in B)
      /\ One(e \in A) \in Nat /\ One(e \in B) \in Nat
    BY <1>4, <1>2 DEF One
<1>. DEFINE x == One(e \in A)
            y == One(e \in B)
<1>7. /\ Cardinality(A \ {e}) = Cardinality(A) - x /\ x \in Nat
      /\ Cardinality(A \ {e}) = Cardinality(B) - y /\ y \in Nat
    BY <1>5, <1>6
<1>. HIDE DEF x, y
<1>8. Cardinality(B) = Cardinality(A) - x + y /\ Cardinality(A) >= x
    BY <1>2, <1>4, <1>7
<1>. QED
    BY <1>2, <1>8 DEF x, y

LEMMA RankType ==
    ASSUME NEW S \in SUBSET Int, IsFiniteSet(S), NEW x
    PROVE  /\ Rank(S, x) \in Nat /\ Cardinality(S) \in Nat /\ Rank(S, x) <= Cardinality(S)
           /\ x \in S => Rank(S, x) >= 1
<1>1. /\ IsFiniteSet({t \in S : t <= x}) /\ Cardinality({t \in S : t <= x}) <= Cardinality(S)
      /\ Cardinality({t \in S : t <= x}) \in Nat /\ Cardinality(S) \in Nat
    BY FS_Subset, FS_CardinalityType
<1>2. x \in S => Cardinality({t \in S : t <= x}) >= 1
    BY <1>1, UpToBounds
<1>. QED
    BY <1>1, <1>2 DEF Rank

\* How many members come before x, a member or not.
LEMMA RankBefore ==
    ASSUME NEW S \in SUBSET Int, IsFiniteSet(S), NEW x \in Int
    PROVE  LET before == Cardinality({t \in S : t < x})
           IN  /\ before \in Nat
               /\ \A c \in S : c < x <=> Rank(S, c) <= before
               /\ x \in S => Rank(S, x) = before + 1
<1>. DEFINE B == {t \in S : t < x}
            U(c) == {t \in S : t <= c}
<1>1. IsFiniteSet(B) /\ Cardinality(B) \in Nat /\ \A c : IsFiniteSet(U(c)) /\ Cardinality(U(c)) \in Nat
    BY FS_Subset, FS_CardinalityType
<1>2. ASSUME NEW c \in S, c < x
      PROVE  Cardinality(U(c)) <= Cardinality(B)
    <2>1. \A t \in S : t <= c => t < x
        BY <1>2
    <2>2. U(c) \in SUBSET B
        BY <2>1
    <2>. HIDE DEF U, B
    <2>. QED
        BY <1>1, <2>2, FS_Subset
<1>3. ASSUME NEW c \in S, ~(c < x)
      PROVE  Cardinality(U(c)) > Cardinality(B)
    <2>1. \A t \in S : t < x => t <= c
        BY <1>3
    <2>2. B \in SUBSET U(c) /\ c \in U(c) /\ c \notin B
        <3>1. c \in Int /\ c <= c
            OBVIOUS
        <3>. QED
            BY <1>3, <2>1, <3>1
    <2>. HIDE DEF U, B
    <2>3. Cardinality(B) <= Cardinality(U(c)) /\ Cardinality(B) # Cardinality(U(c))
        BY <1>1, <2>2, FS_Subset
    <2>. QED
        BY <1>1, <2>3
<1>4. ASSUME x \in S
      PROVE  Cardinality(U(x)) = Cardinality(B) + 1
    <2>1. \A t \in S : t <= x <=> t < x \/ t = x
        BY <1>4
    <2>2. U(x) = B \cup {x} /\ x \notin B
        <3>1. ~(x < x)
            OBVIOUS
        <3>. QED
            BY <1>4, <2>1, <3>1
    <2>. HIDE DEF U, B
    <2>. QED
        BY <1>1, <2>2, FS_AddElement
<1>5. \A c : Rank(S, c) = Cardinality(U(c))
    BY DEF Rank
<1>6. \A c \in S : c < x <=> Rank(S, c) <= Cardinality(B)
    <2>. HIDE DEF U, B
    <2>. QED
        BY <1>1, <1>2, <1>3, <1>5
<1>. QED
    BY <1>1, <1>4, <1>5, <1>6

LEMMA RankOrder ==
    ASSUME NEW S \in SUBSET Int, IsFiniteSet(S), NEW x \in S, NEW y \in S
    PROVE  /\ x < y <=> Rank(S, x) < Rank(S, y)
           /\ Rank(S, x) = Rank(S, y) => x = y
<1>. DEFINE before(z) == Cardinality({t \in S : t < z})
<1>1. x \in Int /\ y \in Int
    OBVIOUS
<1>2. /\ before(y) \in Nat /\ (x < y <=> Rank(S, x) <= before(y)) /\ Rank(S, y) = before(y) + 1
      /\ before(x) \in Nat /\ (y < x <=> Rank(S, y) <= before(x)) /\ Rank(S, x) = before(x) + 1
    BY <1>1, RankBefore
<1>. HIDE DEF before
<1>. QED
    BY <1>1, <1>2

LEMMA NthOfRank ==
    ASSUME NEW S \in SUBSET Int, IsFiniteSet(S), NEW x \in S
    PROVE  Nth(S, Rank(S, x)) = {x} /\ The(Nth(S, Rank(S, x))) = x
<1>1. \A y : y \in Nth(S, Rank(S, x)) <=> y \in S /\ Rank(S, y) = Rank(S, x)
    BY DEF Nth, Rank
<1>2. Nth(S, Rank(S, x)) = {x}
    BY <1>1, RankOrder
<1>. QED
    BY <1>2 DEF The

LEMMA NthMember ==
    ASSUME NEW S \in SUBSET Int, IsFiniteSet(S), NEW k \in 1..Cardinality(S)
    PROVE  \E x \in S : Rank(S, x) = k /\ Nth(S, k) = {x}
<1>1. PICK x \in S : x \in Nth(S, k)
    <2>1. Nth(S, k) # {} /\ Nth(S, k) \subseteq S
        BY NthExists
    <2>. QED
        BY <2>1
<1>2. Rank(S, x) = k
    BY <1>1 DEF Nth, Rank
<1>. QED
    BY <1>2, NthOfRank

LEMMA NthNone ==
    ASSUME NEW S \in SUBSET Int, IsFiniteSet(S), NEW k \in Int, k \notin 1..Cardinality(S)
    PROVE  Nth(S, k) = {}
<1>1. \A x \in S : Rank(S, x) \in 1..Cardinality(S)
    BY RankType
<1>. QED
    BY <1>1 DEF Nth, Rank

-----------------------------------------------------------------------------
(* References and the slots that hold them.                                *)

\* The slots of the table with bo b.
Listed(tab, b) == Cardinality({s \in Slots : tab[s].bo = b})

LEMMA ListedType ==
    ASSUME NEW tab, NEW b
    PROVE  Listed(tab, b) \in Nat /\ (Listed(tab, b) = 0 <=> \A s \in Slots : tab[s].bo # b)
<1>. DEFINE S == {s \in Slots : tab[s].bo = b}
<1>1. IsFiniteSet(S)
    BY SlotsFinite, FS_Subset
<1>2. S = {} <=> \A s \in Slots : tab[s].bo # b
    OBVIOUS
<1>. HIDE DEF S
<1>. QED
    BY <1>1, <1>2, FS_CardinalityType, FS_EmptySet DEF Listed, S

LEMMA ListedSame ==
    ASSUME NEW tab, NEW tab2, \A s \in Slots : tab2[s].bo = tab[s].bo
    PROVE  \A b : Listed(tab2, b) = Listed(tab, b)
<1>1. ASSUME NEW b
      PROVE  {s \in Slots : tab2[s].bo = b} = {s \in Slots : tab[s].bo = b}
    OBVIOUS
<1>. QED
    BY <1>1 DEF Listed

\* 1 for the same bo.
Is(x, y) == IF x = y THEN 1 ELSE 0

LEMMA IsType == \A x, y : Is(x, y) \in {0, 1}
    BY DEF Is

\* omap_bo_reference and _unreference count one up and one down.
LEMMA RefsCount ==
    ASSUME NEW rc \in [Bos -> Int], NEW b, NEW d \in Bos
    PROVE  /\ Reference(rc, b)[d] = rc[d] + Is(b, d)
           /\ Unreference(rc, b)[d] = rc[d] - Is(b, d)
<1>1. rc[d] \in Int /\ NoBo \notin Bos
    BY SizeAssumption DEF Bos, NoBo
<1>2. CASE b = d
    BY <1>1, <1>2 DEF Reference, Unreference, Is
<1>3. CASE b # d
    BY <1>1, <1>3 DEF Reference, Unreference, Is
<1>. QED
    BY <1>2, <1>3

\* drmmode_scanout_set moves one reference, with the slot.
LEMMA SetKeepsRefs ==
    ASSUME NEW tab \in TableType, NEW r, NEW b \in Bos \cup {NoBo}, NEW rc \in [Bos -> Int],
           NEW d \in Bos
    PROVE  /\ ScanoutSetRefs(rc, tab, r, b)[d] \in Int
           /\ ScanoutSetRefs(rc, tab, r, b)[d] - Listed(ScanoutSet(tab, r, b), d)
                = rc[d] - Listed(tab, d)
<1>. DEFINE s == ScanoutFromSize(tab, r)
<1>1. s \in Slots \cup {0} /\ 0 \notin Slots
    BY LookupType DEF Slots
<1>2. rc[d] \in Int /\ Listed(tab, d) \in Nat
    BY ListedType
<1>3. CASE s = 0
    BY <1>2, <1>3 DEF ScanoutSet, ScanoutSetRefs
<1>4. CASE s # 0
    <2>. DEFINE new == [tab EXCEPT ![s].bo = b]
                old == tab[s].bo
    <2>1. ScanoutSet(tab, r, b) = new /\ ScanoutSetRefs(rc, tab, r, b) = Unreference(Reference(rc, b), old)
        BY <1>4 DEF ScanoutSet, ScanoutSetRefs
    <2>. HIDE DEF s
    <2>2. s \in Slots
        BY <1>1, <1>4
    <2>3. new[s].bo = b /\ \A t \in Slots \ {s} : new[t].bo = tab[t].bo
        BY <2>2 DEF TableType, SlotType
    <2>. HIDE DEF new
    <2>4. Listed(new, d) = Listed(tab, d) - Is(old, d) + Is(b, d)
        <3>. DEFINE A == {t \in Slots : tab[t].bo = d}
                    B == {t \in Slots : new[t].bo = d}
        <3>1. /\ A \in SUBSET Slots /\ B \in SUBSET Slots
              /\ \A t \in Slots \ {s} : t \in A <=> t \in B
            BY <2>3
        <3>2. One(s \in A) = Is(old, d) /\ One(s \in B) = Is(b, d)
            BY <2>2, <2>3 DEF One, Is
        <3>3. Listed(tab, d) = Cardinality(A) /\ Listed(new, d) = Cardinality(B)
            BY DEF Listed
        <3>. HIDE DEF A, B, old
        <3>4. Cardinality(B) = Cardinality(A) - One(s \in A) + One(s \in B)
            BY <2>2, <3>1, SlotsFinite, CountChange
        <3>. QED
            BY <3>2, <3>3, <3>4
    <2>. HIDE DEF old
    <2>5. Unreference(Reference(rc, b), old)[d] = rc[d] + Is(b, d) - Is(old, d)
        <3>1. PICK up \in [Bos -> Int] : up = Reference(rc, b)
            BY RefsType
        <3>2. up[d] = rc[d] + Is(b, d) /\ Unreference(up, old)[d] = up[d] - Is(old, d)
            BY <3>1, RefsCount
        <3>3. Is(b, d) \in Int /\ Is(old, d) \in Int /\ rc[d] \in Int /\ up[d] \in Int
            BY IsType
        <3>. QED
            BY <3>1, <3>2, <3>3
    <2>6. Is(b, d) \in Int /\ Is(old, d) \in Int
        BY IsType
    <2>. QED
        BY <1>2, <2>1, <2>4, <2>5, <2>6
<1>. QED
    BY <1>3, <1>4

\* Sets between which there is a one-to-one mapping have one size.
LEMMA SameSize ==
    ASSUME NEW S, IsFiniteSet(S), NEW T, NEW f \in [S -> T],
           \A a, b \in S : f[a] = f[b] => a = b, \A t \in T : \E a \in S : f[a] = t
    PROVE  Cardinality(T) = Cardinality(S)
<1>1. f \in Surjection(S, T) /\ f \in Injection(S, T)
    BY DEF Surjection, Injection, IsInjective
<1>. QED
    BY <1>1, FS_Surjection

\* A CRTC takes over at most one slot, which has its rectangle.
LEMMA TakenOne ==
    ASSUME NEW tab, NEW act, NEW rect, NEW c, NEW s \in Taken(tab, act, rect, c)
    PROVE  /\ s \in Slots /\ tab[s].rect = rect[c]
           /\ Taken(tab, act, rect, c) = {s} /\ The(Taken(tab, act, rect, c)) = s
<1>. DEFINE S == {t \in Slots : tab[t].rect = rect[c]}
            k == Cardinality({d \in act : d <= c /\ rect[d] = rect[c]})
<1>1. Taken(tab, act, rect, c) = Nth(S, k)
    BY DEF Taken
<1>2. S \in SUBSET Int /\ IsFiniteSet(S)
    BY SlotsFinite, FS_Subset
<1>3. s \in S
    BY DEF Taken, Nth
<1>4. s \in Slots /\ tab[s].rect = rect[c]
    BY <1>3
<1>. HIDE DEF S, k
<1>5. Rank(S, s) = k
    BY <1>1 DEF Nth, Rank
<1>6. Nth(S, k) = {s} /\ The(Nth(S, k)) = s
    BY <1>2, <1>3, <1>5, NthOfRank
<1>. QED
    BY <1>1, <1>4, <1>6

\* No slot is taken over twice.
LEMMA TakenOnce ==
    ASSUME NEW tab, NEW act \in SUBSET Crtcs, NEW rect, NEW c \in act, NEW d \in act,
           NEW s, s \in Taken(tab, act, rect, c), s \in Taken(tab, act, rect, d)
    PROVE  c = d
<1>. DEFINE r == tab[s].rect
            S == {t \in Slots : tab[t].rect = r}
            D == {e \in act : rect[e] = r}
<1>1. rect[c] = r /\ rect[d] = r
    BY TakenOne
<1>2. /\ Rank(S, s) = Cardinality({e \in act : e <= c /\ rect[e] = r})
      /\ Rank(S, s) = Cardinality({e \in act : e <= d /\ rect[e] = r})
    BY <1>1 DEF Taken, Nth, Rank
<1>3. /\ {e \in act : e <= c /\ rect[e] = r} = {e \in D : e <= c}
      /\ {e \in act : e <= d /\ rect[e] = r} = {e \in D : e <= d}
    OBVIOUS
<1>4. Rank(D, c) = Rank(D, d)
    BY <1>2, <1>3 DEF Rank
<1>5. D \in SUBSET Int /\ IsFiniteSet(D) /\ c \in D /\ d \in D
    BY <1>1, CrtcsFinite, FS_Subset
<1>. HIDE DEF D
<1>. QED
    BY <1>4, <1>5, RankOrder

\* Two CRTCs get two bos.
LEMMA NewBoOnce ==
    ASSUME NEW tab, NEW act \in SUBSET Crtcs, NEW rect, NEW free \in SUBSET Bos,
           Cardinality(Starved(tab, act, rect)) <= Cardinality(free),
           NEW c \in Starved(tab, act, rect), NEW d \in Starved(tab, act, rect),
           NewBo(tab, act, rect, free, c) = NewBo(tab, act, rect, free, d)
    PROVE  c = d
<1>. DEFINE starved == Starved(tab, act, rect)
<1>1. starved \in SUBSET Int /\ IsFiniteSet(starved)
    <2>1. starved \in SUBSET Crtcs
        BY DEF Starved
    <2>. QED
        BY <2>1, CrtcsFinite, FS_Subset
<1>2. free \in SUBSET Int /\ IsFiniteSet(free)
    BY BosFinite, FS_Subset
<1>. HIDE DEF starved
<1>3. ASSUME NEW e \in starved
      PROVE  Rank(free, The(Nth(free, Rank(starved, e)))) = Rank(starved, e)
    <2>1. Rank(starved, e) \in 1..Cardinality(free)
        <3>1. Cardinality(starved) <= Cardinality(free)
            BY DEF starved
        <3>2. Rank(starved, e) \in 1..Cardinality(starved)
            BY <1>1, UpToBounds DEF Rank
        <3>3. Cardinality(starved) \in Nat /\ Cardinality(free) \in Nat
            BY <1>1, <1>2, FS_CardinalityType
        <3>. QED
            BY <3>1, <3>2, <3>3
    <2>2. PICK x \in free : Rank(free, x) = Rank(starved, e) /\ Nth(free, Rank(starved, e)) = {x}
        BY <1>2, <2>1, NthMember
    <2>. QED
        BY <2>2 DEF The
<1>4. Rank(starved, c) = Rank(starved, d)
    <2>1. The(Nth(free, Rank(starved, c))) = The(Nth(free, Rank(starved, d)))
        BY DEF NewBo, starved
    <2>2. c \in starved /\ d \in starved
        BY DEF starved
    <2>. QED
        BY <1>3, <2>1, <2>2
<1>5. c \in starved /\ d \in starved
    BY DEF starved
<1>. QED
    BY <1>1, <1>4, <1>5, RankOrder

\* The new table: slot s is that of the active CRTC of rank s.
LEMMA TableSlot ==
    ASSUME NEW tab, NEW act \in SUBSET Crtcs, NEW rect, NEW free, NEW n, NEW s \in Slots
    PROVE  LET new == UpdatedTable(tab, act, rect, free, n)
           IN  /\ \A c \in act : Rank(act, c) = s /\ s <= n
                                   => new[s] = NewSlot(tab, act, rect, free, c)
               /\ (\A c \in act : ~(Rank(act, c) = s /\ s <= n)) => new[s] = EmptySlot
<1>. DEFINE here == {c \in Nth(act, s) : s <= n}
<1>1. act \in SUBSET Int /\ IsFiniteSet(act)
    BY CrtcsFinite, FS_Subset
<1>2. ASSUME NEW c \in act, Rank(act, c) = s, s <= n
      PROVE  here # {} /\ The(here) = c
    <2>1. Nth(act, s) = {c}
        BY <1>1, <1>2, NthOfRank
    <2>2. here = {c}
        BY <1>2, <2>1
    <2>. QED
        BY <2>2 DEF The
<1>3. ASSUME \A c \in act : ~(Rank(act, c) = s /\ s <= n)
      PROVE  here = {}
    BY <1>3 DEF Nth, Rank
<1>. QED
    BY <1>2, <1>3 DEF UpdatedTable

LEMMA RankOfCrtc ==
    ASSUME NEW act \in SUBSET Crtcs, NEW c \in act
    PROVE  Rank(act, c) \in 1..NumCrtc
<1>1. act \in SUBSET Int /\ IsFiniteSet(act) /\ Cardinality(act) <= Cardinality(Crtcs)
    BY CrtcsFinite, FS_Subset
<1>2. Cardinality(Crtcs) = NumCrtc
    BY SizeAssumption, FS_Interval DEF Crtcs
<1>3. /\ Rank(act, c) \in Nat /\ Cardinality(act) \in Nat /\ Rank(act, c) <= Cardinality(act)
      /\ Rank(act, c) >= 1
    BY <1>1, RankType
<1>. QED
    BY <1>1, <1>2, <1>3, SizeAssumption

\* The bo of a new slot is the one taken over or the new one.
LEMMA NewSlotBo ==
    ASSUME NEW tab, NEW act, NEW rect, NEW free, NEW c \in act
    PROVE  /\ c \in Starved(tab, act, rect) <=> Taken(tab, act, rect, c) = {}
           /\ c \in Starved(tab, act, rect)
                => NewSlot(tab, act, rect, free, c).bo = NewBo(tab, act, rect, free, c)
           /\ \A s \in Taken(tab, act, rect, c) :
                NewSlot(tab, act, rect, free, c).bo = tab[s].bo
<1>1. ASSUME Taken(tab, act, rect, c) = {}
      PROVE  NewSlot(tab, act, rect, free, c).bo = NewBo(tab, act, rect, free, c)
    BY <1>1 DEF NewSlot
<1>2. ASSUME NEW s \in Taken(tab, act, rect, c)
      PROVE  NewSlot(tab, act, rect, free, c).bo = tab[s].bo
    <2>1. The(Taken(tab, act, rect, c)) = s
        BY TakenOne
    <2>. QED
        BY <2>1, <1>2 DEF NewSlot
<1>. QED
    BY <1>1, <1>2 DEF Starved

\* The slots of the new table with bo b are as many as the old ones that were
\* taken over, or one if the bo is new.
LEMMA ListedTable ==
    ASSUME NEW tab, NEW act \in SUBSET Crtcs, NEW rect, NEW free \in SUBSET Bos,
           Cardinality(Starved(tab, act, rect)) <= Cardinality(free),
           \A s \in Slots : tab[s].bo \notin free,
           NumCrtc <= MaxScanouts, NEW n \in Nat, NEW b \in Bos,
           NEW kept, kept = {s \in Slots : /\ tab[s].bo = b
                                           /\ \E c \in act : /\ Rank(act, c) <= n
                                                             /\ s \in Taken(tab, act, rect, c)}
    PROVE  LET fresh == FreshBos(tab, act, rect, free, n)
               new   == UpdatedTable(tab, act, rect, free, n)
           IN  /\ b \notin fresh => Listed(new, b) = Cardinality(kept)
               /\ b \in fresh => b \in free /\ Listed(new, b) = 1
<1>. DEFINE slot(c) == NewSlot(tab, act, rect, free, c)
            taken(c) == Taken(tab, act, rect, c)
            fresh == FreshBos(tab, act, rect, free, n)
            new == UpdatedTable(tab, act, rect, free, n)
            C == {c \in act : Rank(act, c) <= n /\ slot(c).bo = b}
            T == {s \in Slots : new[s].bo = b}
            starved == Starved(tab, act, rect)
            newbo(c) == NewBo(tab, act, rect, free, c)
<1>1. /\ \A c \in act : c \in starved <=> taken(c) = {}
      /\ \A c \in act : c \in starved => slot(c).bo = newbo(c)
      /\ \A c \in act : \A s \in taken(c) : slot(c).bo = tab[s].bo
    <2>1. ASSUME NEW c \in act
          PROVE  /\ c \in starved <=> taken(c) = {}
                 /\ c \in starved => slot(c).bo = newbo(c)
                 /\ \A s \in taken(c) : slot(c).bo = tab[s].bo
        BY NewSlotBo
    <2>. HIDE DEF slot, taken, starved, newbo
    <2>. QED
        BY <2>1
<1>2. /\ \A c \in act : \A s \in taken(c) : s \in Slots /\ The(taken(c)) = s
      /\ \A c, d \in act : \A s \in Slots : s \in taken(c) /\ s \in taken(d) => c = d
    BY TakenOne, TakenOnce
<1>3. /\ \A c \in starved : newbo(c) \in free
      /\ \A c, d \in starved : newbo(c) = newbo(d) => c = d
    BY NewBoType, NewBoOnce
<1>4. fresh = {newbo(c) : c \in {d \in starved : Rank(act, d) <= n}} /\ starved \subseteq act
    BY DEF FreshBos, Starved
<1>5. /\ \A s \in Slots : \A c \in act : Rank(act, c) = s /\ s <= n => new[s] = slot(c)
      /\ \A s \in Slots : (\A c \in act : ~(Rank(act, c) = s /\ s <= n)) => new[s].bo = NoBo
    <2>1. EmptySlot.bo = NoBo
        BY DEF EmptySlot
    <2>. QED
        BY <2>1, TableSlot
<1>6. act \in SUBSET Int /\ IsFiniteSet(act) /\ NoBo # b
    <2>1. NoBo # b
        BY DEF NoBo, Bos
    <2>. QED
        BY <2>1, CrtcsFinite, FS_Subset
<1>7. \A c \in act : Rank(act, c) \in Slots
    BY RankOfCrtc, SizeAssumption DEF Slots
<1>8. \A c, d \in act : Rank(act, c) = Rank(act, d) => c = d
    BY <1>6, RankOrder
<1>9. C \in SUBSET act /\ IsFiniteSet(C)
    BY <1>6, FS_Subset
<1>0. \A s : s \in kept <=> /\ s \in Slots /\ tab[s].bo = b
                            /\ \E c \in act : Rank(act, c) <= n /\ s \in taken(c)
    OBVIOUS
<1>. HIDE DEF slot, taken, fresh, new, starved, newbo
<1>10. Cardinality(T) = Cardinality(C)
    <2>. DEFINE f == [c \in C |-> Rank(act, c)]
    <2>1. f \in [C -> T]
        BY <1>5, <1>7
    <2>2. \A a, c \in C : f[a] = f[c] => a = c
        BY <1>8
    <2>3. ASSUME NEW t \in T
          PROVE  \E c \in C : f[c] = t
        <3>1. t \in Slots /\ new[t].bo = b
            OBVIOUS
        <3>2. PICK c \in act : Rank(act, c) = t /\ t <= n
            BY <1>5, <1>6, <3>1
        <3>3. c \in C
            BY <1>5, <3>1, <3>2
        <3>. QED
            BY <3>2, <3>3
    <2>. HIDE DEF f, C, T
    <2>. QED
        BY <1>9, <2>1, <2>2, <2>3, SameSize
<1>11. Listed(new, b) = Cardinality(T)
    BY DEF Listed
<1>12. ASSUME b \notin fresh
       PROVE  Cardinality(kept) = Cardinality(C)
    <2>1. ASSUME NEW c \in C
          PROVE  \E s \in taken(c) : s \in kept /\ The(taken(c)) = s
        <3>1. c \in act /\ Rank(act, c) <= n /\ slot(c).bo = b
            OBVIOUS
        <3>2. c \notin starved
            BY <1>1, <1>4, <1>12, <3>1
        <3>3. PICK s \in taken(c) : TRUE
            BY <1>1, <3>1, <3>2
        <3>. QED
            BY <1>0, <1>1, <1>2, <3>1, <3>3
    <2>. DEFINE f == [c \in C |-> The(taken(c))]
    <2>2. f \in [C -> kept]
        BY <2>1
    <2>3. ASSUME NEW a \in C, NEW c \in C, f[a] = f[c]
          PROVE  a = c
        <3>1. PICK s \in taken(a), t \in taken(c) : f[a] = s /\ f[c] = t /\ s \in kept
            BY <2>1
        <3>2. s = t /\ a \in act /\ c \in act /\ s \in Slots
            BY <1>0, <2>3, <3>1
        <3>. QED
            BY <1>2, <3>1, <3>2
    <2>4. ASSUME NEW s \in kept
          PROVE  \E c \in C : f[c] = s
        <3>1. PICK c \in act : Rank(act, c) <= n /\ s \in taken(c)
            BY <1>0
        <3>2. c \in C /\ The(taken(c)) = s
            BY <1>0, <1>1, <1>2, <3>1
        <3>. QED
            BY <3>2
    <2>. HIDE DEF f, C
    <2>. QED
        BY <1>9, <2>2, <2>3, <2>4, SameSize
<1>13. ASSUME b \in fresh
       PROVE  b \in free /\ Cardinality(C) = 1
    <2>1. PICK c \in starved : Rank(act, c) <= n /\ newbo(c) = b
        BY <1>4, <1>13
    <2>2. b \in free /\ c \in C
        BY <1>1, <1>3, <1>4, <2>1
    <2>3. ASSUME NEW d \in C
          PROVE  d = c
        <3>1. d \in act /\ slot(d).bo = b
            OBVIOUS
        <3>2. d \in starved
            BY <1>1, <1>2, <2>2, <3>1
        <3>. QED
            BY <1>1, <1>3, <2>1, <3>1, <3>2
    <2>4. C = {c}
        BY <2>2, <2>3
    <2>. HIDE DEF C
    <2>. QED
        BY <2>2, <2>4, FS_Singleton
<1>. QED
    BY <1>10, <1>11, <1>12, <1>13 DEF fresh, new, taken

\* drmmode_update_scanouts keeps the references: those to b that no slot
\* holds stay as many.
LEMMA DoneKeepsRefs ==
    ASSUME NEW tab, NEW act \in SUBSET Crtcs, NEW rect, NEW free \in SUBSET Bos,
           Cardinality(Starved(tab, act, rect)) <= Cardinality(free),
           NEW rc \in [Bos -> Int],
           \A e \in free : rc[e] = 0 /\ \A s \in Slots : tab[s].bo # e,
           NumCrtc <= MaxScanouts, NEW b \in Bos
    PROVE  LET u == UpdateDone(tab, act, rect, free, rc)
           IN  u.rc[b] \in Int /\ u.rc[b] - Listed(u.tab, b) = rc[b] - Listed(tab, b)
<1>. DEFINE u == UpdateDone(tab, act, rect, free, rc)
            gone == Discarded(tab, act, rect)
            fresh == FreshBos(tab, act, rect, free, NumCrtc)
            new == UpdatedTable(tab, act, rect, free, NumCrtc)
            S == {s \in Slots : tab[s].bo = b}
            kept == {s \in Slots : tab[s].bo = b /\ \E c \in act : s \in Taken(tab, act, rect, c)}
            drop == {s \in gone : tab[s].bo = b}
<1>1. u.tab = new /\ u.rc[b] = IF b \in fresh THEN 1 ELSE rc[b] - Cardinality(drop)
    BY DEF UpdateDone, Lost
<1>2. /\ b \notin fresh => Listed(new, b) = Cardinality(kept)
      /\ b \in fresh => b \in free /\ Listed(new, b) = 1
    <2>1. \A s \in Slots : tab[s].bo \notin free
        OBVIOUS
    <2>2. \A c \in act : Rank(act, c) <= NumCrtc
        BY RankOfCrtc
    <2>3. kept = {s \in Slots : /\ tab[s].bo = b
                               /\ \E c \in act : Rank(act, c) <= NumCrtc /\ s \in Taken(tab, act, rect, c)}
        BY <2>2
    <2>4. NumCrtc \in Nat
        BY SizeAssumption
    <2>. HIDE DEF kept
    <2>. QED
        BY <2>1, <2>3, <2>4, ListedTable
<1>3. /\ IsFiniteSet(S) /\ kept \in SUBSET S /\ drop = S \ kept
    <2>1. IsFiniteSet(S) /\ kept \in SUBSET S
        BY SlotsFinite, FS_Subset
    <2>2. b # NoBo
        BY DEF Bos, NoBo
    <2>3. \A s : s \in drop <=> s \in S \ kept
        BY <2>2 DEF Discarded
    <2>. QED
        BY <2>1, <2>3
<1>4. Listed(tab, b) = Cardinality(S)
    BY DEF Listed
<1>5. b \in free => rc[b] = 0 /\ Cardinality(S) = 0
    BY FS_EmptySet
<1>. HIDE DEF S, kept, drop, gone, fresh, new, u
<1>6. /\ Cardinality(drop) = Cardinality(S) - Cardinality(kept)
      /\ Cardinality(kept) \in Nat /\ Cardinality(S) \in Nat /\ rc[b] \in Int
    <2>1. S \cap kept = kept /\ IsFiniteSet(kept)
        BY <1>3, FS_Subset
    <2>. QED
        BY <1>3, <2>1, FS_Difference, FS_CardinalityType
<1>7. CASE b \in fresh
    BY <1>1, <1>2, <1>4, <1>5, <1>6, <1>7 DEF u
<1>8. CASE b \notin fresh
    BY <1>1, <1>2, <1>4, <1>6, <1>8 DEF u
<1>. QED
    BY <1>7, <1>8 DEF u

\* When it stops early the old bos it did not get to stay referenced.
LEMMA StoppedKeepsRefs ==
    ASSUME NEW tab, NEW act \in SUBSET Crtcs, NEW rect, NEW free \in SUBSET Bos,
           Cardinality(Starved(tab, act, rect)) <= Cardinality(free),
           NEW rc \in [Bos -> Int],
           \A e \in free : rc[e] = 0 /\ \A s \in Slots : tab[s].bo # e,
           NumCrtc <= MaxScanouts, NEW n \in Nat, NEW b \in Bos
    PROVE  LET u == UpdateStopped(tab, act, rect, free, rc, n, {})
           IN  u.rc[b] \in Int /\ u.rc[b] - Listed(u.tab, b) >= rc[b] - Listed(tab, b)
<1>. DEFINE u == UpdateStopped(tab, act, rect, free, rc, n, {})
            fresh == FreshBos(tab, act, rect, free, n)
            new == UpdatedTable(tab, act, rect, free, n)
            S == {s \in Slots : tab[s].bo = b}
            kept == {s \in Slots : /\ tab[s].bo = b
                                   /\ \E c \in act : Rank(act, c) <= n /\ s \in Taken(tab, act, rect, c)}
<1>1. u.tab = new /\ u.rc[b] = IF b \in fresh THEN 1 ELSE rc[b] - Lost(tab, {}, b)
    BY DEF UpdateStopped
<1>2. Lost(tab, {}, b) = 0
    <2>1. {s \in {} : tab[s].bo = b} = {}
        OBVIOUS
    <2>. QED
        BY <2>1, FS_EmptySet DEF Lost
<1>3. /\ b \notin fresh => Listed(new, b) = Cardinality(kept)
      /\ b \in fresh => b \in free /\ Listed(new, b) = 1
    <2>1. \A s \in Slots : tab[s].bo \notin free
        OBVIOUS
    <2>2. kept = {s \in Slots : /\ tab[s].bo = b
                                /\ \E c \in act : Rank(act, c) <= n /\ s \in Taken(tab, act, rect, c)}
        OBVIOUS
    <2>. HIDE DEF kept
    <2>. QED
        BY <2>1, <2>2, ListedTable
<1>4. IsFiniteSet(S) /\ kept \in SUBSET S
    BY SlotsFinite, FS_Subset
<1>5. Listed(tab, b) = Cardinality(S)
    BY DEF Listed
<1>6. b \in free => rc[b] = 0 /\ Cardinality(S) = 0
    BY FS_EmptySet
<1>. HIDE DEF S, kept, fresh, new, u
<1>7. /\ Cardinality(kept) <= Cardinality(S)
      /\ Cardinality(kept) \in Nat /\ Cardinality(S) \in Nat /\ rc[b] \in Int
    BY <1>4, FS_Subset, FS_CardinalityType
<1>8. CASE b \in fresh
    BY <1>1, <1>3, <1>5, <1>6, <1>7, <1>8 DEF u
<1>9. CASE b \notin fresh
    BY <1>1, <1>2, <1>3, <1>5, <1>7, <1>9 DEF u
<1>. QED
    BY <1>8, <1>9 DEF u

LEMMA UpdateKeepsRefs ==
    ASSUME NEW tab, NEW act \in SUBSET Crtcs, NEW rect, NEW free \in SUBSET Bos,
           Cardinality(Starved(tab, act, rect)) <= Cardinality(free),
           NEW rc \in [Bos -> Int],
           \A e \in free : rc[e] = 0 /\ \A s \in Slots : tab[s].bo # e,
           NumCrtc <= MaxScanouts, NEW canFail \in BOOLEAN, NEW b \in Bos,
           NEW u \in UpdateScanouts(tab, act, rect, free, rc, canFail)
    PROVE  /\ u.rc[b] \in Int
           /\ u.rc[b] - Listed(u.tab, b) >= rc[b] - Listed(tab, b)
           /\ ~canFail => u.rc[b] - Listed(u.tab, b) = rc[b] - Listed(tab, b)
<1>. DEFINE full == {c \in act : Rank(act, c) = MaxScanouts + 1}
            done == UpdateDone(tab, act, rect, free, rc)
            stopped(c) == UpdateStopped(tab, act, rect, free, rc, Rank(act, c) - 1, {})
<1>1. \A c \in act : Rank(act, c) \in 1..NumCrtc
    BY RankOfCrtc
<1>2. full = {}
    BY <1>1, SizeAssumption
<1>3. u = done \/ (canFail /\ \E c \in act : u = stopped(c))
    <2>1. Starved(tab, act, rect) \subseteq act
        BY DEF Starved
    <2>. QED
        BY <1>2, <2>1 DEF UpdateScanouts
<1>4. \A c \in act : Rank(act, c) - 1 \in Nat
    BY <1>1, SizeAssumption
<1>5. rc[b] \in Int /\ Listed(tab, b) \in Nat
    BY ListedType
<1>6. CASE u = done
    <2>1. u.rc[b] \in Int /\ u.rc[b] - Listed(u.tab, b) = rc[b] - Listed(tab, b)
        BY <1>6, DoneKeepsRefs
    <2>. QED
        BY <1>5, <2>1
<1>7. CASE canFail /\ \E c \in act : u = stopped(c)
    <2>1. PICK c \in act : u = stopped(c)
        BY <1>7
    <2>2. u.rc[b] \in Int /\ u.rc[b] - Listed(u.tab, b) >= rc[b] - Listed(tab, b)
        BY <1>4, <2>1, StoppedKeepsRefs
    <2>. QED
        BY <1>7, <2>2
<1>. QED
    BY <1>3, <1>6, <1>7

LEMMA SlotOfTable ==
    ASSUME NEW tab, NEW act \in SUBSET Crtcs, NEW rect, NEW free, NEW n, NEW s \in Slots
    PROVE  LET new == UpdatedTable(tab, act, rect, free, n)
           IN  new[s] = EmptySlot \/ \E c \in act : new[s] = NewSlot(tab, act, rect, free, c)
    BY TableSlot

\* A slot of the new table has the rectangle of its CRTC, and its bo and valid
\* flag are those of an old slot, or it has a new bo and is invalid.
LEMMA UpdatedSlot ==
    ASSUME NEW tab \in TableType, NEW act \in SUBSET Crtcs, NEW rect, NEW free \in SUBSET Bos,
           Cardinality(Starved(tab, act, rect)) <= Cardinality(free),
           \A t \in Slots : tab[t].bo = NoBo => tab[t].rect = NoRect,
           \A c \in act : rect[c] # NoRect, NEW n \in Nat, NEW s \in Slots
    PROVE  LET new == UpdatedTable(tab, act, rect, free, n)[s]
           IN  \/ new = EmptySlot
               \/ /\ \E c \in act : new.rect = rect[c]
                  /\ new.bo \in Bos
                  /\ \/ new.bo \in free /\ ~new.valid
                     \/ \E t \in Slots : /\ tab[t].bo = new.bo /\ tab[t].rect = new.rect
                                         /\ tab[t].valid = new.valid
<1>. DEFINE table == UpdatedTable(tab, act, rect, free, n)
            slot(c) == NewSlot(tab, act, rect, free, c)
<1>1. table[s] = EmptySlot \/ \E c \in act : table[s] = slot(c)
    BY SlotOfTable
<1>. HIDE DEF table, slot
<1>2. ASSUME NEW c \in act, table[s] = slot(c)
      PROVE  /\ \E d \in act : table[s].rect = rect[d]
             /\ table[s].bo \in Bos
             /\ \/ table[s].bo \in free /\ ~table[s].valid
                \/ \E t \in Slots : /\ tab[t].bo = table[s].bo /\ tab[t].rect = table[s].rect
                                    /\ tab[t].valid = table[s].valid
    <2>1. CASE Taken(tab, act, rect, c) = {}
        <3>1. slot(c) = [bo |-> NewBo(tab, act, rect, free, c), rect |-> rect[c], valid |-> FALSE]
            BY <2>1 DEF slot, NewSlot
        <3>2. NewBo(tab, act, rect, free, c) \in free
            BY <2>1, NewBoType DEF Starved
        <3>3. /\ table[s].rect = rect[c] /\ table[s].bo \in free /\ table[s].bo \in Bos
              /\ ~table[s].valid
            BY <1>2, <3>1, <3>2
        <3>. QED
            BY <3>3
    <2>2. CASE Taken(tab, act, rect, c) # {}
        <3>1. PICK t \in Taken(tab, act, rect, c) : TRUE
            BY <2>2
        <3>2. t \in Slots /\ tab[t].rect = rect[c] /\ The(Taken(tab, act, rect, c)) = t
            BY TakenOne
        <3>3. slot(c) = [bo |-> tab[t].bo, rect |-> rect[c], valid |-> tab[t].valid]
            BY <2>2, <3>2 DEF slot, NewSlot
        <3>4. tab[t].bo \in Bos
            BY <3>2 DEF TableType, SlotType
        <3>5. /\ table[s].rect = rect[c] /\ table[s].bo \in Bos
              /\ tab[t].bo = table[s].bo /\ tab[t].rect = table[s].rect
              /\ tab[t].valid = table[s].valid
            BY <1>2, <3>2, <3>3, <3>4
        <3>. QED
            BY <3>2, <3>5
    <2>. QED
        BY <2>1, <2>2
<1>. QED
    BY <1>1, <1>2 DEF table

\* However it ends, the table is one of the new tables.
LEMMA UpdateEnds ==
    ASSUME NEW tab, NEW act \in SUBSET Crtcs, NEW rect, NEW free, NEW rc, NEW canFail,
           NEW u \in UpdateScanouts(tab, act, rect, free, rc, canFail), NumCrtc <= MaxScanouts
    PROVE  \/ u = UpdateDone(tab, act, rect, free, rc)
           \/ \E n \in Nat : u = UpdateStopped(tab, act, rect, free, rc, n, {})
<1>1. \A c \in act : Rank(act, c) \in 1..NumCrtc
    BY RankOfCrtc
<1>. DEFINE full == {c \in act : Rank(act, c) = MaxScanouts + 1}
            done == UpdateDone(tab, act, rect, free, rc)
            stopped(n) == UpdateStopped(tab, act, rect, free, rc, n, {})
<1>2. full = {}
    BY <1>1, SizeAssumption
<1>3. u = done \/ \E c \in act : u = stopped(Rank(act, c) - 1)
    <2>1. Starved(tab, act, rect) \subseteq act
        BY DEF Starved
    <2>. QED
        BY <1>2, <2>1 DEF UpdateScanouts
<1>. HIDE DEF done, stopped
<1>4. u = done \/ \E n \in Nat : u = stopped(n)
    BY <1>1, <1>3, SizeAssumption
<1>. QED
    BY <1>4 DEF done, stopped

LEMMA UpdateIsTable ==
    ASSUME NEW tab, NEW act \in SUBSET Crtcs, NEW rect, NEW free, NEW rc, NEW canFail,
           NEW u \in UpdateScanouts(tab, act, rect, free, rc, canFail), NumCrtc <= MaxScanouts
    PROVE  \E n \in Nat : u.tab = UpdatedTable(tab, act, rect, free, n)
<1>1. \/ u = UpdateDone(tab, act, rect, free, rc)
      \/ \E n \in Nat : u = UpdateStopped(tab, act, rect, free, rc, n, {})
    BY UpdateEnds
<1>. QED
    BY <1>1, SizeAssumption DEF UpdateDone, UpdateStopped

LEMMA UpdateTable ==
    ASSUME NEW tab, NEW act \in SUBSET Crtcs, NEW rect, NEW free, NEW rc, NEW canFail,
           NEW u \in UpdateScanouts(tab, act, rect, free, rc, canFail), NumCrtc <= MaxScanouts
    PROVE  \E n \in Nat :
             /\ u.tab = UpdatedTable(tab, act, rect, free, n)
             /\ \A b \in Bos \ FreshBos(tab, act, rect, free, n) :
                  \E lost \in Nat : u.rc[b] = rc[b] - lost
<1>1. CASE u = UpdateDone(tab, act, rect, free, rc)
    <2>1. \A b \in Bos : Lost(tab, Discarded(tab, act, rect), b) \in Nat
        BY LostType DEF Discarded
    <2>2. NumCrtc \in Nat
        BY SizeAssumption
    <2>. QED
        BY <1>1, <2>1, <2>2 DEF UpdateDone
<1>2. ASSUME NEW n \in Nat, u = UpdateStopped(tab, act, rect, free, rc, n, {})
      PROVE  /\ u.tab = UpdatedTable(tab, act, rect, free, n)
             /\ \A b \in Bos \ FreshBos(tab, act, rect, free, n) :
                  \E lost \in Nat : u.rc[b] = rc[b] - lost
    <2>1. \A b \in Bos : Lost(tab, {}, b) \in Nat
        BY LostType
    <2>. QED
        BY <1>2, <2>1 DEF UpdateStopped
<1>3. \/ u = UpdateDone(tab, act, rect, free, rc)
      \/ \E n \in Nat : u = UpdateStopped(tab, act, rect, free, rc, n, {})
    BY UpdateEnds
<1>. QED
    BY <1>1, <1>2, <1>3

\* A bo that has references afterwards had some before, or is new in a slot.
LEMMA UpdateGrows ==
    ASSUME NEW tab, NEW act \in SUBSET Crtcs, NEW rect, NEW free \in SUBSET Bos,
           Cardinality(Starved(tab, act, rect)) <= Cardinality(free),
           NEW rc \in [Bos -> Int], \A s \in Slots : tab[s].bo \notin free,
           NumCrtc <= MaxScanouts, NEW canFail, NEW b \in Bos,
           NEW u \in UpdateScanouts(tab, act, rect, free, rc, canFail), u.rc[b] > 0
    PROVE  rc[b] > 0 \/ \E s \in Slots : u.tab[s].bo = b
<1>1. PICK n \in Nat :
             /\ u.tab = UpdatedTable(tab, act, rect, free, n)
             /\ \A e \in Bos \ FreshBos(tab, act, rect, free, n) :
                  \E lost \in Nat : u.rc[e] = rc[e] - lost
    BY UpdateTable
<1>2. CASE b \in FreshBos(tab, act, rect, free, n)
    <2>. DEFINE kept == {s \in Slots : /\ tab[s].bo = b
                                       /\ \E c \in act : /\ Rank(act, c) <= n
                                                         /\ s \in Taken(tab, act, rect, c)}
    <2>1. \A k : k = kept => Listed(UpdatedTable(tab, act, rect, free, n), b) = 1
        BY <1>2, ListedTable
    <2>2. Listed(UpdatedTable(tab, act, rect, free, n), b) = 1
        BY <2>1
    <2>3. Listed(u.tab, b) = 1
        BY <1>1, <2>2
    <2>. QED
        BY <2>3, ListedType
<1>3. CASE b \notin FreshBos(tab, act, rect, free, n)
    <2>1. PICK lost \in Nat : u.rc[b] = rc[b] - lost
        BY <1>1, <1>3
    <2>. QED
        BY <2>1
<1>. QED
    BY <1>2, <1>3

LEMMA DoneIsUpdate ==
    ASSUME NEW tab, NEW act \in SUBSET Crtcs, NEW rect, NEW free, NEW rc, NumCrtc <= MaxScanouts
    PROVE  UpdateDone(tab, act, rect, free, rc) \in UpdateScanouts(tab, act, rect, free, rc, FALSE)
<1>1. \A c \in act : Rank(act, c) \in 1..NumCrtc
    BY RankOfCrtc
<1>2. {c \in act : Rank(act, c) = MaxScanouts + 1} = {}
    BY <1>1, SizeAssumption
<1>. QED
    BY <1>2 DEF UpdateScanouts
=============================================================================
