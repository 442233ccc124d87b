-------------------------- MODULE UpdateLoop_proofs --------------------------
(***************************************************************************)
(* The two loops of drmmode_update_scanouts, for every number of CRTCs,    *)
(* slots and bos: each bo keeps as many references as tables list it, each *)
(* CRTC keeps its buffer, and the loops compute Scanouts!UpdateScanouts.   *)
(***************************************************************************)
EXTENDS UpdateLoop, Scanouts_proofs

-----------------------------------------------------------------------------
\* drmmode_scanout_add finds the first slot without a bo.
LEMMA AddAtFirst ==
    /\ AddAt \in Slots \cup {0}
    /\ AddAt # 0 => scanouts[AddAt].bo = NoBo /\ \A s \in Slots : scanouts[s].bo = NoBo => AddAt <= s
    /\ AddAt = 0 => \A s \in Slots : scanouts[s].bo # NoBo
<1>. DEFINE room == {s \in Slots : scanouts[s].bo = NoBo}
<1>1. CASE room = {}
    BY <1>1 DEF AddAt
<1>2. CASE room # {}
    <2>1. The(Nth(room, 1)) \in room /\ \A t \in room : The(Nth(room, 1)) <= t
        BY <1>2, SomeSlots
    <2>2. AddAt = The(Nth(room, 1)) /\ 0 \notin Slots
        BY <1>2 DEF AddAt, Slots
    <2>. QED
        BY <2>1, <2>2
<1>. QED
    BY <1>1, <1>2

-----------------------------------------------------------------------------
(* Counting references.                                                    *)

LEMMA SlotsChange ==
    ASSUME NEW A \in SUBSET Slots, NEW B \in SUBSET Slots, NEW e \in Slots,
           \A s \in Slots \ {e} : s \in A <=> s \in B
    PROVE  /\ Cardinality(A) \in Nat /\ Cardinality(B) \in Nat
           /\ Cardinality(B) = Cardinality(A) - One(e \in A) + One(e \in B)
           /\ Cardinality(A) >= One(e \in A)
    BY SlotsFinite, CountChange

Waits(s) == pc \in {"crtcs", "failed"} \/ (pc = "drop" /\ s >= i)
InNew(b) == Cardinality({s \in Slots : scanouts[s].bo = b})
InOld(b) == Cardinality({s \in Slots : old[s].bo = b /\ Waits(s)})

LEMMA CountTypes == \A b : InNew(b) \in Nat /\ InOld(b) \in Nat
<1>1. ASSUME NEW A \in SUBSET Slots
      PROVE  Cardinality(A) \in Nat
    BY SlotsFinite, FS_Subset, FS_CardinalityType
<1>. QED
    BY <1>1 DEF InNew, InOld

LEMMA CountsRead ==
    CountsHolders <=> (pc # "failed" => \A b \in Bos : rc[b] = InNew(b) + InOld(b))
    BY DEF CountsHolders, InNew, InOld, Waits

LEMMA RefsChange ==
    ASSUME NEW counts \in [Bos -> Int], NEW b \in Bos
    PROVE  /\ Unreference(Reference(counts, b), b) = counts
           /\ Unreference(counts, b) \in [Bos -> Int]
           /\ \A c \in Bos : Unreference(counts, b)[c] = counts[c] - One(c = b)
<1>1. b # NoBo
    BY DEF NoBo, Bos
<1>2. Unreference(counts, b) = [counts EXCEPT ![b] = counts[b] - 1]
    BY <1>1 DEF Unreference
<1>3. /\ Unreference(counts, b) \in [Bos -> Int]
      /\ \A c \in Bos : Unreference(counts, b)[c] = counts[c] - One(c = b)
    BY <1>2 DEF One
<1>. DEFINE more == [counts EXCEPT ![b] = counts[b] + 1]
<1>4. Unreference(Reference(counts, b), b) = [more EXCEPT ![b] = more[b] - 1]
    BY <1>1 DEF Unreference, Reference
<1>5. [more EXCEPT ![b] = more[b] - 1] = counts
    <2>. DEFINE less == [more EXCEPT ![b] = more[b] - 1]
    <2>1. more \in [Bos -> Int] /\ more[b] = counts[b] + 1
        OBVIOUS
    <2>2. \A c \in Bos : c # b => more[c] = counts[c]
        OBVIOUS
    <2>. HIDE DEF more
    <2>3. less \in [Bos -> Int] /\ less[b] = counts[b] /\ \A c \in Bos : c # b => less[c] = counts[c]
        BY <2>1, <2>2
    <2>. HIDE DEF less
    <2>4. less = counts
        BY <2>3
    <2>. QED
        BY <2>4 DEF less
<1>. QED
    BY <1>3, <1>4, <1>5

-----------------------------------------------------------------------------
(* The inductive invariant.                                                *)

Phases == /\ pc = "crtcs" => i <= NumCrtc + 1
          /\ pc = "drop" => i <= MaxScanouts + 1

\* A slot has a bo and a rectangle, or is zeroed.
Filled(tab) == \A s \in Slots : IF tab[s].bo = NoBo THEN tab[s] = EmptySlot
                                ELSE tab[s].rect \in RectChoices

Packed == \A s, t \in Slots : s < t /\ scanouts[t].bo # NoBo => scanouts[s].bo # NoBo

\* The CRTCs the loop is through with have a slot.
Through(c) == pc \in {"drop", "done"} \/ (pc = "crtcs" /\ c < i)
Served == \A c \in act : Through(c) => \E s \in Slots : scanouts[s].rect = rect[c]

\* The first new slot with a rectangle has what the first old one had; while
\* there is no new one the old ones are as they were.
Kept ==
    \A r \in RectChoices :
        LET was == ScanoutFromSize(tab0, r)
            is  == ScanoutFromSize(scanouts, r)
        IN  /\ is # 0 /\ was # 0 => /\ scanouts[is].bo = tab0[was].bo
                                    /\ scanouts[is].valid = tab0[was].valid
            /\ is # 0 /\ was = 0 => ~scanouts[is].valid
            /\ is = 0 /\ pc = "crtcs" =>
                   \A s \in Slots : old[s].rect = r \/ tab0[s].rect = r => old[s] = tab0[s]

IInv == /\ TypeOK /\ Phases /\ CountsHolders
        /\ Filled(tab0) /\ Filled(old) /\ Filled(scanouts) /\ Packed
        /\ Served /\ Kept

\* No rectangle of a CRTC is that of an empty slot.
LEMMA RectsReal == RectChoices \subseteq Rects /\ NoRect \notin RectChoices
    BY LoopAssumption DEF NoRect, Rects

LEMMA EmptySlotType == EmptySlot \in SlotType /\ EmptySlot.bo = NoBo /\ EmptySlot.rect = NoRect
    BY DEF EmptySlot, SlotType, NoRect, Rects

LEMMA InitIInv == Init => IInv
<1>. SUFFICES ASSUME Init PROVE IInv
    OBVIOUS
<1>1. PICK n \in 0..MaxScanouts : /\ n <= NumBo
          /\ \E r \in [1..n -> RectChoices], v \in [1..n -> BOOLEAN] :
               tab0 = [s \in Slots |-> IF s <= n THEN [bo |-> s, rect |-> r[s], valid |-> v[s]]
                                       ELSE EmptySlot]
    BY DEF Init
<1>2. PICK r \in [1..n -> RectChoices], v \in [1..n -> BOOLEAN] :
          tab0 = [s \in Slots |-> IF s <= n THEN [bo |-> s, rect |-> r[s], valid |-> v[s]]
                                  ELSE EmptySlot]
    BY <1>1
<1>3. /\ rect \in [Crtcs -> RectChoices] /\ enabled \in [Crtcs -> BOOLEAN]
      /\ old = tab0 /\ scanouts = [s \in Slots |-> EmptySlot] /\ rc = rc0
      /\ resized = FALSE /\ i = 1 /\ pc = "crtcs"
    BY DEF Init
<1>4. ASSUME NEW s \in Slots
      PROVE  tab0[s] \in SlotType /\ (IF tab0[s].bo = NoBo THEN tab0[s] = EmptySlot
                                      ELSE tab0[s].rect \in RectChoices)
    <2>1. CASE s <= n
        <3>1. s \in 1..n /\ s \in Bos
            BY <1>1, <2>1, SizeAssumption DEF Slots, Bos
        <3>2. tab0[s] = [bo |-> s, rect |-> r[s], valid |-> v[s]]
            BY <1>2, <2>1
        <3>3. r[s] \in RectChoices /\ v[s] \in BOOLEAN /\ s # NoBo
            BY <3>1 DEF Bos, NoBo
        <3>. QED
            BY <3>1, <3>2, <3>3, RectsReal DEF SlotType
    <2>2. CASE ~(s <= n)
        BY <1>2, <2>2, EmptySlotType
    <2>. QED
        BY <2>1, <2>2
<1>5. tab0 \in TableType /\ Filled(tab0)
    <2>1. tab0 = [s \in Slots |-> tab0[s]]
        BY <1>2
    <2>. QED
        BY <1>4, <2>1 DEF TableType, Filled
<1>6. scanouts \in TableType /\ Filled(scanouts) /\ Packed
    BY <1>3, EmptySlotType DEF TableType, Filled, Packed
<1>7. rc0 \in [Bos -> Int] /\ \A b \in Bos : rc0[b] = Cardinality({s \in Slots : tab0[s].bo = b})
    <2>1. \A b \in Bos : Cardinality({s \in Slots : tab0[s].bo = b}) \in Int
        BY SlotsFinite, FS_Subset, FS_CardinalityType
    <2>. QED
        BY <2>1 DEF rc0
<1>8. TypeOK /\ Phases
    <2>1. 1 \in 1..(NumCrtc + MaxScanouts + 1) /\ 1 <= NumCrtc + 1
        BY SizeAssumption
    <2>. QED
        BY <1>3, <1>5, <1>6, <1>7, <2>1 DEF TypeOK, Phases
<1>9. CountsHolders
    <2>1. ASSUME NEW b \in Bos
          PROVE  rc[b] = InNew(b) + InOld(b)
        <3>1. {s \in Slots : scanouts[s].bo = b} = {}
            BY <1>3, EmptySlotType DEF Bos, NoBo
        <3>2. InNew(b) = 0
            BY <3>1, FS_EmptySet DEF InNew
        <3>3. InOld(b) = rc0[b]
            BY <1>3, <1>7 DEF InOld, Waits
        <3>. QED
            BY <1>3, <1>7, <3>2, <3>3
    <2>. QED
        BY <2>1, CountsRead
<1>10. Served
    BY <1>3 DEF Served, Through, act, Crtcs
<1>11. Kept
    <2>1. ASSUME NEW q \in RectChoices
          PROVE  ScanoutFromSize(scanouts, q) = 0
        <3>1. \A s \in Slots : scanouts[s].rect # q
            BY <1>3, EmptySlotType, RectsReal
        <3>. QED
            BY <3>1, LookupFirst
    <2>. QED
        BY <1>3, <2>1 DEF Kept
<1>. QED
    BY <1>3, <1>5, <1>6, <1>8, <1>9, <1>10, <1>11 DEF IInv

-----------------------------------------------------------------------------
(* Each action keeps it.                                                   *)

LEMMA ActType ==
    ASSUME TypeOK
    PROVE  /\ act \subseteq Crtcs /\ \A c \in act : rect[c] \in RectChoices /\ c \in Int
           /\ i \in Int
    BY DEF TypeOK, act, Crtcs

\* The tail of an iteration, for a bo that comes with a reference of its own.
LEMMA AddedStep ==
    ASSUME IInv, pc = "crtcs", i \in act, UNCHANGED <<input, resized>>,
           NEW b \in Bos, NEW valid \in BOOLEAN, NEW counts \in [Bos -> Int],
           AddScanout(b, valid, counts), old' \in TableType,
           \A c \in Bos : counts[c] = InNew(c) + Cardinality({s \in Slots : old'[s].bo = c}) + One(c = b),
           \A s \in Slots : old'[s] = old[s] \/ (old'[s] = EmptySlot /\ old[s].rect = rect[i]),
           ScanoutFromSize(scanouts, rect[i]) = 0 =>
               LET was == ScanoutFromSize(tab0, rect[i])
               IN  /\ was # 0 => tab0[was].bo = b /\ tab0[was].valid = valid
                   /\ was = 0 => ~valid
    PROVE  IInv'
<1>1. /\ rect[i] \in RectChoices /\ i \in Crtcs /\ i \in Int /\ act' = act
      /\ rect' = rect /\ tab0' = tab0 /\ TypeOK /\ rect[i] \in Rects
    <2>1. act' = act /\ rect' = rect /\ tab0' = tab0
        BY DEF input, act
    <2>. QED
        BY <2>1, ActType, RectsReal DEF IInv
<1>2. Filled(tab0)' /\ Filled(old)'
    <2>1. Filled(tab0)'
        BY <1>1 DEF IInv, Filled
    <2>2. ASSUME NEW s \in Slots
          PROVE  IF old'[s].bo = NoBo THEN old'[s] = EmptySlot ELSE old'[s].rect \in RectChoices
        <3>1. IF old[s].bo = NoBo THEN old[s] = EmptySlot ELSE old[s].rect \in RectChoices
            BY DEF IInv, Filled
        <3>2. old'[s] = old[s] \/ old'[s] = EmptySlot
            OBVIOUS
        <3>. QED
            BY <3>1, <3>2, EmptySlotType
    <2>. QED
        BY <2>1, <2>2 DEF Filled
<1>3. CASE AddAt = 0
    <2>1. pc' = "failed" /\ rc' = Unreference(counts, b) /\ UNCHANGED <<scanouts, i>>
        BY <1>3 DEF AddScanout
    <2>2. TypeOK'
        BY <1>1, <2>1, RefsChange DEF TypeOK, input
    <2>3. Phases' /\ Served' /\ Packed' /\ Filled(scanouts)'
        BY <2>1 DEF IInv, Phases, Served, Through, Packed, Filled
    <2>4. CountsHolders'
        BY <2>1 DEF CountsHolders
    <2>5. Kept'
        <3>1. Kept
            BY DEF IInv
        <3>. QED
            BY <1>1, <2>1, <3>1 DEF Kept
    <2>. QED
        BY <1>2, <2>2, <2>3, <2>4, <2>5 DEF IInv
<1>4. CASE AddAt # 0
    <2>. DEFINE k == AddAt
                new == [bo |-> b, rect |-> rect[i], valid |-> valid]
    <2>1. /\ scanouts' = [scanouts EXCEPT ![k] = new]
          /\ rc' = counts /\ i' = i + 1 /\ pc' = pc
        BY <1>4, RefsChange DEF AddScanout
    <2>2. k \in Slots /\ scanouts[k].bo = NoBo /\ \A s \in Slots : scanouts[s].bo = NoBo => k <= s
        BY <1>4, AddAtFirst
    <2>3. new \in SlotType /\ new.bo = b /\ new.rect = rect[i] /\ new.valid = valid /\ b # NoBo
        BY <1>1 DEF SlotType, NoBo, Bos
    <2>. HIDE DEF k, new
    <2>4. /\ scanouts' \in TableType /\ scanouts'[k] = new
          /\ \A s \in Slots \ {k} : scanouts'[s] = scanouts[s]
        BY <1>1, <2>1, <2>2, <2>3 DEF TypeOK, TableType
    <2>5. TypeOK' /\ Phases'
        <3>1. i' \in 1..(NumCrtc + MaxScanouts + 1) /\ i' <= NumCrtc + 1
            BY <1>1, <2>1, SizeAssumption DEF Crtcs
        <3>. QED
            BY <1>1, <2>1, <2>4, <3>1 DEF TypeOK, Phases, input
    <2>6. Filled(scanouts)' /\ Packed'
        <3>1. Filled(scanouts)'
            BY <1>1, <2>3, <2>4 DEF IInv, Filled
        <3>2. ASSUME NEW s \in Slots, NEW u \in Slots, s < u, scanouts'[u].bo # NoBo
              PROVE  scanouts'[s].bo # NoBo
            <4>1. s \in Int /\ u \in Int /\ k \in Int
                BY <2>2 DEF Slots
            <4>2. CASE s = k
                BY <2>3, <2>4, <4>2
            <4>3. CASE s # k /\ u = k
                BY <2>2, <2>4, <3>2, <4>1, <4>3
            <4>4. CASE s # k /\ u # k
                BY <2>4, <3>2, <4>4 DEF IInv, Packed
            <4>. QED
                BY <4>2, <4>3, <4>4
        <3>. QED
            BY <3>1, <3>2 DEF Packed
    <2>7. CountsHolders'
        <3>1. ASSUME NEW c \in Bos
              PROVE  InNew(c)' = InNew(c) + One(c = b)
            <4>. DEFINE A == {s \in Slots : scanouts[s].bo = c}
                        B == {s \in Slots : scanouts'[s].bo = c}
            <4>1. A \in SUBSET Slots /\ B \in SUBSET Slots /\ \A s \in Slots \ {k} : s \in A <=> s \in B
                BY <2>4
            <4>2. One(k \in A) = 0 /\ One(k \in B) = One(c = b)
                BY <2>2, <2>3, <2>4 DEF One, NoBo, Bos
            <4>3. InNew(c) = Cardinality(A) /\ InNew(c)' = Cardinality(B)
                BY DEF InNew
            <4>. HIDE DEF A, B
            <4>4. Cardinality(B) = Cardinality(A) - One(k \in A) + One(k \in B) /\ Cardinality(A) \in Nat
                BY <2>2, <4>1, SlotsChange
            <4>5. One(c = b) \in Nat
                BY DEF One
            <4>. QED
                BY <4>2, <4>3, <4>4, <4>5
        <3>2. ASSUME NEW c \in Bos
              PROVE  InOld(c)' = Cardinality({s \in Slots : old'[s].bo = c})
            BY <2>1 DEF InOld, Waits
        <3>3. ASSUME NEW c \in Bos
              PROVE  Cardinality({s \in Slots : old'[s].bo = c}) \in Nat
            BY SlotsFinite, FS_Subset, FS_CardinalityType
        <3>4. ASSUME NEW c \in Bos
              PROVE  rc'[c] = InNew(c)' + InOld(c)'
            <4>1. One(c = b) \in Nat /\ InNew(c) \in Nat
                BY CountTypes DEF One
            <4>. DEFINE waiting == Cardinality({s \in Slots : old'[s].bo = c})
            <4>2. counts[c] = InNew(c) + waiting + One(c = b)
                OBVIOUS
            <4>3. waiting \in Nat /\ InOld(c)' = waiting
                BY <3>2, <3>3
            <4>. HIDE DEF waiting
            <4>. QED
                BY <2>1, <3>1, <4>1, <4>2, <4>3
        <3>. QED
            BY <3>4, CountsRead DEF CountsHolders, InNew, InOld, Waits
    <2>8. Served'
        <3>1. ASSUME NEW c \in act, c < i + 1
              PROVE  \E s \in Slots : scanouts'[s].rect = rect[c]
            <4>1. CASE c = i
                BY <2>2, <2>3, <2>4, <4>1
            <4>2. CASE c # i
                <5>1. c < i
                    <6>1. c \in Int
                        BY <1>1, ActType
                    <6>. QED
                        BY <1>1, <3>1, <4>2, <6>1
                <5>2. PICK s \in Slots : scanouts[s].rect = rect[c]
                    BY <5>1 DEF IInv, Served, Through
                <5>3. scanouts[s].bo # NoBo
                    BY <1>1, <5>2, ActType, RectsReal, EmptySlotType DEF IInv, Filled
                <5>. QED
                    BY <2>2, <2>4, <5>2, <5>3
            <4>. QED
                BY <4>1, <4>2
        <3>. QED
            BY <1>1, <2>1, <3>1 DEF Served, Through
    <2>9. Kept'
        <3>1. ASSUME NEW r \in RectChoices, r # rect[i]
              PROVE  ScanoutFromSize(scanouts', r) = ScanoutFromSize(scanouts, r)
            <4>1. \A s \in Slots : scanouts'[s].rect = r \/ scanouts[s].rect = r =>
                                       scanouts'[s] = scanouts[s]
                <5>1. scanouts[k].rect # r
                    BY <2>2, RectsReal, EmptySlotType DEF IInv, Filled
                <5>. QED
                    BY <2>3, <2>4, <3>1, <5>1
            <4>. QED
                BY <4>1, LookupSame
        <3>2. ASSUME NEW r \in RectChoices
              PROVE  LET was == ScanoutFromSize(tab0, r)
                         is  == ScanoutFromSize(scanouts', r)
                     IN  /\ is # 0 /\ was # 0 => /\ scanouts'[is].bo = tab0[was].bo
                                                 /\ scanouts'[is].valid = tab0[was].valid
                         /\ is # 0 /\ was = 0 => ~scanouts'[is].valid
                         /\ is = 0 => \A s \in Slots : old'[s].rect = r \/ tab0[s].rect = r
                                                           => old'[s] = tab0[s]
            <4>. DEFINE was == ScanoutFromSize(tab0, r)
                        is  == ScanoutFromSize(scanouts, r)
            <4>1. /\ is # 0 /\ was # 0 => /\ scanouts[is].bo = tab0[was].bo
                                          /\ scanouts[is].valid = tab0[was].valid
                  /\ is # 0 /\ was = 0 => ~scanouts[is].valid
                  /\ is = 0 => \A s \in Slots : old[s].rect = r \/ tab0[s].rect = r
                                                    => old[s] = tab0[s]
                BY DEF IInv, Kept
            <4>2. /\ is \in Slots \cup {0}
                  /\ is # 0 => scanouts[is].rect = r /\ \A t \in Slots : scanouts[t].rect = r => is <= t
                  /\ is = 0 => \A t \in Slots : scanouts[t].rect # r
                BY LookupFirst
            <4>3. is # 0 => is # k
                BY <2>2, <4>2, RectsReal, EmptySlotType DEF IInv, Filled
            <4>4. CASE r # rect[i]
                <5>1. ScanoutFromSize(scanouts', r) = is
                    BY <3>1, <4>4
                <5>2. is = 0 => \A s \in Slots : old'[s].rect = r \/ tab0[s].rect = r
                                                     => old'[s] = tab0[s]
                    <6>1. ASSUME is = 0, NEW s \in Slots, old'[s].rect = r \/ tab0[s].rect = r
                          PROVE  old'[s] = tab0[s]
                        <7>1. CASE old'[s] = old[s]
                            BY <4>1, <6>1, <7>1
                        <7>2. CASE old'[s] = EmptySlot /\ old[s].rect = rect[i]
                            <8>1. tab0[s].rect = r
                                BY <6>1, <7>2, EmptySlotType, RectsReal
                            <8>2. old[s] = tab0[s]
                                BY <4>1, <6>1, <8>1
                            <8>. QED
                                BY <4>4, <7>2, <8>1, <8>2
                        <7>. QED
                            BY <7>1, <7>2
                    <6>. QED
                        BY <6>1
                <5>3. is # 0 => scanouts'[is] = scanouts[is]
                    BY <2>4, <4>2, <4>3
                <5>. HIDE DEF was, is
                <5>4. /\ is # 0 /\ was # 0 => /\ scanouts'[is].bo = tab0[was].bo
                                              /\ scanouts'[is].valid = tab0[was].valid
                      /\ is # 0 /\ was = 0 => ~scanouts'[is].valid
                    BY <4>1, <5>3
                <5>. QED
                    BY <5>1, <5>2, <5>4 DEF was, is
            <4>5. CASE r = rect[i] /\ is # 0
                <5>1. scanouts'[is] = scanouts[is] /\ scanouts[is].rect = r
                    BY <2>4, <4>2, <4>3, <4>5
                <5>2. \A t \in Slots : scanouts'[t].rect = r => is <= t
                    <6>1. is <= k
                        <7>1. is \in Int /\ k \in Int /\ is \in Slots
                            BY <2>2, <4>2, <4>5 DEF Slots
                        <7>2. scanouts[is].bo # NoBo
                            BY <4>2, <4>5, RectsReal, EmptySlotType DEF IInv, Filled
                        <7>3. ~(k < is)
                            BY <2>2, <7>1, <7>2 DEF IInv, Packed
                        <7>. QED
                            BY <7>1, <7>3
                    <6>. QED
                        BY <2>4, <4>2, <4>5, <6>1
                <5>3. ScanoutFromSize(scanouts', r) = is
                    BY <4>2, <4>5, <5>1, <5>2, LookupFinds
                <5>. HIDE DEF was, is
                <5>4. /\ is # 0 /\ was # 0 => /\ scanouts'[is].bo = tab0[was].bo
                                              /\ scanouts'[is].valid = tab0[was].valid
                      /\ is # 0 /\ was = 0 => ~scanouts'[is].valid
                    BY <4>1, <5>1
                <5>. QED
                    BY <4>5, <5>3, <5>4 DEF was, is
            <4>6. CASE r = rect[i] /\ is = 0
                <5>1. scanouts'[k] = new /\ new.rect = r
                    BY <2>3, <2>4, <4>6
                <5>2. \A t \in Slots : scanouts'[t].rect = r => k <= t
                    <6>1. k <= k
                        BY <2>2 DEF Slots
                    <6>. QED
                        BY <2>4, <4>2, <4>6, <6>1
                <5>3. ScanoutFromSize(scanouts', r) = k /\ k # 0
                    BY <2>2, <5>1, <5>2, LookupFinds DEF Slots
                <5>4. /\ was # 0 => tab0[was].bo = b /\ tab0[was].valid = valid
                      /\ was = 0 => ~valid
                    BY <4>6
                <5>. HIDE DEF was, is
                <5>. QED
                    BY <2>3, <5>1, <5>3, <5>4 DEF was
            <4>. QED
                BY <4>4, <4>5, <4>6
        <3>. QED
            BY <1>1, <3>2 DEF Kept
    <2>. QED
        BY <1>2, <2>5, <2>6, <2>7, <2>8, <2>9 DEF IInv
<1>. QED
    BY <1>3, <1>4

\* A step that touches no table and no reference.
LEMMA WalkedStep ==
    ASSUME IInv, UNCHANGED <<tab0, rect, enabled, old, scanouts, rc, resized>>,
           pc' \in {"crtcs", "drop", "done", "failed"},
           i' \in 1..(NumCrtc + MaxScanouts + 1), Phases',
           \A s \in Slots : pc' # "failed" => (Waits(s)' <=> Waits(s)), pc = "failed" => pc' = "failed",
           \A c \in act : Through(c)' => Through(c),
           pc' = "crtcs" => pc = "crtcs"
    PROVE  IInv'
<1>1. TypeOK' /\ Filled(tab0)' /\ Filled(old)' /\ Filled(scanouts)' /\ Packed'
    BY DEF IInv, TypeOK, Filled, Packed
<1>2. CountsHolders'
    <2>1. ASSUME NEW b \in Bos, pc' # "failed"
          PROVE  rc'[b] = InNew(b)' + InOld(b)'
        <3>1. {s \in Slots : old'[s].bo = b /\ Waits(s)'} = {s \in Slots : old[s].bo = b /\ Waits(s)}
            BY <2>1
        <3>2. InNew(b)' = InNew(b) /\ InOld(b)' = InOld(b)
            BY <3>1 DEF InNew, InOld
        <3>3. rc[b] = InNew(b) + InOld(b)
            BY <2>1, CountsRead DEF IInv
        <3>. QED
            BY <3>2, <3>3
    <2>. QED
        BY <2>1 DEF CountsHolders, InNew, InOld, Waits
<1>3. Served'
    BY DEF IInv, Served, act
<1>4. Kept'
    <2>1. Kept
        BY DEF IInv
    <2>. QED
        BY <2>1 DEF Kept
<1>. QED
    BY <1>1, <1>2, <1>3, <1>4 DEF IInv

LEMMA SkipCrtcStep == IInv /\ SkipCrtc => IInv'
<1>. SUFFICES ASSUME IInv, SkipCrtc PROVE IInv'
    OBVIOUS
<1>1. /\ pc = "crtcs" /\ i \in Crtcs /\ ~enabled[i] /\ i' = i + 1
      /\ UNCHANGED <<tab0, rect, enabled, old, scanouts, rc, resized, pc>>
    BY DEF SkipCrtc, input
<1>2. i' \in 1..(NumCrtc + MaxScanouts + 1) /\ i' <= NumCrtc + 1
    BY <1>1, SizeAssumption DEF Crtcs
<1>3. \A c \in act : Through(c)' => Through(c)
    <2>1. ASSUME NEW c \in act, c < i + 1
          PROVE  c < i
        <3>1. c \in Int /\ i \in Int /\ c # i
            BY <1>1, ActType DEF IInv, act
        <3>. QED
            BY <2>1, <3>1
    <2>. QED
        BY <1>1, <2>1 DEF Through
<1>4. Phases' /\ \A s \in Slots : Waits(s)' <=> Waits(s)
    BY <1>1, <1>2 DEF Phases, Waits
<1>. QED
    BY <1>1, <1>2, <1>3, <1>4, WalkedStep

LEMMA AllocationFailsStep == IInv /\ AllocationFails => IInv'
<1>. SUFFICES ASSUME IInv, AllocationFails PROVE IInv'
    OBVIOUS
<1>1. /\ pc = "crtcs" /\ pc' = "failed"
      /\ UNCHANGED <<tab0, rect, enabled, old, scanouts, rc, resized, i>>
    BY DEF AllocationFails, input
<1>2. Phases' /\ (\A c \in act : ~Through(c)') /\ i' \in 1..(NumCrtc + MaxScanouts + 1)
    BY <1>1 DEF Phases, Through, IInv, TypeOK
<1>. QED
    BY <1>1, <1>2, WalkedStep

LEMMA CrtcsDoneStep == IInv /\ CrtcsDone => IInv'
<1>. SUFFICES ASSUME IInv, CrtcsDone PROVE IInv'
    OBVIOUS
<1>1. /\ pc = "crtcs" /\ i > NumCrtc /\ pc' = "drop" /\ i' = 1
      /\ UNCHANGED <<tab0, rect, enabled, old, scanouts, rc, resized>>
    BY DEF CrtcsDone, input
<1>2. i' \in 1..(NumCrtc + MaxScanouts + 1) /\ Phases'
    BY <1>1, SizeAssumption DEF Phases
<1>3. \A c \in act : Through(c)
    BY <1>1, ActType, SizeAssumption DEF IInv, Through, Crtcs
<1>4. \A s \in Slots : Waits(s)' <=> Waits(s)
    BY <1>1 DEF Waits, Slots
<1>. QED
    BY <1>1, <1>2, <1>3, <1>4, WalkedStep

LEMMA DropDoneStep == IInv /\ DropDone => IInv'
<1>. SUFFICES ASSUME IInv, DropDone PROVE IInv'
    OBVIOUS
<1>1. /\ pc = "drop" /\ i > MaxScanouts /\ pc' = "done"
      /\ UNCHANGED <<tab0, rect, enabled, old, scanouts, rc, resized, i>>
    BY DEF DropDone, input
<1>2. i' \in 1..(NumCrtc + MaxScanouts + 1) /\ i \in Int /\ Phases'
    BY <1>1 DEF IInv, TypeOK, Phases
<1>3. \A s \in Slots : Waits(s)' <=> Waits(s)
    BY <1>1, <1>2, SizeAssumption DEF Waits, Slots
<1>4. \A c \in act : Through(c)' => Through(c)
    BY <1>1 DEF Through
<1>. QED
    BY <1>1, <1>2, <1>3, <1>4, WalkedStep

LEMMA DropOldStep == IInv /\ DropOld => IInv'
<1>. SUFFICES ASSUME IInv, DropOld PROVE IInv'
    OBVIOUS
<1>1. /\ pc = "drop" /\ i \in Slots /\ rc' = Unreference(rc, old[i].bo) /\ i' = i + 1
      /\ resized' = (resized \/ old[i].bo # NoBo)
      /\ UNCHANGED <<tab0, rect, enabled, old, scanouts, pc>>
    BY DEF DropOld, input
<1>2. TypeOK /\ rc \in [Bos -> Int] /\ old[i].bo \in Bos \cup {NoBo}
    BY <1>1 DEF IInv, TypeOK, TableType, SlotType
<1>3. TypeOK'
    <2>1. rc' \in [Bos -> Int]
        BY <1>1, <1>2, RefsType
    <2>2. resized' \in BOOLEAN
        BY <1>1, <1>2 DEF TypeOK
    <2>3. i' \in 1..(NumCrtc + MaxScanouts + 1)
        BY <1>1, SizeAssumption DEF Slots
    <2>. QED
        BY <1>1, <1>2, <2>1, <2>2, <2>3 DEF TypeOK
<1>4. Phases'
    BY <1>1, SizeAssumption DEF Phases, Slots
<1>5. Filled(tab0)' /\ Filled(old)' /\ Filled(scanouts)' /\ Packed' /\ Served'
    BY <1>1 DEF IInv, Filled, Packed, Served, Through, act
<1>6. Kept'
    <2>1. Kept
        BY DEF IInv
    <2>. QED
        BY <1>1, <2>1 DEF Kept
<1>7. CountsHolders'
    <2>1. ASSUME NEW b \in Bos
          PROVE  InOld(b)' = InOld(b) - One(old[i].bo = b)
        <3>. DEFINE A == {s \in Slots : old[s].bo = b /\ Waits(s)}
                    B == {s \in Slots : old'[s].bo = b /\ Waits(s)'}
        <3>1. /\ A \in SUBSET Slots /\ B \in SUBSET Slots
              /\ \A s \in Slots \ {i} : s \in A <=> s \in B
            BY <1>1 DEF Waits, Slots
        <3>2. One(i \in A) = One(old[i].bo = b) /\ One(i \in B) = 0
            BY <1>1 DEF One, Waits, Slots
        <3>3. InOld(b) = Cardinality(A) /\ InOld(b)' = Cardinality(B)
            BY DEF InOld
        <3>. HIDE DEF A, B
        <3>4. Cardinality(B) = Cardinality(A) - One(i \in A) + One(i \in B) /\ Cardinality(A) \in Nat
            BY <1>1, <3>1, SlotsChange
        <3>5. One(old[i].bo = b) \in Nat
            BY DEF One
        <3>. QED
            BY <3>2, <3>3, <3>4, <3>5
    <2>2. ASSUME NEW b \in Bos
          PROVE  rc'[b] = rc[b] - One(old[i].bo = b)
        <3>1. CASE old[i].bo = NoBo
            BY <1>1, <1>2, <3>1 DEF Unreference, One, NoBo, Bos
        <3>2. CASE old[i].bo \in Bos
            <4>1. rc'[b] = rc[b] - One(b = old[i].bo)
                BY <1>1, <1>2, <3>2, RefsChange
            <4>. QED
                BY <4>1 DEF One
        <3>. QED
            BY <1>2, <3>1, <3>2
    <2>3. ASSUME NEW b \in Bos
          PROVE  rc'[b] = InNew(b)' + InOld(b)'
        <3>1. rc[b] = InNew(b) + InOld(b) /\ InNew(b) \in Nat /\ InOld(b) \in Nat
            BY <1>1, CountsRead, CountTypes DEF IInv
        <3>2. InNew(b)' = InNew(b) /\ One(old[i].bo = b) \in Nat
            BY <1>1 DEF InNew, One
        <3>. QED
            BY <2>1, <2>2, <3>1, <3>2
    <2>. QED
        BY <2>3 DEF CountsHolders, InNew, InOld, Waits
<1>. QED
    BY <1>3, <1>4, <1>5, <1>6, <1>7 DEF IInv

LEMMA RecycleBoStep == IInv /\ RecycleBo => IInv'
<1>. SUFFICES ASSUME IInv, RecycleBo PROVE IInv'
    OBVIOUS
<1>. DEFINE k == ScanoutFromSize(old, rect[i])
<1>1. /\ pc = "crtcs" /\ i \in act /\ k # 0 /\ old' = [old EXCEPT ![k] = EmptySlot]
      /\ AddScanout(old[k].bo, old[k].valid, rc) /\ UNCHANGED <<input, resized>>
    BY DEF RecycleBo
<1>2. k \in Slots /\ old[k].rect = rect[i] /\ rect[i] \in RectChoices
    BY <1>1, LookupFirst, ActType DEF IInv
<1>3. /\ old \in TableType /\ rc \in [Bos -> Int] /\ tab0 \in TableType
      /\ \A b \in Bos : rc[b] = InNew(b) + InOld(b)
    BY <1>1, CountsRead DEF IInv, TypeOK
<1>. HIDE DEF k
<1>4. old[k].bo \in Bos /\ old[k].valid \in BOOLEAN
    <2>1. old[k].bo \in Bos \cup {NoBo} /\ old[k].valid \in BOOLEAN
        BY <1>2, <1>3 DEF TableType, SlotType
    <2>2. old[k].bo # NoBo
        BY <1>2, RectsReal, EmptySlotType DEF IInv, Filled
    <2>. QED
        BY <2>1, <2>2
<1>5. /\ old' \in TableType /\ old'[k] = EmptySlot
      /\ \A s \in Slots \ {k} : old'[s] = old[s]
    BY <1>1, <1>2, <1>3, EmptySlotType DEF TableType
<1>6. ASSUME NEW c \in Bos
      PROVE  rc[c] = InNew(c) + Cardinality({s \in Slots : old'[s].bo = c}) + One(c = old[k].bo)
    <2>. DEFINE A == {s \in Slots : old[s].bo = c}
                B == {s \in Slots : old'[s].bo = c}
    <2>1. A \in SUBSET Slots /\ B \in SUBSET Slots /\ \A s \in Slots \ {k} : s \in A <=> s \in B
        BY <1>5
    <2>2. One(k \in A) = One(c = old[k].bo) /\ One(k \in B) = 0
        BY <1>2, <1>5, EmptySlotType DEF One, NoBo, Bos
    <2>3. InOld(c) = Cardinality(A)
        BY <1>1 DEF InOld, Waits
    <2>4. rc[c] = InNew(c) + InOld(c) /\ InNew(c) \in Nat /\ One(c = old[k].bo) \in Nat
        BY <1>3, CountTypes DEF One
    <2>. HIDE DEF A, B
    <2>5. Cardinality(B) = Cardinality(A) - One(k \in A) + One(k \in B) /\ Cardinality(A) \in Nat
        BY <1>2, <2>1, SlotsChange
    <2>6. rc[c] = InNew(c) + Cardinality(B) + One(c = old[k].bo)
        BY <2>2, <2>3, <2>4, <2>5
    <2>. QED
        BY <2>6 DEF B
<1>7. \A s \in Slots : old'[s] = old[s] \/ (old'[s] = EmptySlot /\ old[s].rect = rect[i])
    BY <1>2, <1>5
<1>8. ASSUME ScanoutFromSize(scanouts, rect[i]) = 0
      PROVE  LET was == ScanoutFromSize(tab0, rect[i])
             IN  /\ was # 0 => tab0[was].bo = old[k].bo /\ tab0[was].valid = old[k].valid
                 /\ was = 0 => ~old[k].valid
    <2>1. \A s \in Slots : old[s].rect = rect[i] \/ tab0[s].rect = rect[i] => old[s] = tab0[s]
        BY <1>1, <1>2, <1>8 DEF IInv, Kept
    <2>2. ScanoutFromSize(tab0, rect[i]) = k /\ tab0[k] = old[k]
        BY <1>2, <2>1, LookupSame DEF k
    <2>. QED
        BY <1>1, <2>2
<1>. DEFINE b == old[k].bo
            valid == old[k].valid
<1>9. /\ b \in Bos /\ valid \in BOOLEAN /\ AddScanout(b, valid, rc)
      /\ \A c \in Bos : rc[c] = InNew(c) + Cardinality({s \in Slots : old'[s].bo = c}) + One(c = b)
      /\ ScanoutFromSize(scanouts, rect[i]) = 0 =>
             LET was == ScanoutFromSize(tab0, rect[i])
             IN  /\ was # 0 => tab0[was].bo = b /\ tab0[was].valid = valid
                 /\ was = 0 => ~valid
    BY <1>1, <1>4, <1>6, <1>8
<1>. HIDE DEF b, valid
<1>. QED
    BY <1>1, <1>3, <1>5, <1>7, <1>9, AddedStep

LEMMA AllocateBoStep == IInv /\ AllocateBo => IInv'
<1>. SUFFICES ASSUME IInv, AllocateBo PROVE IInv'
    OBVIOUS
<1>. DEFINE b == The(Nth(FreeNow, 1))
            counts == [rc EXCEPT ![b] = 1]
<1>1. /\ pc = "crtcs" /\ i \in act /\ ScanoutFromSize(old, rect[i]) = 0 /\ FreeNow # {}
      /\ AddScanout(b, FALSE, counts) /\ UNCHANGED <<input, old, resized>>
    BY DEF AllocateBo
<1>2. b \in Bos /\ rc[b] = 0
    <2>1. IsFiniteSet(FreeNow) /\ FreeNow \in SUBSET Int
        BY BosFinite, FS_Subset DEF FreeNow
    <2>2. b \in FreeNow
        BY <1>1, <2>1, FirstMember
    <2>. QED
        BY <2>2 DEF FreeNow
<1>. HIDE DEF b
<1>3. /\ old \in TableType /\ rc \in [Bos -> Int] /\ rect[i] \in RectChoices
      /\ \A c \in Bos : rc[c] = InNew(c) + InOld(c)
    BY <1>1, CountsRead, ActType DEF IInv, TypeOK
<1>4. counts \in [Bos -> Int] /\ \A c \in Bos : counts[c] = rc[c] + One(c = b)
    BY <1>2, <1>3 DEF One
<1>. HIDE DEF counts
<1>5. ASSUME NEW c \in Bos
      PROVE  counts[c] = InNew(c) + Cardinality({s \in Slots : old'[s].bo = c}) + One(c = b)
    <2>1. InOld(c) = Cardinality({s \in Slots : old'[s].bo = c})
        BY <1>1 DEF InOld, Waits
    <2>2. InNew(c) \in Nat /\ InOld(c) \in Nat /\ One(c = b) \in Nat
        BY CountTypes DEF One
    <2>3. counts[c] = InNew(c) + InOld(c) + One(c = b)
        BY <1>3, <1>4, <2>2
    <2>. QED
        BY <2>1, <2>3
<1>6. old' \in TableType /\ \A s \in Slots : old'[s] = old[s]
    BY <1>1, <1>3
<1>7. ASSUME ScanoutFromSize(scanouts, rect[i]) = 0
      PROVE  ScanoutFromSize(tab0, rect[i]) = 0
    <2>1. \A s \in Slots : old[s].rect = rect[i] \/ tab0[s].rect = rect[i] => old[s] = tab0[s]
        BY <1>1, <1>3, <1>7 DEF IInv, Kept
    <2>. QED
        BY <1>1, <2>1, LookupSame
<1>. QED
    BY <1>1, <1>2, <1>4, <1>5, <1>6, <1>7, AddedStep

LEMMA NextIInv == IInv /\ [Next]_vars => IInv'
<1>. SUFFICES ASSUME IInv, [Next]_vars PROVE IInv'
    OBVIOUS
<1>1. CASE SkipCrtc
    BY <1>1, SkipCrtcStep
<1>3. CASE RecycleBo
    BY <1>3, RecycleBoStep
<1>4. CASE AllocateBo
    BY <1>4, AllocateBoStep
<1>5. CASE AllocationFails
    BY <1>5, AllocationFailsStep
<1>6. CASE CrtcsDone
    BY <1>6, CrtcsDoneStep
<1>7. CASE DropOld
    BY <1>7, DropOldStep
<1>8. CASE DropDone
    BY <1>8, DropDoneStep
<1>2. CASE UNCHANGED vars
    <2>1. UNCHANGED <<tab0, rect, enabled, old, scanouts, rc, resized, i, pc>>
        BY <1>2 DEF vars
    <2>2. Phases' /\ (\A s \in Slots : Waits(s)' <=> Waits(s)) /\ \A c \in act : Through(c)' => Through(c)
        BY <2>1 DEF IInv, Phases, Waits, Through
    <2>3. /\ pc' \in {"crtcs", "drop", "done", "failed"}
          /\ i' \in 1..(NumCrtc + MaxScanouts + 1)
        BY <2>1 DEF IInv, TypeOK
    <2>. QED
        BY <2>1, <2>2, <2>3, WalkedStep
<1>. QED
    BY <1>1, <1>2, <1>3, <1>4, <1>5, <1>6, <1>7, <1>8 DEF Next

LEMMA IInvHolds == Spec => []IInv
<1>1. Init => IInv
    BY InitIInv
<1>2. IInv /\ [Next]_vars => IInv'
    BY NextIInv
<1>. QED
    BY <1>1, <1>2, PTL DEF Spec

-----------------------------------------------------------------------------
(* What the loops have passed.                                             *)

\* When the first k members are gone the first is the one of rank k + 1.
LEMMA NextNth ==
    ASSUME NEW S \in SUBSET Int, IsFiniteSet(S), NEW k \in Nat,
           NEW R, R = {s \in S : Rank(S, s) > k}
    PROVE  /\ R = {} => Nth(S, k + 1) = {} /\ k + 1 > Cardinality(S)
           /\ R # {} => /\ Nth(S, k + 1) = {The(Nth(R, 1))} /\ k + 1 <= Cardinality(S)
                        /\ The(Nth(R, 1)) \in R
<1>1. Cardinality(S) \in Nat /\ \A s \in S : Rank(S, s) \in 1..Cardinality(S)
    BY RankType
<1>2. CASE k + 1 > Cardinality(S)
    <2>1. k + 1 \notin 1..Cardinality(S) /\ k + 1 \in Int /\ \A s \in S : ~(Rank(S, s) > k)
        BY <1>1, <1>2
    <2>2. R = {}
        BY <2>1
    <2>. QED
        BY <1>2, <2>1, <2>2, NthNone
<1>3. CASE k + 1 <= Cardinality(S)
    <2>1. k + 1 \in 1..Cardinality(S)
        BY <1>1, <1>3
    <2>2. PICK x \in S : Rank(S, x) = k + 1 /\ Nth(S, k + 1) = {x}
        BY <2>1, NthMember
    <2>8. R \in SUBSET S
        OBVIOUS
    <2>3. x \in R /\ R # {} /\ R \in SUBSET Int /\ IsFiniteSet(R)
        <3>1. k + 1 > k
            OBVIOUS
        <3>. QED
            BY <2>2, <2>8, <3>1, FS_Subset
    <2>. DEFINE y == The(Nth(R, 1))
    <2>4. y \in R /\ y <= x
        BY <2>3, FirstMember
    <2>. HIDE DEF y
    <2>5. y \in S /\ Rank(S, y) >= k + 1
        BY <1>1, <2>4
    <2>6. ~(y < x)
        BY <1>1, <2>2, <2>5, RankOrder
    <2>7. y = x
        BY <2>4, <2>5, <2>6
    <2>. QED
        BY <1>3, <2>2, <2>3, <2>4, <2>7 DEF y
<1>. QED
    BY <1>1, <1>2, <1>3

\* The members of D below x go to the members of S of the same ranks.
LEMMA Matched ==
    ASSUME NEW S \in SUBSET Int, IsFiniteSet(S), NEW D \in SUBSET Int, IsFiniteSet(D), NEW x \in Int
    PROVE  /\ Cardinality({c \in D : c < x}) \in Nat
           /\ \A s \in S : (\E c \in D : c < x /\ Rank(S, s) = Rank(D, c))
                              <=> Rank(S, s) <= Cardinality({c \in D : c < x})
<1>. DEFINE j == Cardinality({c \in D : c < x})
<1>1. j \in Nat /\ \A c \in D : c < x <=> Rank(D, c) <= j
    BY RankBefore
<1>2. j <= Cardinality(D) /\ Cardinality(D) \in Nat
    BY FS_Subset, FS_CardinalityType
<1>. HIDE DEF j
<1>3. ASSUME NEW s \in S, Rank(S, s) <= j
      PROVE  \E c \in D : c < x /\ Rank(S, s) = Rank(D, c)
    <2>1. Rank(S, s) \in 1..Cardinality(D)
        BY <1>1, <1>2, <1>3, RankType
    <2>2. PICK c \in D : Rank(D, c) = Rank(S, s)
        BY <2>1, NthMember
    <2>. QED
        BY <1>1, <1>3, <2>2
<1>. QED
    BY <1>1, <1>3 DEF j

-----------------------------------------------------------------------------
(* What the loops compute.                                                 *)

Done       == {c \in act : c < i}          \* while the first loop runs
Free0      == {b \in Bos : rc0[b] = 0}
Taken0(c)  == Taken(tab0, act, rect, c)
Starved0   == Starved(tab0, act, rect)
NewBo0(c)  == NewBo(tab0, act, rect, Free0, c)
Slot0(c)   == NewSlot(tab0, act, rect, Free0, c)
Table0(n)  == UpdatedTable(tab0, act, rect, Free0, n)
Fresh0(n)  == FreshBos(tab0, act, rect, Free0, n)
Gone0      == Discarded(tab0, act, rect)
Lost0(x, b) == Lost(tab0, {s \in Gone0 : s < x}, b)

\* The old table, when the CRTCs in C have had theirs.
OldWithout(C) ==
    \A s \in Slots : old[s] = IF \E c \in C : s \in Taken0(c) THEN EmptySlot ELSE tab0[s]

\* The first loop has made the table for the CRTCs it is through with.
Looping ==
    pc = "crtcs" =>
        /\ ~resized
        /\ Cardinality(Done) <= MaxScanouts
        /\ scanouts = Table0(Cardinality(Done))
        /\ OldWithout(Done)
        /\ \A b \in Bos : rc[b] = IF b \in Fresh0(Cardinality(Done)) THEN 1 ELSE rc0[b]
        /\ \A c \in Starved0 : c < i => Rank(Starved0, c) <= Cardinality(Free0)

\* The second loop has dropped the slots below i that no CRTC took.
Dropping ==
    pc = "drop" =>
        /\ Cardinality(act) <= MaxScanouts
        /\ scanouts = Table0(NumCrtc)
        /\ OldWithout(act)
        /\ \A b \in Bos : rc[b] = IF b \in Fresh0(NumCrtc) THEN 1 ELSE rc0[b] - Lost0(i, b)
        /\ Fresh0(NumCrtc) \subseteq Free0
        /\ resized <=> \E s \in Gone0 : s < i

CInv == IInv /\ Looping /\ Dropping /\ LoopComputesUpdate

LEMMA SetsFinite ==
    ASSUME TypeOK
    PROVE  /\ act \in SUBSET Int /\ IsFiniteSet(act) /\ Cardinality(act) \in Nat
           /\ Cardinality(act) <= NumCrtc
           /\ Starved0 \in SUBSET act /\ Starved0 \in SUBSET Int /\ IsFiniteSet(Starved0)
           /\ Free0 \in SUBSET Bos /\ Free0 \in SUBSET Int /\ IsFiniteSet(Free0)
           /\ i \in Int
<1>1. act \in SUBSET Crtcs /\ Starved0 \in SUBSET act /\ Free0 \in SUBSET Bos /\ i \in Int
    BY DEF act, Starved0, Starved, Free0, TypeOK
<1>2. IsFiniteSet(act) /\ Cardinality(act) \in Nat /\ Cardinality(act) <= Cardinality(Crtcs)
    BY <1>1, CrtcsFinite, FS_Subset, FS_CardinalityType
<1>3. Cardinality(Crtcs) = NumCrtc
    BY SizeAssumption, FS_Interval DEF Crtcs
<1>4. IsFiniteSet(Starved0) /\ IsFiniteSet(Free0)
    BY <1>1, <1>2, BosFinite, FS_Subset
<1>. QED
    BY <1>1, <1>2, <1>3, <1>4, CrtcsFinite, BosFinite

LEMMA InputKept ==
    ASSUME UNCHANGED <<tab0, rect, enabled>>
    PROVE  /\ act' = act /\ Free0' = Free0 /\ Starved0' = Starved0 /\ Gone0' = Gone0 /\ rc0' = rc0
           /\ \A n : Table0(n)' = Table0(n) /\ Fresh0(n)' = Fresh0(n)
           /\ \A c : Taken0(c)' = Taken0(c)
           /\ \A x, b : Lost0(x, b)' = Lost0(x, b)
           /\ UpdateScanouts(tab0, act, rect, Free0, rc0, CanFail)'
                  = UpdateScanouts(tab0, act, rect, Free0, rc0, CanFail)
<1>1. act' = act /\ rc0' = rc0
    BY DEF act, rc0
<1>2. Free0' = Free0
    BY <1>1 DEF Free0
<1>3. Starved0' = Starved0 /\ Gone0' = Gone0 /\ \A c : Taken0(c)' = Taken0(c)
    BY <1>1 DEF Starved0, Gone0, Taken0
<1>4. \A n : Table0(n)' = Table0(n) /\ Fresh0(n)' = Fresh0(n)
    BY <1>1, <1>2 DEF Table0, Fresh0
<1>5. \A x, b : Lost0(x, b)' = Lost0(x, b)
    BY <1>3 DEF Lost0
<1>. QED
    BY <1>1, <1>2, <1>3, <1>4, <1>5

\* What the code finds in the old table is what the function gives to CRTC i.
LEMMA RecycledIsTaken ==
    ASSUME IInv, Looping, pc = "crtcs", i \in act
    PROVE  LET k == ScanoutFromSize(old, rect[i])
           IN  /\ k = 0 => Taken0(i) = {}
               /\ k # 0 => k \in Slots /\ Taken0(i) = {k} /\ old[k] = tab0[k]
<1>. DEFINE r == rect[i]
            S == {s \in Slots : tab0[s].rect = r}
            D == {d \in act : rect[d] = r}
            j == Cardinality({c \in D : c < i})
            R == {s \in Slots : old[s].rect = r}
            k == ScanoutFromSize(old, r)
<1>1. /\ S \in SUBSET Int /\ IsFiniteSet(S) /\ D \in SUBSET Int /\ IsFiniteSet(D)
      /\ i \in Int /\ i \in D /\ r \in RectChoices
    BY SlotsFinite, SetsFinite, ActType, FS_Subset DEF IInv
<1>2. ASSUME NEW c \in D
      PROVE  Taken0(c) = Nth(S, Rank(D, c))
    <2>1. {d \in act : d <= c /\ rect[d] = rect[c]} = {d \in D : d <= c} /\ rect[c] = r
        OBVIOUS
    <2>. QED
        BY <2>1 DEF Taken0, Taken, Rank
<1>3. \A c \in act, s \in Slots : s \in Taken0(c) => tab0[s].rect = rect[c]
    BY DEF Taken0, Taken, Nth
<1>4. ASSUME NEW s \in S
      PROVE  (\E c \in Done : s \in Taken0(c)) <=> Rank(S, s) <= j
    <2>1. \A c \in D : s \in Taken0(c) <=> Rank(S, s) = Rank(D, c)
        <3>1. \A m : s \in Nth(S, m) <=> Rank(S, s) = m
            BY DEF Nth, Rank
        <3>. HIDE DEF S, D
        <3>. QED
            BY <1>2, <3>1
    <2>2. (\E c \in Done : s \in Taken0(c)) <=> \E c \in D : c < i /\ s \in Taken0(c)
        BY <1>3 DEF Done
    <2>3. (\E c \in D : c < i /\ Rank(S, s) = Rank(D, c)) <=> Rank(S, s) <= j
        <3>. HIDE DEF S, D
        <3>. QED
            BY <1>1, Matched
    <2>. HIDE DEF S, D, j
    <2>. QED
        BY <2>1, <2>2, <2>3
<1>5. j \in Nat /\ Rank(D, i) = j + 1
    <2>. HIDE DEF D
    <2>. QED
        BY <1>1, RankBefore
<1>6. R = {s \in S : Rank(S, s) > j}
    <2>1. \A s \in S : Rank(S, s) \in Nat
        BY <1>1, RankType
    <2>2. \A s \in S : s \in R <=> ~(\E c \in Done : s \in Taken0(c))
        BY <1>1, RectsReal, EmptySlotType DEF Looping, OldWithout
    <2>3. R \in SUBSET S
        BY <1>1, RectsReal, EmptySlotType DEF Looping, OldWithout
    <2>. HIDE DEF R, S, j
    <2>. QED
        BY <1>4, <1>5, <2>1, <2>2, <2>3
<1>7. Taken0(i) = Nth(S, j + 1)
    BY <1>1, <1>2, <1>5
<1>8. /\ R = {} => Nth(S, j + 1) = {}
      /\ R # {} => Nth(S, j + 1) = {The(Nth(R, 1))} /\ The(Nth(R, 1)) \in R
    <2>. HIDE DEF R, S, j
    <2>. QED
        BY <1>1, <1>5, <1>6, NextNth
<1>9. k = IF R = {} THEN 0 ELSE The(Nth(R, 1))
    BY DEF ScanoutFromSize
<1>10. \A s \in R : s \in Slots /\ s # 0 /\ old[s] = tab0[s]
    BY <1>1, RectsReal, EmptySlotType DEF Looping, OldWithout, Slots
<1>. HIDE DEF R, S, j, k
<1>11. /\ k = 0 => Taken0(i) = {}
       /\ k # 0 => k \in Slots /\ Taken0(i) = {k} /\ old[k] = tab0[k]
    BY <1>7, <1>8, <1>9, <1>10
<1>. QED
    BY <1>11 DEF k

\* A CRTC that needs a bo gets the free one of its rank.
LEMMA NewBoIs ==
    ASSUME TypeOK, NEW c \in Starved0, Rank(Starved0, c) <= Cardinality(Free0)
    PROVE  NewBo0(c) \in Free0 /\ Rank(Free0, NewBo0(c)) = Rank(Starved0, c)
<1>1. Rank(Starved0, c) \in 1..Cardinality(Free0)
    BY SetsFinite, RankType
<1>2. PICK b \in Free0 : Rank(Free0, b) = Rank(Starved0, c) /\ Nth(Free0, Rank(Starved0, c)) = {b}
    BY <1>1, SetsFinite, NthMember
<1>3. NewBo0(c) = The({b})
    BY <1>2 DEF NewBo0, NewBo, Starved0
<1>. QED
    BY <1>2, <1>3 DEF The

\* The CRTCs below x have got the first of the free bos.
LEMMA FreshBelow ==
    ASSUME TypeOK, NEW x \in Int,
           \A c \in Starved0 : c < x => Rank(Starved0, c) <= Cardinality(Free0)
    PROVE  LET fresh == Fresh0(Cardinality({c \in act : c < x}))
               m     == Cardinality({c \in Starved0 : c < x})
           IN  /\ m \in Nat
               /\ fresh = {b \in Free0 : Rank(Free0, b) <= m}
               /\ \A b : b \in fresh <=> \E c \in Starved0 : c < x /\ b = NewBo0(c)
<1>. DEFINE n == Cardinality({c \in act : c < x})
            m == Cardinality({c \in Starved0 : c < x})
<1>1. \A c \in act : c < x <=> Rank(act, c) <= n
    BY SetsFinite, RankBefore
<1>2. Fresh0(n) = {NewBo0(c) : c \in {d \in Starved0 : Rank(act, d) <= n}}
    BY DEF Fresh0, FreshBos, NewBo0, Starved0
<1>. HIDE DEF n
<1>3. \A b : b \in Fresh0(n) <=> \E c \in Starved0 : c < x /\ b = NewBo0(c)
    BY <1>1, <1>2, SetsFinite
<1>4. \A b \in Free0 : (\E c \in Starved0 : c < x /\ Rank(Free0, b) = Rank(Starved0, c))
                          <=> Rank(Free0, b) <= m
    BY SetsFinite, Matched
<1>5. m \in Nat
    BY SetsFinite, Matched
<1>. HIDE DEF m
<1>6. ASSUME NEW c \in Starved0, c < x
      PROVE  NewBo0(c) \in Free0 /\ Rank(Free0, NewBo0(c)) = Rank(Starved0, c)
    BY <1>6, NewBoIs
<1>7. ASSUME NEW b \in Free0, NEW c \in Starved0, c < x, Rank(Free0, b) = Rank(Starved0, c)
      PROVE  b = NewBo0(c)
    BY <1>6, <1>7, SetsFinite, RankOrder
<1>8. Fresh0(n) = {b \in Free0 : Rank(Free0, b) <= m}
    BY <1>3, <1>4, <1>6, <1>7
<1>. QED
    BY <1>3, <1>5, <1>8 DEF n, m

\* What the s-th active CRTC gets is in slot s.
LEMMA TableAt ==
    ASSUME TypeOK, NEW n \in Int, NEW s \in Slots
    PROVE  /\ \A c \in act : Rank(act, c) = s /\ s <= n => Table0(n)[s] = Slot0(c)
           /\ s > n \/ s > Cardinality(act) => Table0(n)[s] = EmptySlot
<1>. DEFINE here == {c \in Nth(act, s) : s <= n}
<1>1. Table0(n)[s] = IF here = {} THEN EmptySlot ELSE Slot0(The(here))
    BY DEF Table0, UpdatedTable, Slot0
<1>2. ASSUME NEW c \in act, Rank(act, c) = s, s <= n
      PROVE  Table0(n)[s] = Slot0(c)
    <2>1. Nth(act, s) = {c}
        BY <1>2, SetsFinite, NthOfRank
    <2>2. here = {c}
        BY <1>2, <2>1
    <2>. HIDE DEF here
    <2>. QED
        BY <1>1, <2>2 DEF The
<1>3. ASSUME s > n \/ s > Cardinality(act)
      PROVE  Table0(n)[s] = EmptySlot
    <2>1. CASE s > n
        <3>1. here = {}
            BY <2>1 DEF Slots
        <3>. HIDE DEF here
        <3>. QED
            BY <1>1, <3>1
    <2>2. CASE s > Cardinality(act)
        <3>1. s \in Int /\ s \notin 1..Cardinality(act)
            BY <2>2, SetsFinite DEF Slots
        <3>2. Nth(act, s) = {}
            BY <3>1, SetsFinite, NthNone
        <3>3. here = {}
            BY <3>2
        <3>. HIDE DEF here
        <3>. QED
            BY <1>1, <3>3
    <2>. QED
        BY <1>3, <2>1, <2>2
<1>. QED
    BY <1>2, <1>3

\* A CRTC's slot has a bo.
LEMMA SlotIs ==
    ASSUME IInv, NEW c \in act,
           c \in Starved0 => Rank(Starved0, c) <= Cardinality(Free0)
    PROVE  /\ Slot0(c).bo # NoBo
           /\ \A k : Taken0(c) = {k} =>
                  /\ c \notin Starved0
                  /\ Slot0(c) = [bo |-> tab0[k].bo, rect |-> rect[c], valid |-> tab0[k].valid]
           /\ Taken0(c) = {} => /\ c \in Starved0
                                /\ Slot0(c) = [bo |-> NewBo0(c), rect |-> rect[c], valid |-> FALSE]
<1>1. TypeOK /\ rect[c] \in RectChoices
    BY ActType DEF IInv
<1>2. Slot0(c) = IF Taken0(c) = {}
                 THEN [bo |-> NewBo0(c), rect |-> rect[c], valid |-> FALSE]
                 ELSE [bo |-> tab0[The(Taken0(c))].bo, rect |-> rect[c],
                       valid |-> tab0[The(Taken0(c))].valid]
    BY DEF Slot0, NewSlot, Taken0, NewBo0
<1>3. c \in Starved0 <=> Taken0(c) = {}
    BY DEF Starved0, Starved, Taken0
<1>4. CASE Taken0(c) = {}
    <2>1. NewBo0(c) \in Free0
        BY <1>1, <1>3, <1>4, NewBoIs
    <2>2. NewBo0(c) # NoBo
        BY <1>1, <2>1, SetsFinite DEF NoBo, Bos
    <2>. QED
        BY <1>2, <1>3, <1>4, <2>2
<1>5. CASE Taken0(c) # {}
    <2>1. \A s \in Taken0(c) : s \in Slots /\ tab0[s].rect = rect[c]
        BY DEF Taken0, Taken, Nth
    <2>2. The(Taken0(c)) \in Taken0(c) /\ \A k : Taken0(c) = {k} => The(Taken0(c)) = k
        BY <1>5, TheMember
    <2>3. tab0[The(Taken0(c))].bo # NoBo
        BY <1>1, <2>1, <2>2, RectsReal, EmptySlotType DEF IInv, Filled
    <2>. QED
        BY <1>2, <1>3, <1>5, <2>2, <2>3
<1>. QED
    BY <1>4, <1>5

\* The table has its first slots filled; the next CRTC fills the one after them.
LEMMA TableGrows ==
    ASSUME IInv, Looping, pc = "crtcs", i \in act
    PROVE  LET n == Cardinality(Done)
           IN  /\ n \in Nat /\ n <= MaxScanouts /\ Rank(act, i) = n + 1
               /\ n = MaxScanouts => AddAt = 0
               /\ n # MaxScanouts => /\ AddAt = n + 1 /\ n + 1 \in Slots
                                     /\ Table0(n + 1) = [Table0(n) EXCEPT ![n + 1] = Slot0(i)]
<1>. DEFINE n == Cardinality(Done)
<1>1. TypeOK /\ scanouts = Table0(n) /\ n <= MaxScanouts
    BY DEF IInv, Looping
<1>2. n \in Nat /\ Rank(act, i) = n + 1 /\ \A c \in act : c < i <=> Rank(act, c) <= n
    BY <1>1, SetsFinite, RankBefore DEF Done
<1>3. n <= Cardinality(act)
    BY <1>1, SetsFinite, FS_Subset DEF Done
<1>. HIDE DEF n
<1>4. ASSUME NEW s \in Slots, s <= n
      PROVE  scanouts[s].bo # NoBo
    <2>1. s \in 1..Cardinality(act)
        BY <1>1, <1>2, <1>3, <1>4, SetsFinite DEF Slots
    <2>2. PICK c \in act : Rank(act, c) = s
        BY <1>1, <2>1, SetsFinite, NthMember
    <2>3. c < i /\ scanouts[s] = Slot0(c)
        BY <1>1, <1>2, <1>4, <2>2, TableAt
    <2>4. c \in Starved0 => Rank(Starved0, c) <= Cardinality(Free0)
        BY <2>3 DEF Looping
    <2>. QED
        BY <2>3, <2>4, SlotIs
<1>5. \A s \in Slots : s > n => scanouts[s].bo = NoBo
    BY <1>1, <1>2, TableAt, EmptySlotType
<1>6. ASSUME n = MaxScanouts
      PROVE  AddAt = 0
    <2>1. \A s \in Slots : scanouts[s].bo # NoBo
        BY <1>4, <1>6 DEF Slots
    <2>. QED
        BY <2>1, AddAtFirst
<1>7. ASSUME n # MaxScanouts
      PROVE  AddAt = n + 1 /\ n + 1 \in Slots
    <2>1. n + 1 \in Slots /\ n + 1 > n
        BY <1>1, <1>2, <1>7, SizeAssumption DEF Slots
    <2>2. AddAt # 0 /\ AddAt \in Slots /\ AddAt <= n + 1 /\ scanouts[AddAt].bo = NoBo
        BY <1>5, <2>1, AddAtFirst
    <2>3. ~(AddAt <= n)
        BY <1>4, <2>2
    <2>. QED
        BY <1>2, <2>1, <2>2, <2>3 DEF Slots
<1>8. ASSUME n # MaxScanouts
      PROVE  Table0(n + 1) = [Table0(n) EXCEPT ![n + 1] = Slot0(i)]
    <2>1. \A m : Table0(m) = [s \in Slots |-> Table0(m)[s]]
        BY DEF Table0, UpdatedTable
    <2>2. n + 1 \in Slots /\ n + 1 <= n + 1 /\ n + 1 \in Int
        BY <1>2, <1>7, <1>8
    <2>3. Table0(n + 1)[n + 1] = Slot0(i)
        BY <1>1, <1>2, <2>2, TableAt
    <2>4. ASSUME NEW s \in Slots, s # n + 1
          PROVE  Table0(n + 1)[s] = Table0(n)[s]
        <3>1. s \in Int
            BY DEF Slots
        <3>2. CASE s > n
            <4>1. s > n + 1
                BY <1>2, <2>4, <3>1, <3>2
            <4>. QED
                BY <1>1, <1>2, <2>2, <3>2, <4>1, TableAt
        <3>3. CASE s <= n
            <4>1. s \in 1..Cardinality(act) /\ s <= n + 1
                BY <1>1, <1>2, <1>3, <3>3, SetsFinite DEF Slots
            <4>2. PICK c \in act : Rank(act, c) = s
                BY <1>1, <4>1, SetsFinite, NthMember
            <4>. QED
                BY <1>1, <1>2, <2>2, <3>3, <4>1, <4>2, TableAt
        <3>. QED
            BY <1>2, <3>1, <3>2, <3>3
    <2>. DEFINE t == Table0(n)
                u == Table0(n + 1)
    <2>5. t = [s \in Slots |-> t[s]] /\ u = [s \in Slots |-> u[s]]
        BY <2>1
    <2>6. u[n + 1] = Slot0(i) /\ \A s \in Slots : s # n + 1 => u[s] = t[s]
        BY <2>3, <2>4
    <2>. HIDE DEF t, u
    <2>7. u = [t EXCEPT ![n + 1] = Slot0(i)]
        BY <2>2, <2>5, <2>6
    <2>. QED
        BY <2>7 DEF t, u
<1>. QED
    BY <1>1, <1>2, <1>6, <1>7, <1>8 DEF n

\* The loop is through with one CRTC more.
LEMMA DoneGrows ==
    ASSUME TypeOK, act' = act, i' = i + 1
    PROVE  /\ Done' = {c \in act : c < i + 1}
           /\ i \notin act => Done' = Done
           /\ i \in act => Done' = Done \cup {i} /\ Cardinality(Done') = Cardinality(Done) + 1
<1>1. i \in Int /\ act \in SUBSET Int /\ IsFiniteSet(act)
    BY SetsFinite
<1>2. Done' = {c \in act : c < i + 1}
    BY DEF Done
<1>3. \A c \in act : c < i + 1 <=> c < i \/ c = i
    BY <1>1
<1>4. i \notin act => Done' = Done
    BY <1>2, <1>3 DEF Done
<1>5. i \in act => Done' = Done \cup {i} /\ i \notin Done /\ IsFiniteSet(Done)
    <2>1. IsFiniteSet(Done) /\ ~(i < i)
        BY <1>1, FS_Subset DEF Done
    <2>. QED
        BY <1>2, <1>3, <2>1 DEF Done
<1>. QED
    BY <1>2, <1>4, <1>5, FS_AddElement


\* When CRTC i needs a bo the code allocates the one the function gives it.
LEMMA FreshGrows ==
    ASSUME TypeOK, Looping, pc = "crtcs", i \in act
    PROVE  LET n == Cardinality(Done)
           IN  /\ i \notin Starved0 => Fresh0(n + 1) = Fresh0(n)
               /\ i \in Starved0 /\ Rank(Starved0, i) <= Cardinality(Free0) =>
                      Fresh0(n + 1) = Fresh0(n) \cup {NewBo0(i)}
               /\ i \in Starved0 /\ FreeNow # {} =>
                      /\ Rank(Starved0, i) <= Cardinality(Free0)
                      /\ The(Nth(FreeNow, 1)) = NewBo0(i)
                      /\ The(Nth(FreeNow, 1)) \in FreeNow
<1>. DEFINE n == Cardinality(Done)
            m == Cardinality({c \in Starved0 : c < i})
<1>1. /\ i \in Int /\ act \in SUBSET Int /\ IsFiniteSet(act)
      /\ \A c \in Starved0 : c < i => Rank(Starved0, c) <= Cardinality(Free0)
    BY SetsFinite DEF Looping
<1>2. /\ m \in Nat /\ Fresh0(n) = {b \in Free0 : Rank(Free0, b) <= m}
      /\ \A b : b \in Fresh0(n) <=> \E c \in Starved0 : c < i /\ b = NewBo0(c)
    BY <1>1, FreshBelow DEF Done
<1>3. Cardinality({c \in act : c < i + 1}) = n + 1
    <2>1. \A c \in act : c < i + 1 <=> c < i \/ c = i
        BY <1>1
    <2>2. {c \in act : c < i + 1} = Done \cup {i} /\ i \notin Done /\ IsFiniteSet(Done)
        <3>1. IsFiniteSet(Done) /\ ~(i < i)
            BY <1>1, FS_Subset DEF Done
        <3>. QED
            BY <2>1, <3>1 DEF Done
    <2>. QED
        BY <2>2, FS_AddElement
<1>4. ASSUME i \in Starved0 => Rank(Starved0, i) <= Cardinality(Free0)
      PROVE  \A b : b \in Fresh0(n + 1) <=> \E c \in Starved0 : c < i + 1 /\ b = NewBo0(c)
    <2>1. \A c \in Starved0 : c < i + 1 => Rank(Starved0, c) <= Cardinality(Free0)
        <3>1. \A c \in Starved0 : c < i + 1 <=> c < i \/ c = i
            BY <1>1, SetsFinite
        <3>. QED
            BY <1>1, <1>4, <3>1
    <2>2. i + 1 \in Int
        BY <1>1
    <2>. HIDE DEF n
    <2>. QED
        BY <1>3, <2>1, <2>2, FreshBelow
<1>5. \A c \in Starved0 : c < i + 1 <=> c < i \/ c = i
    BY <1>1, SetsFinite
<1>. HIDE DEF n
<1>6. i \notin Starved0 => Fresh0(n + 1) = Fresh0(n)
    <2>. SUFFICES ASSUME i \notin Starved0 PROVE Fresh0(n + 1) = Fresh0(n)
        OBVIOUS
    <2>1. \A b : b \in Fresh0(n + 1) <=> b \in Fresh0(n)
        BY <1>2, <1>4, <1>5
    <2>. QED
        BY <2>1 DEF Fresh0, FreshBos
<1>7. i \in Starved0 /\ Rank(Starved0, i) <= Cardinality(Free0) =>
          Fresh0(n + 1) = Fresh0(n) \cup {NewBo0(i)}
    <2>. SUFFICES ASSUME i \in Starved0, Rank(Starved0, i) <= Cardinality(Free0)
                  PROVE  Fresh0(n + 1) = Fresh0(n) \cup {NewBo0(i)}
        OBVIOUS
    <2>1. \A b : b \in Fresh0(n + 1) <=> b \in Fresh0(n) \/ b = NewBo0(i)
        BY <1>2, <1>4, <1>5
    <2>. QED
        BY <2>1 DEF Fresh0, FreshBos
<1>8. FreeNow = {b \in Free0 : Rank(Free0, b) > m}
    <2>1. \A b \in Bos : rc[b] = IF b \in Fresh0(n) THEN 1 ELSE rc0[b]
        BY DEF Looping, n
    <2>2. \A b \in Bos : rc[b] = 0 <=> b \in Free0 /\ b \notin Fresh0(n)
        BY <2>1, <1>2 DEF Free0
    <2>3. \A b \in Free0 : Rank(Free0, b) \in Nat
        BY SetsFinite, RankType
    <2>. QED
        BY <1>2, <2>2, <2>3, SetsFinite DEF FreeNow
<1>9. ASSUME i \in Starved0, FreeNow # {}
      PROVE  /\ Rank(Starved0, i) <= Cardinality(Free0)
             /\ The(Nth(FreeNow, 1)) = NewBo0(i)
             /\ The(Nth(FreeNow, 1)) \in FreeNow
    <2>1. Rank(Starved0, i) = m + 1
        BY <1>1, <1>9, SetsFinite, RankBefore
    <2>. DEFINE b == The(Nth(FreeNow, 1))
    <2>2. Nth(Free0, m + 1) = {b} /\ m + 1 <= Cardinality(Free0) /\ b \in FreeNow
        <3>1. m \in Nat /\ FreeNow = {f \in Free0 : Rank(Free0, f) > m}
            BY <1>2, <1>8
        <3>2. FreeNow # {}
            BY <1>9
        <3>. HIDE DEF m
        <3>. QED
            BY <3>1, <3>2, SetsFinite, NextNth
    <2>3. NewBo0(i) = The(Nth(Free0, m + 1))
        BY <2>1 DEF NewBo0, NewBo, Starved0
    <2>. HIDE DEF b
    <2>4. NewBo0(i) = b
        BY <2>2, <2>3 DEF The
    <2>. QED
        BY <2>1, <2>2, <2>4 DEF b
<1>. QED
    BY <1>6, <1>7, <1>9 DEF n

\* What there is to show of a step that keeps the input.
LEMMA LoopingNext ==
    ASSUME UNCHANGED input, NEW n, n = Cardinality(Done'),
           pc' = "crtcs" => /\ ~resized' /\ n <= MaxScanouts /\ scanouts' = Table0(n)
                            /\ \A s \in Slots : old'[s] = IF \E c \in Done' : s \in Taken0(c)
                                                          THEN EmptySlot ELSE tab0[s]
                            /\ \A b \in Bos : rc'[b] = IF b \in Fresh0(n) THEN 1 ELSE rc0[b]
                            /\ \A c \in Starved0 : c < i' =>
                                   Rank(Starved0, c) <= Cardinality(Free0)
    PROVE  Looping'
<1>1. /\ tab0' = tab0 /\ rect' = rect /\ act' = act /\ Free0' = Free0 /\ Starved0' = Starved0
      /\ rc0' = rc0
    BY InputKept DEF input
<1>2. /\ Table0(Cardinality(Done))' = Table0(n)
      /\ Fresh0(Cardinality(Done))' = Fresh0(n)
      /\ \A c : Taken0(c)' = Taken0(c)
    BY <1>1 DEF Table0, Fresh0, Taken0
<1>3. OldWithout(Done)' <=> \A s \in Slots : old'[s] = IF \E c \in Done' : s \in Taken0(c)
                                                     THEN EmptySlot ELSE tab0[s]
    BY <1>1 DEF OldWithout, Taken0
<1>. QED
    BY <1>1, <1>2, <1>3 DEF Looping

LEMMA SkipCrtcLoops == CInv /\ SkipCrtc => Looping' /\ Dropping' /\ LoopComputesUpdate'
<1>. SUFFICES ASSUME CInv, SkipCrtc PROVE Looping' /\ Dropping' /\ LoopComputesUpdate'
    OBVIOUS
<1>1. /\ UNCHANGED input /\ pc = "crtcs" /\ pc' = "crtcs" /\ i' = i + 1 /\ i \notin act
      /\ scanouts' = scanouts /\ old' = old /\ rc' = rc /\ resized' = resized
      /\ TypeOK /\ Looping
    BY DEF SkipCrtc, act, CInv, IInv
<1>2. Done' = Done
    BY <1>1, InputKept, DoneGrows DEF input
<1>3. \A c \in Starved0 : c < i' => c < i
    BY <1>1, SetsFinite
<1>4. Looping'
    BY <1>1, <1>2, <1>3, LoopingNext DEF Looping, OldWithout
<1>. QED
    BY <1>1, <1>4 DEF Dropping, LoopComputesUpdate


\* When the function may stop, and when it may not.
LEMMA Endings ==
    ASSUME TypeOK
    PROVE  LET all == UpdateScanouts(tab0, act, rect, Free0, rc0, CanFail)
               stopped(n, dropped) == UpdateStopped(tab0, act, rect, Free0, rc0, n, dropped)
           IN  /\ \A c \in Starved0 : CanFail /\ Rank(act, c) <= MaxScanouts + 1 =>
                      stopped(Rank(act, c) - 1, {}) \in all
               /\ \A c \in act : Rank(act, c) = MaxScanouts + 1 =>
                      stopped(MaxScanouts, Taken0(c)) \in all
               /\ Cardinality(act) <= MaxScanouts =>
                      UpdateDone(tab0, act, rect, Free0, rc0) \in all
<1>. DEFINE all == UpdateScanouts(tab0, act, rect, Free0, rc0, CanFail)
            stopped(n, dropped) == UpdateStopped(tab0, act, rect, Free0, rc0, n, dropped)
            ended == UpdateDone(tab0, act, rect, Free0, rc0)
            full == {c \in act : Rank(act, c) = MaxScanouts + 1}
            refused == {c \in Starved0 : CanFail /\ Rank(act, c) <= MaxScanouts + 1}
<1>1. all = {stopped(Rank(act, c) - 1, {}) : c \in refused}
            \cup (IF full # {} THEN {stopped(MaxScanouts, Taken0(The(full)))} ELSE {ended})
    BY DEF UpdateScanouts, Starved0, Taken0
<1>2. ASSUME NEW c \in act, Rank(act, c) = MaxScanouts + 1
      PROVE  full # {} /\ The(full) = c
    <2>1. full = {c}
        BY <1>2, SetsFinite, RankOrder
    <2>. QED
        BY <2>1 DEF The
<1>3. Cardinality(act) <= MaxScanouts => full = {}
    <2>1. \A c \in act : Rank(act, c) <= Cardinality(act) /\ Rank(act, c) \in Nat
        BY SetsFinite, RankType
    <2>. QED
        BY <2>1, SetsFinite, SizeAssumption
<1>4. \A c \in Starved0 : CanFail /\ Rank(act, c) <= MaxScanouts + 1 =>
          stopped(Rank(act, c) - 1, {}) \in {stopped(Rank(act, d) - 1, {}) : d \in refused}
    OBVIOUS
<1>. HIDE DEF all, stopped, ended, full, refused
<1>5. /\ \A c \in Starved0 : CanFail /\ Rank(act, c) <= MaxScanouts + 1 =>
             stopped(Rank(act, c) - 1, {}) \in all
      /\ \A c \in act : Rank(act, c) = MaxScanouts + 1 => stopped(MaxScanouts, Taken0(c)) \in all
      /\ Cardinality(act) <= MaxScanouts => ended \in all
    BY <1>1, <1>2, <1>3, <1>4
<1>. QED
    BY <1>5 DEF all, stopped, ended

\* A call that stops has made the table for n CRTCs and lost the slots dropped.
LEMMA Stops ==
    ASSUME UNCHANGED input, TypeOK', ~resized', pc' = "failed", NEW n, NEW dropped,
           UpdateStopped(tab0, act, rect, Free0, rc0, n, dropped)
               \in UpdateScanouts(tab0, act, rect, Free0, rc0, CanFail),
           scanouts' = Table0(n),
           \A b \in Bos : rc'[b] = IF b \in Fresh0(n) THEN 1 ELSE rc0[b] - Lost(tab0, dropped, b)
    PROVE  Looping' /\ Dropping' /\ LoopComputesUpdate'
<1>. DEFINE counts == [b \in Bos |-> IF b \in Fresh0(n) THEN 1 ELSE rc0[b] - Lost(tab0, dropped, b)]
<1>1. UpdateStopped(tab0, act, rect, Free0, rc0, n, dropped)
          = [ret |-> FALSE, resized |-> FALSE, tab |-> Table0(n), rc |-> counts]
    BY DEF UpdateStopped, Table0, Fresh0
<1>2. rc' = counts
    BY DEF TypeOK
<1>3. resized' = FALSE /\ (pc = "done")' = FALSE
    BY DEF TypeOK
<1>. HIDE DEF counts
<1>4. Result' = UpdateStopped(tab0, act, rect, Free0, rc0, n, dropped)
    BY <1>1, <1>2, <1>3 DEF Result
<1>5. Result' \in UpdateScanouts(tab0, act, rect, Free0, rc0, CanFail)'
    BY <1>4, InputKept DEF input
<1>6. LoopComputesUpdate'
    BY <1>5 DEF LoopComputesUpdate, Free0
<1>. QED
    BY <1>6 DEF Looping, Dropping

LEMMA LostOf ==
    /\ \A tab, b : Lost(tab, {}, b) = 0
    /\ \A tab, s, b : Lost(tab, {s}, b) = One(tab[s].bo = b)
<1>1. ASSUME NEW tab, NEW b
      PROVE  Lost(tab, {}, b) = 0
    <2>1. {s \in {} : tab[s].bo = b} = {}
        OBVIOUS
    <2>. QED
        BY <2>1, FS_EmptySet DEF Lost
<1>2. ASSUME NEW tab, NEW s, NEW b
      PROVE  Lost(tab, {s}, b) = One(tab[s].bo = b)
    <2>1. CASE tab[s].bo = b
        <3>1. {t \in {s} : tab[t].bo = b} = {s}
            BY <2>1
        <3>. QED
            BY <2>1, <3>1, FS_Singleton DEF Lost, One
    <2>2. CASE tab[s].bo # b
        <3>1. {t \in {s} : tab[t].bo = b} = {}
            BY <2>2
        <3>. QED
            BY <2>2, <3>1, FS_EmptySet DEF Lost, One
    <2>. QED
        BY <2>1, <2>2
<1>. QED
    BY <1>1, <1>2

LEMMA Refs0Type == rc0 \in [Bos -> Nat]
<1>1. \A b : Cardinality({s \in Slots : tab0[s].bo = b}) \in Nat
    BY SlotsFinite, FS_Subset, FS_CardinalityType
<1>. QED
    BY <1>1 DEF rc0

\* A free bo is in no slot of the old table.
LEMMA FreeUnlisted == \A b \in Free0, s \in Slots : tab0[s].bo # b
<1>. SUFFICES ASSUME NEW b \in Free0, NEW s \in Slots, tab0[s].bo = b PROVE FALSE
    OBVIOUS
<1>. DEFINE S == {t \in Slots : tab0[t].bo = b}
<1>1. Cardinality(S) = 0 /\ s \in S
    BY DEF Free0, rc0
<1>2. IsFiniteSet(S)
    BY SlotsFinite, FS_Subset
<1>. HIDE DEF S
<1>. QED
    BY <1>1, <1>2, FS_EmptySet

LEMMA AllocationFailsLoops ==
    CInv /\ AllocationFails => Looping' /\ Dropping' /\ LoopComputesUpdate'
<1>. SUFFICES ASSUME CInv, AllocationFails PROVE Looping' /\ Dropping' /\ LoopComputesUpdate'
    OBVIOUS
<1>. DEFINE n == Cardinality(Done)
<1>1. /\ UNCHANGED input /\ pc = "crtcs" /\ pc' = "failed" /\ i \in act /\ CanFail
      /\ scanouts' = scanouts /\ rc' = rc /\ resized' = resized
      /\ ScanoutFromSize(old, rect[i]) = 0
    BY DEF AllocationFails
<1>2. IInv /\ Looping /\ TypeOK /\ TypeOK'
    BY <1>1, AllocationFailsStep DEF CInv, IInv
<1>3. i \in Starved0
    BY <1>1, <1>2, RecycledIsTaken DEF Starved0, Starved, Taken0
<1>4. n \in Nat /\ n <= MaxScanouts /\ Rank(act, i) = n + 1
    BY <1>1, <1>2, TableGrows
<1>5. ~resized /\ scanouts = Table0(n) /\ \A b \in Bos : rc[b] = IF b \in Fresh0(n) THEN 1 ELSE rc0[b]
    BY <1>1, <1>2 DEF Looping
<1>. HIDE DEF n
<1>6. UpdateStopped(tab0, act, rect, Free0, rc0, n, {})
          \in UpdateScanouts(tab0, act, rect, Free0, rc0, CanFail)
    <2>1. Rank(act, i) <= MaxScanouts + 1 /\ Rank(act, i) - 1 = n
        BY <1>4, SizeAssumption
    <2>. QED
        BY <1>1, <1>2, <1>3, <2>1, Endings
<1>7. \A b \in Bos : rc'[b] = IF b \in Fresh0(n) THEN 1 ELSE rc0[b] - Lost(tab0, {}, b)
    BY <1>1, <1>5, LostOf, Refs0Type
<1>. QED
    BY <1>1, <1>2, <1>5, <1>6, <1>7, Stops


\* The tail of an iteration, for the bo the function gives to CRTC i.
LEMMA AddedLoops ==
    ASSUME CInv, TypeOK', pc = "crtcs", i \in act, UNCHANGED <<input, resized>>,
           i \in Starved0 => Rank(Starved0, i) <= Cardinality(Free0),
           NEW b \in Bos, NEW valid, Slot0(i) = [bo |-> b, rect |-> rect[i], valid |-> valid],
           NEW counts \in [Bos -> Int], AddScanout(b, valid, counts),
           \A f \in Bos : counts[f] = IF f \in Fresh0(Cardinality(Done) + 1) THEN 1 ELSE rc0[f],
           \A f \in Bos : Unreference(counts, b)[f] =
                              IF f \in Fresh0(Cardinality(Done)) THEN 1
                              ELSE rc0[f] - Lost(tab0, Taken0(i), f),
           \A s \in Slots : old'[s] = IF s \in Taken0(i) THEN EmptySlot ELSE old[s]
    PROVE  Looping' /\ Dropping' /\ LoopComputesUpdate'
<1>. DEFINE n == Cardinality(Done)
<1>1. /\ UNCHANGED input /\ ~resized' /\ IInv /\ Looping /\ TypeOK /\ TypeOK' /\ act' = act
      /\ scanouts = Table0(n)
    BY InputKept DEF CInv, IInv, Looping, input
<1>2. /\ n \in Nat /\ n <= MaxScanouts /\ Rank(act, i) = n + 1
      /\ n = MaxScanouts => AddAt = 0
      /\ n # MaxScanouts => /\ AddAt = n + 1 /\ n + 1 \in Slots
                            /\ Table0(n + 1) = [Table0(n) EXCEPT ![n + 1] = Slot0(i)]
    BY <1>1, TableGrows
<1>3. CASE n = MaxScanouts
    <2>1. pc' = "failed" /\ rc' = Unreference(counts, b) /\ scanouts' = scanouts
        BY <1>2, <1>3 DEF AddScanout
    <2>2. UpdateStopped(tab0, act, rect, Free0, rc0, n, Taken0(i))
              \in UpdateScanouts(tab0, act, rect, Free0, rc0, CanFail)
        BY <1>1, <1>2, <1>3, Endings
    <2>. QED
        BY <1>1, <2>1, <2>2, Stops
<1>4. CASE n # MaxScanouts
    <2>1. AddAt = n + 1 /\ n + 1 \in Slots /\ AddAt # 0 /\ n + 1 <= MaxScanouts
        BY <1>2, <1>4 DEF Slots
    <2>2. /\ scanouts' = Table0(n + 1)
          /\ rc' = counts /\ i' = i + 1 /\ pc' = "crtcs"
        <3>1. /\ scanouts' = [scanouts EXCEPT ![AddAt] = [bo |-> b, rect |-> rect[i], valid |-> valid]]
              /\ rc' = Unreference(Reference(counts, b), b) /\ i' = i + 1 /\ pc' = pc
            BY <2>1 DEF AddScanout
        <3>2. Unreference(Reference(counts, b), b) = counts
            BY RefsChange
        <3>. HIDE DEF n
        <3>. QED
            BY <1>1, <1>2, <1>4, <2>1, <3>1, <3>2
    <2>3. Done' = Done \cup {i} /\ Cardinality(Done') = n + 1
        BY <1>1, <2>2, DoneGrows
    <2>4. ASSUME NEW s \in Slots
          PROVE  old'[s] = IF \E c \in Done' : s \in Taken0(c) THEN EmptySlot ELSE tab0[s]
        <3>1. old[s] = IF \E c \in Done : s \in Taken0(c) THEN EmptySlot ELSE tab0[s]
            BY <1>1 DEF Looping, OldWithout
        <3>. QED
            BY <2>3, <3>1
    <2>5. \A c \in Starved0 : c < i' => Rank(Starved0, c) <= Cardinality(Free0)
        <3>1. \A c \in Starved0 : c < i + 1 <=> c < i \/ c = i
            BY <1>1, SetsFinite
        <3>. QED
            BY <1>1, <2>2, <3>1 DEF Looping
    <2>. HIDE DEF n
    <2>6. \A f \in Bos : rc'[f] = IF f \in Fresh0(n + 1) THEN 1 ELSE rc0[f]
        BY <2>2 DEF n
    <2>7. Looping'
        <3>. DEFINE m == n + 1
        <3>1. /\ m = Cardinality(Done') /\ m <= MaxScanouts /\ scanouts' = Table0(m)
              /\ \A f \in Bos : rc'[f] = IF f \in Fresh0(m) THEN 1 ELSE rc0[f]
            BY <2>1, <2>2, <2>3, <2>6
        <3>. HIDE DEF m
        <3>. QED
            BY <1>1, <2>4, <2>5, <3>1, LoopingNext
    <2>. QED
        BY <2>2, <2>7 DEF Dropping, LoopComputesUpdate
<1>. QED
    BY <1>3, <1>4

LEMMA RecycleBoLoops == CInv /\ RecycleBo => Looping' /\ Dropping' /\ LoopComputesUpdate'
<1>. SUFFICES ASSUME CInv, RecycleBo PROVE Looping' /\ Dropping' /\ LoopComputesUpdate'
    OBVIOUS
<1>. DEFINE n == Cardinality(Done)
            k == ScanoutFromSize(old, rect[i])
            b == tab0[k].bo
<1>1. /\ pc = "crtcs" /\ i \in act /\ UNCHANGED <<input, resized>> /\ k # 0
      /\ old' = [old EXCEPT ![k] = EmptySlot]
      /\ AddScanout(old[k].bo, old[k].valid, rc)
    BY DEF RecycleBo
<1>2. IInv /\ Looping /\ TypeOK /\ TypeOK'
    BY <1>1, RecycleBoStep DEF CInv, IInv
<1>3. k \in Slots /\ Taken0(i) = {k} /\ old[k] = tab0[k]
    BY <1>1, <1>2, RecycledIsTaken
<1>4. i \notin Starved0
    BY <1>3 DEF Starved0, Starved, Taken0
<1>5. Slot0(i) = [bo |-> b, rect |-> rect[i], valid |-> tab0[k].valid] /\ Slot0(i).bo # NoBo
    BY <1>1, <1>2, <1>3, <1>4, SlotIs
<1>6. b \in Bos
    <2>1. b # NoBo
        BY <1>5
    <2>2. b \in Bos \cup {NoBo}
        BY <1>2, <1>3 DEF TypeOK, TableType, SlotType
    <2>. QED
        BY <2>1, <2>2
<1>7. rc \in [Bos -> Int] /\ Fresh0(n + 1) = Fresh0(n)
    BY <1>1, <1>2, <1>4, FreshGrows DEF TypeOK
<1>8. \A f \in Bos : rc[f] = IF f \in Fresh0(n) THEN 1 ELSE rc0[f]
    BY <1>1, <1>2 DEF Looping
<1>9. b \notin Fresh0(n)
    <2>1. Fresh0(n) \subseteq Free0
        <3>1. /\ i \in Int
              /\ \A c \in Starved0 : c < i => Rank(Starved0, c) <= Cardinality(Free0)
            BY <1>1, <1>2, SetsFinite DEF Looping
        <3>2. Fresh0(Cardinality({c \in act : c < i}))
                  = {f \in Free0 : Rank(Free0, f) <= Cardinality({c \in Starved0 : c < i})}
            BY <1>2, <3>1, FreshBelow
        <3>. QED
            BY <3>2 DEF Done
    <2>. QED
        BY <1>3, <2>1, FreeUnlisted
<1>. HIDE DEF n, k
<1>10. \A f \in Bos : Unreference(rc, b)[f] = IF f \in Fresh0(n) THEN 1
                                              ELSE rc0[f] - Lost(tab0, Taken0(i), f)
    <2>1. \A f \in Bos : Unreference(rc, b)[f] = rc[f] - One(f = b)
        BY <1>6, <1>7, RefsChange
    <2>2. \A f \in Bos : Lost(tab0, Taken0(i), f) = One(b = f)
        BY <1>3, LostOf
    <2>. QED
        BY <1>8, <1>9, <2>1, <2>2, Refs0Type DEF One
<1>11. \A s \in Slots : old'[s] = IF s \in Taken0(i) THEN EmptySlot ELSE old[s]
    BY <1>1, <1>2, <1>3 DEF TypeOK, TableType
<1>. DEFINE valid == tab0[k].valid
<1>12. AddScanout(b, valid, rc)
    BY <1>1, <1>3
<1>13. Slot0(i) = [bo |-> b, rect |-> rect[i], valid |-> valid]
    BY <1>5
<1>. HIDE DEF b, valid
<1>. QED
    BY <1>1, <1>2, <1>4, <1>6, <1>7, <1>8, <1>10, <1>11, <1>12, <1>13, AddedLoops DEF n

LEMMA AllocateBoLoops == CInv /\ AllocateBo => Looping' /\ Dropping' /\ LoopComputesUpdate'
<1>. SUFFICES ASSUME CInv, AllocateBo PROVE Looping' /\ Dropping' /\ LoopComputesUpdate'
    OBVIOUS
<1>. DEFINE n == Cardinality(Done)
            b == The(Nth(FreeNow, 1))
            counts == [rc EXCEPT ![b] = 1]
<1>1. /\ pc = "crtcs" /\ i \in act /\ UNCHANGED <<input, resized>> /\ old' = old
      /\ ScanoutFromSize(old, rect[i]) = 0 /\ FreeNow # {}
      /\ AddScanout(b, FALSE, counts)
    BY DEF AllocateBo
<1>2. IInv /\ Looping /\ TypeOK /\ TypeOK'
    BY <1>1, AllocateBoStep DEF CInv, IInv
<1>3. Taken0(i) = {} /\ i \in Starved0
    BY <1>1, <1>2, RecycledIsTaken DEF Starved0, Starved, Taken0
<1>4. Rank(Starved0, i) <= Cardinality(Free0) /\ b = NewBo0(i) /\ b \in FreeNow
    BY <1>1, <1>2, <1>3, FreshGrows
<1>5. Slot0(i) = [bo |-> b, rect |-> rect[i], valid |-> FALSE]
    BY <1>1, <1>2, <1>3, <1>4, SlotIs
<1>6. Fresh0(n + 1) = Fresh0(n) \cup {b}
    BY <1>1, <1>2, <1>3, <1>4, FreshGrows
<1>7. b \in Bos /\ rc[b] = 0 /\ rc \in [Bos -> Int]
    BY <1>2, <1>4 DEF FreeNow, TypeOK
<1>8. \A f \in Bos : rc[f] = IF f \in Fresh0(n) THEN 1 ELSE rc0[f]
    BY <1>1, <1>2 DEF Looping
<1>. HIDE DEF n, b
<1>9. counts \in [Bos -> Int] /\ \A f \in Bos : counts[f] = IF f = b THEN 1 ELSE rc[f]
    BY <1>7
<1>. HIDE DEF counts
<1>10. \A f \in Bos : counts[f] = IF f \in Fresh0(n + 1) THEN 1 ELSE rc0[f]
    BY <1>6, <1>8, <1>9
<1>11. \A f \in Bos : Unreference(counts, b)[f] = IF f \in Fresh0(n) THEN 1
                                                  ELSE rc0[f] - Lost(tab0, Taken0(i), f)
    <2>1. \A f \in Bos : Unreference(counts, b)[f] = counts[f] - One(f = b)
        BY <1>7, <1>9, RefsChange
    <2>2. \A f \in Bos : Unreference(counts, b)[f] = rc[f]
        BY <1>7, <1>9, <2>1 DEF One
    <2>3. \A f : Lost(tab0, Taken0(i), f) = 0
        BY <1>3, LostOf
    <2>. QED
        BY <1>8, <2>2, <2>3, Refs0Type
<1>12. \A s \in Slots : old'[s] = IF s \in Taken0(i) THEN EmptySlot ELSE old[s]
    BY <1>1, <1>3
<1>. QED
    BY <1>1, <1>2, <1>4, <1>5, <1>7, <1>9, <1>10, <1>11, <1>12, AddedLoops DEF n


LEMMA DroppingNext ==
    ASSUME UNCHANGED input,
           pc' = "drop" => /\ Cardinality(act) <= MaxScanouts /\ scanouts' = Table0(NumCrtc)
                           /\ \A s \in Slots : old'[s] = IF \E c \in act : s \in Taken0(c)
                                                         THEN EmptySlot ELSE tab0[s]
                           /\ \A b \in Bos : rc'[b] = IF b \in Fresh0(NumCrtc) THEN 1
                                                      ELSE rc0[b] - Lost0(i', b)
                           /\ Fresh0(NumCrtc) \subseteq Free0
                           /\ resized' <=> \E s \in Gone0 : s < i'
    PROVE  Dropping'
<1>1. /\ tab0' = tab0 /\ rect' = rect /\ act' = act /\ Free0' = Free0 /\ Gone0' = Gone0
      /\ rc0' = rc0 /\ Table0(NumCrtc)' = Table0(NumCrtc) /\ Fresh0(NumCrtc)' = Fresh0(NumCrtc)
    BY InputKept DEF input
<1>2. \A b : Lost0(i, b)' = Lost0(i', b)
    BY <1>1 DEF Lost0
<1>3. OldWithout(act)' <=> \A s \in Slots : old'[s] = IF \E c \in act : s \in Taken0(c)
                                                    THEN EmptySlot ELSE tab0[s]
    BY <1>1 DEF OldWithout, Taken0
<1>. QED
    BY <1>1, <1>2, <1>3 DEF Dropping

LEMMA CrtcsDoneLoops == CInv /\ CrtcsDone => Looping' /\ Dropping' /\ LoopComputesUpdate'
<1>. SUFFICES ASSUME CInv, CrtcsDone PROVE Looping' /\ Dropping' /\ LoopComputesUpdate'
    OBVIOUS
<1>1. /\ pc = "crtcs" /\ i > NumCrtc /\ pc' = "drop" /\ i' = 1 /\ UNCHANGED input
      /\ scanouts' = scanouts /\ old' = old /\ rc' = rc /\ resized' = resized
      /\ TypeOK /\ Looping
    BY DEF CrtcsDone, CInv, IInv
<1>. DEFINE n == Cardinality(act)
<1>2. Done = act
    <2>1. \A c \in act : c \in Int /\ c <= NumCrtc
        BY <1>1, ActType DEF Crtcs
    <2>. QED
        BY <1>1, <2>1, ActType, SizeAssumption DEF Done
<1>3. /\ ~resized /\ n <= MaxScanouts /\ scanouts = Table0(n) /\ OldWithout(act)
      /\ \A b \in Bos : rc[b] = IF b \in Fresh0(n) THEN 1 ELSE rc0[b]
    BY <1>1, <1>2 DEF Looping
<1>4. n \in Nat /\ n <= NumCrtc /\ NumCrtc \in Int
    BY <1>1, SetsFinite, SizeAssumption
<1>5. \A c \in act : Rank(act, c) \in Nat /\ Rank(act, c) <= n
    BY <1>1, SetsFinite, RankType
<1>6. Table0(n) = Table0(NumCrtc)
    <2>1. ASSUME NEW s \in Slots
          PROVE  Table0(n)[s] = Table0(NumCrtc)[s]
        <3>1. s \in Int
            BY DEF Slots
        <3>2. CASE s > n
            BY <1>1, <1>4, <3>2, TableAt
        <3>3. CASE s <= n
            <4>1. s \in 1..Cardinality(act) /\ s <= NumCrtc
                BY <1>4, <3>3 DEF Slots
            <4>2. PICK c \in act : Rank(act, c) = s
                BY <1>1, <4>1, SetsFinite, NthMember
            <4>. QED
                BY <1>1, <1>4, <3>3, <4>1, <4>2, TableAt
        <3>. QED
            BY <1>4, <3>1, <3>2, <3>3
    <2>2. \A m : Table0(m) = [s \in Slots |-> Table0(m)[s]]
        BY DEF Table0, UpdatedTable
    <2>. DEFINE t == Table0(n)
                u == Table0(NumCrtc)
    <2>3. t = [s \in Slots |-> t[s]] /\ u = [s \in Slots |-> u[s]] /\ \A s \in Slots : t[s] = u[s]
        BY <2>1, <2>2
    <2>. HIDE DEF t, u
    <2>4. t = u
        BY <2>3
    <2>. QED
        BY <2>4 DEF t, u
<1>7. Fresh0(n) = Fresh0(NumCrtc)
    <2>1. \A c \in Starved0 : Rank(act, c) <= n /\ Rank(act, c) <= NumCrtc
        BY <1>1, <1>4, <1>5, SetsFinite
    <2>. HIDE DEF n
    <2>. QED
        BY <2>1 DEF Fresh0, FreshBos, Starved0
<1>8. Fresh0(n) \subseteq Free0
    <2>1. i \in Int /\ \A c \in Starved0 : c < i => Rank(Starved0, c) <= Cardinality(Free0)
        BY <1>1, SetsFinite DEF Looping
    <2>2. Fresh0(Cardinality({c \in act : c < i}))
              = {b \in Free0 : Rank(Free0, b) <= Cardinality({c \in Starved0 : c < i})}
        BY <1>1, <2>1, FreshBelow
    <2>. QED
        BY <1>2, <2>2 DEF Done
<1>9. (\A b : Lost0(1, b) = 0) /\ ~\E s \in Gone0 : s < 1
    <2>1. {s \in Gone0 : s < 1} = {}
        BY DEF Gone0, Discarded, Slots
    <2>. QED
        BY <2>1, LostOf DEF Lost0
<1>. HIDE DEF n
<1>10. Dropping'
    <2>1. \A b \in Bos : rc'[b] = IF b \in Fresh0(NumCrtc) THEN 1 ELSE rc0[b] - Lost0(i', b)
        BY <1>1, <1>3, <1>7, <1>9, Refs0Type
    <2>2. \A s \in Slots : old'[s] = IF \E c \in act : s \in Taken0(c) THEN EmptySlot ELSE tab0[s]
        BY <1>1, <1>3 DEF OldWithout
    <2>. QED
        BY <1>1, <1>3, <1>6, <1>7, <1>8, <1>9, <2>1, <2>2, DroppingNext DEF n
<1>. QED
    BY <1>1, <1>10 DEF Looping, LoopComputesUpdate

\* The loop is past one slot more.
LEMMA LostNext ==
    ASSUME NEW x \in Slots, NEW b
    PROVE  /\ Lost0(x, b) \in Nat
           /\ Lost0(x + 1, b) = Lost0(x, b) + One(x \in Gone0 /\ tab0[x].bo = b)
<1>. DEFINE A == {s \in Gone0 : s < x /\ tab0[s].bo = b}
            B == {s \in Gone0 : s < x + 1 /\ tab0[s].bo = b}
<1>1. Lost0(x, b) = Cardinality(A) /\ Lost0(x + 1, b) = Cardinality(B)
    <2>1. /\ {s \in {t \in Gone0 : t < x} : tab0[s].bo = b} = A
          /\ {s \in {t \in Gone0 : t < x + 1} : tab0[s].bo = b} = B
        OBVIOUS
    <2>. QED
        BY <2>1 DEF Lost0, Lost
<1>2. A \in SUBSET Slots /\ B \in SUBSET Slots /\ \A s \in Slots \ {x} : s \in A <=> s \in B
    <2>1. Gone0 \subseteq Slots
        BY DEF Gone0, Discarded
    <2>2. \A s \in Slots \ {x} : s < x <=> s < x + 1
        BY DEF Slots
    <2>. QED
        BY <2>1, <2>2
<1>3. x \notin A /\ (x \in B <=> x \in Gone0 /\ tab0[x].bo = b)
    <2>1. ~(x < x) /\ x < x + 1
        BY DEF Slots
    <2>. QED
        BY <2>1
<1>4. One(x \in A) = 0 /\ One(x \in B) = One(x \in Gone0 /\ tab0[x].bo = b) /\ One(x \in B) \in Nat
    BY <1>3 DEF One
<1>. HIDE DEF A, B
<1>5. /\ Cardinality(B) = Cardinality(A) - One(x \in A) + One(x \in B)
      /\ Cardinality(A) \in Nat /\ Cardinality(B) \in Nat
    BY <1>2, SlotsChange
<1>. QED
    BY <1>1, <1>4, <1>5

LEMMA DropOldLoops == CInv /\ DropOld => Looping' /\ Dropping' /\ LoopComputesUpdate'
<1>. SUFFICES ASSUME CInv, DropOld PROVE Looping' /\ Dropping' /\ LoopComputesUpdate'
    OBVIOUS
<1>. DEFINE b == old[i].bo
<1>1. /\ pc = "drop" /\ pc' = "drop" /\ i \in Slots /\ i' = i + 1 /\ UNCHANGED input
      /\ scanouts' = scanouts /\ old' = old /\ rc' = Unreference(rc, b)
      /\ resized' = (resized \/ b # NoBo) /\ TypeOK /\ Dropping
    BY DEF DropOld, CInv, IInv
<1>2. b # NoBo <=> i \in Gone0
    BY <1>1, EmptySlotType DEF Dropping, OldWithout, Gone0, Discarded, Taken0
<1>3. i \in Gone0 => b = tab0[i].bo
    BY <1>1 DEF Dropping, OldWithout, Gone0, Discarded, Taken0
<1>4. b \in Bos \cup {NoBo} /\ rc \in [Bos -> Int]
    BY <1>1 DEF TypeOK, TableType, SlotType
<1>5. /\ \A f \in Bos : rc[f] = IF f \in Fresh0(NumCrtc) THEN 1 ELSE rc0[f] - Lost0(i, f)
      /\ Fresh0(NumCrtc) \subseteq Free0
    BY <1>1 DEF Dropping
<1>. HIDE DEF b
<1>6. \A f \in Bos : rc'[f] = rc[f] - One(i \in Gone0 /\ tab0[i].bo = f)
    <2>1. CASE i \in Gone0
        <3>1. b \in Bos /\ b = tab0[i].bo
            BY <1>2, <1>3, <1>4, <2>1
        <3>2. \A f \in Bos : Unreference(rc, b)[f] = rc[f] - One(f = b)
            BY <1>4, <3>1, RefsChange
        <3>. QED
            BY <1>1, <2>1, <3>1, <3>2 DEF One
    <2>2. CASE i \notin Gone0
        <3>1. rc' = rc
            BY <1>1, <1>2, <2>2 DEF Unreference
        <3>. QED
            BY <1>4, <2>2, <3>1 DEF One
    <2>. QED
        BY <2>1, <2>2
<1>7. \A f \in Bos : rc'[f] = IF f \in Fresh0(NumCrtc) THEN 1 ELSE rc0[f] - Lost0(i', f)
    <2>. SUFFICES ASSUME NEW f \in Bos
                  PROVE  rc'[f] = IF f \in Fresh0(NumCrtc) THEN 1 ELSE rc0[f] - Lost0(i', f)
        OBVIOUS
    <2>. DEFINE e == One(i \in Gone0 /\ tab0[i].bo = f)
    <2>1. rc'[f] = rc[f] - e /\ e \in Nat /\ rc0[f] \in Nat
        BY <1>6, Refs0Type DEF One
    <2>2. Lost0(i', f) = Lost0(i, f) + e /\ Lost0(i, f) \in Nat
        BY <1>1, LostNext
    <2>3. f \in Fresh0(NumCrtc) => e = 0
        BY <1>1, <1>5, FreeUnlisted DEF One
    <2>. HIDE DEF e
    <2>. QED
        BY <1>5, <2>1, <2>2, <2>3
<1>8. resized' <=> \E s \in Gone0 : s < i'
    <2>1. resized <=> \E s \in Gone0 : s < i
        BY <1>1 DEF Dropping
    <2>2. \A s \in Gone0 : s < i + 1 <=> s < i \/ s = i
        BY <1>1 DEF Gone0, Discarded, Slots
    <2>. QED
        BY <1>1, <1>2, <2>1, <2>2
<1>9. Dropping'
    BY <1>1, <1>5, <1>7, <1>8, DroppingNext DEF Dropping, OldWithout
<1>. QED
    BY <1>1, <1>9 DEF Looping, LoopComputesUpdate

LEMMA DropDoneLoops == CInv /\ DropDone => Looping' /\ Dropping' /\ LoopComputesUpdate'
<1>. SUFFICES ASSUME CInv, DropDone PROVE Looping' /\ Dropping' /\ LoopComputesUpdate'
    OBVIOUS
<1>1. /\ pc = "drop" /\ pc' = "done" /\ i > MaxScanouts /\ UNCHANGED input
      /\ scanouts' = scanouts /\ rc' = rc /\ resized' = resized
      /\ TypeOK /\ Dropping
    BY DEF DropDone, CInv, IInv
<1>2. {s \in Gone0 : s < i} = Gone0
    <2>1. \A s \in Gone0 : s < i
        BY <1>1, SizeAssumption DEF Gone0, Discarded, Slots, TypeOK
    <2>. QED
        BY <2>1
<1>. DEFINE counts == [b \in Bos |-> IF b \in Fresh0(NumCrtc) THEN 1 ELSE rc0[b] - Lost0(i, b)]
<1>3. rc = counts
    BY <1>1 DEF Dropping, TypeOK
<1>4. resized = (Gone0 # {}) /\ scanouts = Table0(NumCrtc)
    <2>1. resized \in BOOLEAN /\ (resized <=> Gone0 # {}) /\ (Gone0 # {}) \in BOOLEAN
        BY <1>1, <1>2 DEF Dropping, TypeOK
    <2>. QED
        BY <1>1, <2>1 DEF Dropping
<1>5. UpdateDone(tab0, act, rect, Free0, rc0)
          = [ret |-> TRUE, resized |-> Gone0 # {}, tab |-> Table0(NumCrtc), rc |-> counts]
    BY <1>2 DEF UpdateDone, Table0, Fresh0, Gone0, Lost0
<1>. HIDE DEF counts
<1>6. Result' = UpdateDone(tab0, act, rect, Free0, rc0)
    BY <1>1, <1>3, <1>4, <1>5 DEF Result
<1>7. Result' \in UpdateScanouts(tab0, act, rect, Free0, rc0, CanFail)
    BY <1>1, <1>6, Endings DEF Dropping
<1>8. Result' \in UpdateScanouts(tab0, act, rect, Free0, rc0, CanFail)'
    BY <1>1, <1>7, InputKept DEF input
<1>. QED
    BY <1>1, <1>8 DEF Looping, Dropping, LoopComputesUpdate, Free0

LEMMA InitCInv == Init => CInv
<1>. SUFFICES ASSUME Init PROVE CInv
    OBVIOUS
<1>1. /\ IInv /\ TypeOK /\ old = tab0 /\ scanouts = [s \in Slots |-> EmptySlot] /\ rc = rc0
      /\ resized = FALSE /\ i = 1 /\ pc = "crtcs"
    BY InitIInv DEF Init, IInv
<1>2. Done = {} /\ \A c \in Starved0 : ~(c < i)
    BY <1>1, SetsFinite, ActType DEF Done, Crtcs
<1>3. Cardinality(Done) = 0
    BY <1>2, FS_EmptySet
<1>4. scanouts = Table0(0)
    <2>1. \A s \in Slots : Table0(0)[s] = EmptySlot
        BY <1>1, TableAt DEF Slots
    <2>2. Table0(0) = [s \in Slots |-> Table0(0)[s]]
        BY DEF Table0, UpdatedTable
    <2>. DEFINE t == Table0(0)
    <2>3. t = [s \in Slots |-> t[s]] /\ \A s \in Slots : t[s] = EmptySlot
        BY <2>1, <2>2
    <2>. HIDE DEF t
    <2>4. t = scanouts
        BY <1>1, <2>3
    <2>. QED
        BY <2>4 DEF t
<1>5. \A b : b \notin Fresh0(0)
    <2>1. \A c \in Starved0 : c < 1 => Rank(Starved0, c) <= Cardinality(Free0)
        BY <1>1, <1>2
    <2>. DEFINE x == 1
                D == {c \in act : c < x}
    <2>2. x \in Int /\ \A c \in Starved0 : c < x => Rank(Starved0, c) <= Cardinality(Free0)
        BY <2>1
    <2>3. Cardinality(D) = 0
        BY <1>1, <1>3 DEF Done
    <2>. HIDE DEF x
    <2>4. \A b : b \in Fresh0(Cardinality(D)) <=> \E c \in Starved0 : c < x /\ b = NewBo0(c)
        BY <1>1, <2>2, FreshBelow
    <2>. QED
        BY <1>1, <1>2, <2>3, <2>4 DEF x
<1>6. OldWithout(Done)
    BY <1>1, <1>2 DEF OldWithout
<1>7. Looping
    BY <1>1, <1>2, <1>3, <1>4, <1>5, <1>6, SizeAssumption DEF Looping
<1>. QED
    BY <1>1, <1>7 DEF CInv, Dropping, LoopComputesUpdate

LEMMA StutterLoops == CInv /\ UNCHANGED vars => Looping' /\ Dropping' /\ LoopComputesUpdate'
<1>. SUFFICES ASSUME CInv, UNCHANGED vars PROVE Looping' /\ Dropping' /\ LoopComputesUpdate'
    OBVIOUS
<1>1. /\ UNCHANGED input /\ act' = act /\ pc' = pc /\ i' = i /\ scanouts' = scanouts
      /\ old' = old /\ rc' = rc /\ resized' = resized
    BY InputKept DEF vars, input
<1>2. Done' = Done
    BY <1>1 DEF Done
<1>3. Looping'
    BY <1>1, <1>2, LoopingNext DEF CInv, Looping, OldWithout
<1>4. Dropping'
    BY <1>1, DroppingNext DEF CInv, Dropping, OldWithout
<1>5. LoopComputesUpdate'
    <2>1. /\ Result' = Result
          /\ UpdateScanouts(tab0, act, rect, Free0, rc0, CanFail)'
                 = UpdateScanouts(tab0, act, rect, Free0, rc0, CanFail)
        BY <1>1, InputKept DEF Result, input
    <2>. QED
        BY <1>1, <2>1 DEF CInv, LoopComputesUpdate, Free0
<1>. QED
    BY <1>3, <1>4, <1>5

LEMMA NextCInv == CInv /\ [Next]_vars => CInv'
<1>. SUFFICES ASSUME CInv, [Next]_vars PROVE CInv'
    OBVIOUS
<1>1. IInv'
    BY NextIInv DEF CInv
<1>2. CASE SkipCrtc
    BY <1>1, <1>2, SkipCrtcLoops DEF CInv
<1>3. CASE RecycleBo
    BY <1>1, <1>3, RecycleBoLoops DEF CInv
<1>4. CASE AllocateBo
    BY <1>1, <1>4, AllocateBoLoops DEF CInv
<1>5. CASE AllocationFails
    BY <1>1, <1>5, AllocationFailsLoops DEF CInv
<1>6. CASE CrtcsDone
    BY <1>1, <1>6, CrtcsDoneLoops DEF CInv
<1>7. CASE DropOld
    BY <1>1, <1>7, DropOldLoops DEF CInv
<1>8. CASE DropDone
    BY <1>1, <1>8, DropDoneLoops DEF CInv
<1>9. CASE UNCHANGED vars
    BY <1>1, <1>9, StutterLoops DEF CInv
<1>. QED
    BY <1>2, <1>3, <1>4, <1>5, <1>6, <1>7, <1>8, <1>9 DEF Next

LEMMA CInvHolds == Spec => []CInv
<1>1. Spec => Init /\ [][Next]_vars
    BY PTL DEF Spec
<1>. QED
    BY <1>1, InitCInv, NextCInv, PTL


-----------------------------------------------------------------------------
(* Theorems.                                                               *)

\* The tables stay tables and the loop counter in its bounds.
THEOREM TypesThm == Spec => []TypeOK
<1>1. IInv => TypeOK
    BY DEF IInv
<1>. QED
    BY <1>1, IInvHolds, PTL

\* Each bo has as many references as slots of the old and the new table list it,
\* in the middle of either loop and however many CRTCs share a rectangle.
THEOREM CountsThm == Spec => []CountsHolders
<1>1. IInv => CountsHolders
    BY DEF IInv
<1>. QED
    BY <1>1, IInvHolds, PTL

\* A lookup by rectangle finds the same bo and flag after a successful update as
\* before, or a new bo whose contents are declared invalid.
THEOREM LookupThm == Spec => []LookupKept
<1>1. IInv => LookupKept
    <2>. SUFFICES ASSUME IInv, pc = "done", NEW c \in act
                  PROVE  LET was == ScanoutFromSize(tab0, rect[c])
                             is  == ScanoutFromSize(scanouts, rect[c])
                         IN  /\ is # 0
                             /\ was # 0 => /\ scanouts[is].bo = tab0[was].bo
                                           /\ scanouts[is].valid = tab0[was].valid
                             /\ was = 0 => ~scanouts[is].valid
        BY DEF LookupKept
    <2>1. \E s \in Slots : scanouts[s].rect = rect[c]
        BY DEF IInv, Served, Through
    <2>2. ScanoutFromSize(scanouts, rect[c]) # 0
        BY <2>1, LookupFirst
    <2>3. rect[c] \in RectChoices
        BY ActType DEF IInv
    <2>4. Kept
        BY DEF IInv
    <2>. QED
        BY <2>2, <2>3, <2>4 DEF Kept
<1>. QED
    BY <1>1, IInvHolds, PTL

\* However the loops end, with whatever recycled, allocated or refused, they have
\* computed UpdateScanouts: the function that the other modules call in one step.
THEOREM ComputesThm == Spec => []LoopComputesUpdate
<1>1. CInv => LoopComputesUpdate
    BY DEF CInv
<1>. QED
    BY <1>1, CInvHolds, PTL
=============================================================================
