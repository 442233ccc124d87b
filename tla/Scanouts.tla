------------------------------ MODULE Scanouts ------------------------------
(***************************************************************************)
(* The table of per-CRTC scanout buffers (OMAPRec.scanouts) and the        *)
(* reference counts of buffer objects, as functions that the state         *)
(* machines of the driver apply: drmmode_scanout_from_size, _add, _set,    *)
(* drmmode_update_scanouts and omap_bo_reference / _unreference.           *)
(*                                                                         *)
(* A screen is one row of columns: a rectangle is [x, w], so "same         *)
(* position and size" keeps its meaning and y and height are dropped.      *)
(***************************************************************************)
EXTENDS Integers, FiniteSets

CONSTANTS NumCrtc,      \* xf86_config->num_crtc
          MaxScanouts,  \* MAX_SCANOUTS
          NumBo         \* bound: buffer objects that can exist at once

ASSUME SizeAssumption ==
    /\ NumCrtc \in Nat \ {0}
    /\ MaxScanouts \in Nat \ {0}
    /\ NumBo \in Nat \ {0}

Crtcs == 1..NumCrtc
Slots == 1..MaxScanouts
Bos   == 1..NumBo
NoBo  == 0                       \* a NULL struct omap_bo *

Rects   == [x : Nat, w : Nat]
NoRect  == [x |-> 0, w |-> 0]
Cols(r) == r.x .. (r.x + r.w - 1)

SlotType  == [bo : Bos \cup {NoBo}, rect : Rects, valid : BOOLEAN]
EmptySlot == [bo |-> NoBo, rect |-> NoRect, valid |-> FALSE]
TableType == [Slots -> SlotType]

\* The member of S that has k - 1 smaller members, as a set of at most one.
Nth(S, k) == {s \in S : Cardinality({t \in S : t <= s}) = k}

The(S) == CHOOSE s \in S : TRUE

-----------------------------------------------------------------------------
(* Reference counts: rc \in [Bos -> Int].                                  *)

Reference(rc, b)   == [rc EXCEPT ![b] = @ + 1]
Unreference(rc, b) == IF b = NoBo THEN rc ELSE [rc EXCEPT ![b] = @ - 1]

-----------------------------------------------------------------------------
(* Lookup and replacement.                                                 *)

\* The lowest slot with exactly this rectangle; 0 is the NULL of the code.
\* An empty slot has the rectangle NoRect and can match it.
ScanoutFromSize(tab, r) ==
    LET same == {s \in Slots : tab[s].rect = r}
    IN  IF same = {} THEN 0 ELSE The(Nth(same, 1))

\* Mutants: nothing is set; the slot is taken for a new one; no reference is
\* taken; the old reference is kept.
ScanoutSetMissed(tab, r, b) == tab
ScanoutSetInvalid(tab, r, b) ==
    [s \in Slots |-> IF s = ScanoutFromSize(tab, r) THEN [tab[s] EXCEPT !.bo = b, !.valid = FALSE]
                                                   ELSE tab[s]]
ScanoutSetUnrefOnly(rc, tab, r, b) ==
    LET s == ScanoutFromSize(tab, r) IN IF s = 0 THEN rc ELSE Unreference(rc, tab[s].bo)
ScanoutSetRefOnly(rc, tab, r, b) ==
    IF ScanoutFromSize(tab, r) = 0 THEN rc ELSE Reference(rc, b)

\* drmmode_scanout_set: the slot at position x with the size of bo b scans
\* out b from now on; its valid flag is left as it is.
ScanoutSet(tab, r, b) ==
    LET s == ScanoutFromSize(tab, r)
    IN  IF s = 0 THEN tab ELSE [tab EXCEPT ![s].bo = b]

ScanoutSetRefs(rc, tab, r, b) ==
    LET s == ScanoutFromSize(tab, r)
    IN  IF s = 0 THEN rc ELSE Unreference(Reference(rc, b), tab[s].bo)

-----------------------------------------------------------------------------
(* drmmode_update_scanouts, as a function of the old table, the set act of *)
(* active CRTCs (enabled, with a mode), their rectangles, the free bos and *)
(* the number n of CRTCs the loop got through.                             *)

\* The position of CRTC c in the loop.
Rank(act, c) == Cardinality({d \in act : d <= c})

\* A CRTC takes over the old slot with its rectangle; that slot is zeroed,
\* so of several CRTCs with one rectangle the k-th takes the k-th slot.
Taken(tab, act, rect, c) ==
    Nth({s \in Slots : tab[s].rect = rect[c]},
        Cardinality({d \in act : d <= c /\ rect[d] = rect[c]}))

\* The CRTCs that need a new bo, in the order in which they get one.
Starved(tab, act, rect) == {c \in act : Taken(tab, act, rect, c) = {}}
NewBo(tab, act, rect, free, c) ==
    The(Nth(free, Rank(Starved(tab, act, rect), c)))

NewSlot(tab, act, rect, free, c) ==
    LET old == Taken(tab, act, rect, c)
    IN  IF old = {}
        THEN [bo |-> NewBo(tab, act, rect, free, c), rect |-> rect[c], valid |-> FALSE]
        ELSE [bo |-> tab[The(old)].bo, rect |-> rect[c], valid |-> tab[The(old)].valid]

\* The new table: the first n active CRTCs, packed into the first slots.
UpdatedTable(tab, act, rect, free, n) ==
    [s \in Slots |->
        LET here == {c \in Nth(act, s) : s <= n}
        IN  IF here = {} THEN EmptySlot
            ELSE NewSlot(tab, act, rect, free, The(here))]

\* Mutants: invalid slots are skipped; a slot taken over is not zeroed.
DiscardedValid(tab, act, rect) ==
    {s \in Slots : /\ tab[s].bo # NoBo /\ tab[s].valid
                   /\ \A c \in act : s \notin Taken(tab, act, rect, c)}
DiscardedAll(tab, act, rect) == {s \in Slots : tab[s].bo # NoBo}

\* The old slots whose bo no CRTC took over.
Discarded(tab, act, rect) ==
    {s \in Slots : /\ tab[s].bo # NoBo
                   /\ \A c \in act : s \notin Taken(tab, act, rect, c)}

FreshBos(tab, act, rect, free, n) ==
    {NewBo(tab, act, rect, free, c) :
        c \in {d \in Starved(tab, act, rect) : Rank(act, d) <= n}}

\* Slots may share a bo, so the references dropped are counted per slot.
Lost(tab, slots, b) == Cardinality({s \in slots : tab[s].bo = b})

\* The four ways it ends.  When it stops early the table keeps the CRTCs done
\* so far and the bos of the other old slots stay referenced by nobody.
UpdateDone(tab, act, rect, free, rc) ==
    LET gone  == Discarded(tab, act, rect)
        fresh == FreshBos(tab, act, rect, free, NumCrtc)
    IN  [ret |-> TRUE, resized |-> gone # {},
         tab |-> UpdatedTable(tab, act, rect, free, NumCrtc),
         rc  |-> [b \in Bos |-> IF b \in fresh THEN 1 ELSE rc[b] - Lost(tab, gone, b)]]

UpdateStopped(tab, act, rect, free, rc, n, dropped) ==
    LET fresh == FreshBos(tab, act, rect, free, n)
    IN  [ret |-> FALSE, resized |-> FALSE,
         tab |-> UpdatedTable(tab, act, rect, free, n),
         rc  |-> [b \in Bos |-> IF b \in fresh THEN 1 ELSE rc[b] - Lost(tab, dropped, b)]]

\* canFail: the allocation of a new bo may fail.  A free set too small for the
\* CRTCs that need a bo is the bound NumBo, not a behaviour of the code.
UpdateScanouts(tab, act, rect, free, rc, canFail) ==
    LET starved == Starved(tab, act, rect)
        full    == {c \in act : Rank(act, c) = MaxScanouts + 1}
        refused == {c \in starved : canFail /\ Rank(act, c) <= MaxScanouts + 1}
    IN  {UpdateStopped(tab, act, rect, free, rc, Rank(act, c) - 1, {}) : c \in refused}
        \cup (IF full # {}
              THEN {UpdateStopped(tab, act, rect, free, rc, MaxScanouts,
                                  Taken(tab, act, rect, The(full)))}
              ELSE {UpdateDone(tab, act, rect, free, rc)})
=============================================================================
