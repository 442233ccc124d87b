----------------------------- MODULE UpdateLoop -----------------------------
(***************************************************************************)
(* drmmode_update_scanouts one loop iteration at a time: the memcpy of the *)
(* old table, the loop over the CRTCs that recycles or allocates, and the  *)
(* loop that drops what is left.  Scanouts!UpdateScanouts is the function  *)
(* it is meant to compute; the other modules use that function.            *)
(***************************************************************************)
EXTENDS Scanouts

CONSTANTS RectChoices,   \* the rectangles CRTCs and slots of this model have
          CanFail        \* whether omap_bo_new_with_depth may return NULL

ASSUME LoopAssumption ==
    /\ RectChoices \subseteq {r \in Rects : r.w > 0}
    /\ CanFail \in BOOLEAN

VARIABLES tab0,      \* pOMAP->scanouts on entry
          rect,      \* crtc->x, crtc->mode of every CRTC
          enabled,   \* crtc->enabled
          old,       \* old_scanouts
          scanouts,  \* pOMAP->scanouts, being rebuilt
          rc,        \* bo->refcnt
          resized,   \* pOMAP->has_resized was set by this call
          i,         \* the loop counter of either loop
          pc         \* "crtcs" -> "drop" -> "done", or "failed"

vars  == <<tab0, rect, enabled, old, scanouts, rc, resized, i, pc>>
input == <<tab0, rect, enabled>>

act == {c \in Crtcs : enabled[c]}
rc0 == [b \in Bos |-> Cardinality({s \in Slots : tab0[s].bo = b})]

\* Any packed table, as an earlier call leaves it, with every bo in one slot.
Init == /\ \E n \in 0..MaxScanouts :
             /\ n <= NumBo
             /\ \E r \in [1..n -> RectChoices], v \in [1..n -> BOOLEAN] :
                  tab0 = [s \in Slots |-> IF s <= n
                            THEN [bo |-> s, rect |-> r[s], valid |-> v[s]]
                            ELSE EmptySlot]
        /\ rect \in [Crtcs -> RectChoices]
        /\ enabled \in [Crtcs -> BOOLEAN]
        /\ old = tab0
        /\ scanouts = [s \in Slots |-> EmptySlot]
        /\ rc = rc0
        /\ resized = FALSE
        /\ i = 1
        /\ pc = "crtcs"
-----------------------------------------------------------------------------
FreeNow == {b \in Bos : rc[b] = 0}

\* drmmode_scanout_add: the first slot without a bo; 0 when the table is full.
AddAt == LET room == {s \in Slots : scanouts[s].bo = NoBo}
         IN  IF room = {} THEN 0 ELSE The(Nth(room, 1))

\* Mutants: the flag is not copied; a bo that finds no slot is kept; the extra
\* reference is kept.
AddScanoutInvalid(b, valid, counts) ==
    IF AddAt = 0
    THEN pc' = "failed" /\ rc' = Unreference(counts, b) /\ UNCHANGED <<scanouts, i>>
    ELSE /\ scanouts' = [scanouts EXCEPT ![AddAt] = [bo |-> b, rect |-> rect[i], valid |-> FALSE]]
         /\ rc' = counts /\ i' = i + 1 /\ UNCHANGED pc
AddScanoutKept(b, valid, counts) ==
    IF AddAt = 0
    THEN pc' = "failed" /\ rc' = counts /\ UNCHANGED <<scanouts, i>>
    ELSE /\ scanouts' = [scanouts EXCEPT ![AddAt] = [bo |-> b, rect |-> rect[i], valid |-> valid]]
         /\ rc' = counts /\ i' = i + 1 /\ UNCHANGED pc
AddScanoutLeaky(b, valid, counts) ==
    IF AddAt = 0
    THEN pc' = "failed" /\ rc' = Unreference(counts, b) /\ UNCHANGED <<scanouts, i>>
    ELSE /\ scanouts' = [scanouts EXCEPT ![AddAt] = [bo |-> b, rect |-> rect[i], valid |-> valid]]
         /\ rc' = Reference(counts, b) /\ i' = i + 1 /\ UNCHANGED pc

\* The tail of the iteration: add (which takes a reference), copy the valid
\* flag, drop the reference that came with the bo.
AddScanout(b, valid, counts) ==
    IF AddAt = 0
    THEN /\ pc' = "failed"
         /\ rc' = Unreference(counts, b)
         /\ UNCHANGED <<scanouts, i>>
    ELSE /\ scanouts' = [scanouts EXCEPT ![AddAt] =
                            [bo |-> b, rect |-> rect[i], valid |-> valid]]
         /\ rc' = Unreference(Reference(counts, b), b)
         /\ i' = i + 1
         /\ UNCHANGED pc

\* Mutant: the loop does not advance past a CRTC that is off.
SkipCrtcStuck == /\ pc = "crtcs" /\ i \in Crtcs /\ ~enabled[i]
                 /\ UNCHANGED vars

SkipCrtc == /\ pc = "crtcs" /\ i \in Crtcs
            /\ ~enabled[i]
            /\ i' = i + 1
            /\ UNCHANGED <<input, old, scanouts, rc, resized, pc>>

RecycleBo == /\ pc = "crtcs" /\ i \in act
             /\ LET s == ScanoutFromSize(old, rect[i])
                IN  /\ s # 0
                    /\ old' = [old EXCEPT ![s] = EmptySlot]
                    /\ AddScanout(old[s].bo, old[s].valid, rc)
             /\ UNCHANGED <<input, resized>>

AllocateBo == /\ pc = "crtcs" /\ i \in act
              /\ ScanoutFromSize(old, rect[i]) = 0
              /\ FreeNow # {}
              /\ LET b == The(Nth(FreeNow, 1))
                 IN  AddScanout(b, FALSE, [rc EXCEPT ![b] = 1])
              /\ UNCHANGED <<input, old, resized>>

AllocationFails == /\ pc = "crtcs" /\ i \in act
                   /\ ScanoutFromSize(old, rect[i]) = 0
                   /\ CanFail
                   /\ pc' = "failed"
                   /\ UNCHANGED <<input, old, scanouts, rc, resized, i>>

\* Mutant: the second loop starts before the first slot.
CrtcsDoneEarly == /\ pc = "crtcs" /\ i > NumCrtc
                  /\ pc' = "drop" /\ i' = 0
                  /\ UNCHANGED <<input, old, scanouts, rc, resized>>

CrtcsDone == /\ pc = "crtcs" /\ i > NumCrtc
             /\ pc' = "drop" /\ i' = 1
             /\ UNCHANGED <<input, old, scanouts, rc, resized>>

DropOld == /\ pc = "drop" /\ i \in Slots
           /\ rc' = Unreference(rc, old[i].bo)
           /\ resized' = (resized \/ old[i].bo # NoBo)
           /\ i' = i + 1
           /\ UNCHANGED <<input, old, scanouts, pc>>

DropDone == /\ pc = "drop" /\ i > MaxScanouts
            /\ pc' = "done"
            /\ UNCHANGED <<input, old, scanouts, rc, resized, i>>

Next == \/ SkipCrtc \/ RecycleBo \/ AllocateBo \/ AllocationFails
        \/ CrtcsDone \/ DropOld \/ DropDone

Spec == Init /\ [][Next]_vars /\ WF_vars(Next)
-----------------------------------------------------------------------------
TypeOK ==
    /\ tab0 \in TableType /\ old \in TableType /\ scanouts \in TableType
    /\ rect \in [Crtcs -> RectChoices] /\ enabled \in [Crtcs -> BOOLEAN]
    /\ rc \in [Bos -> Int] /\ resized \in BOOLEAN
    /\ i \in 1..(NumCrtc + MaxScanouts + 1)
    /\ pc \in {"crtcs", "drop", "done", "failed"}

Result == [ret |-> pc = "done", resized |-> resized, tab |-> scanouts, rc |-> rc]

\* However the loops end, with whatever recycled, allocated or refused, the
\* table, the reference counts and has_resized are those of the function.
LoopComputesUpdate ==
    pc \in {"done", "failed"} =>
        Result \in UpdateScanouts(tab0, act, rect, {b \in Bos : rc0[b] = 0},
                                  rc0, CanFail)

\* A bo is never freed while the old table that still lists it or the new one
\* that took it over needs it, and never freed by one of several CRTCs that
\* share it; nothing is leaked by a call that succeeds.
CountsHolders ==
    \A b \in Bos :
        LET inNew == Cardinality({s \in Slots : scanouts[s].bo = b})
            inOld == Cardinality({s \in Slots :
                        old[s].bo = b /\ (pc \in {"crtcs", "failed"} \/ (pc = "drop" /\ s >= i))})
        IN  pc # "failed" => rc[b] = inNew + inOld

\* A reconfiguration does not make a CRTC change its buffer: what a lookup by
\* rectangle found before a successful call it finds after it, same bo and same
\* valid flag, also when several CRTCs share the rectangle; and a CRTC with a
\* new rectangle finds a bo whose contents are declared invalid.
LookupKept ==
    pc = "done" =>
        \A c \in act :
            LET was == ScanoutFromSize(tab0, rect[c])
                is  == ScanoutFromSize(scanouts, rect[c])
            IN  /\ is # 0
                /\ was # 0 => /\ scanouts[is].bo = tab0[was].bo
                              /\ scanouts[is].valid = tab0[was].valid
                /\ was = 0 => ~scanouts[is].valid

\* The loops end.
Terminates == <>(pc \in {"done", "failed"})
=============================================================================
