------------------------ MODULE DisplayScreen_proofs ------------------------
(***************************************************************************)
(* Which bo is where: the screen pixmap in flip mode, the slots, the back  *)
(* buffers and what the CRTCs show.  The proofs go on from the references  *)
(* of Display_proofs and assume that the ways back to blit mode work       *)
(* (BlitWorks), that swaps take turns and no resize comes in flip mode     *)
(* (Separate) and, from the modes of the CRTCs on, that no two CRTCs show  *)
(* the same part of the screen (Uncloned).  That no CRTC is dark needs     *)
(* that nothing takes its bo away (Undisturbed).  At the end, that every   *)
(* CRTC shows the latest image and that every read sees it, needs that no  *)
(* new server generation begins.                                           *)
(***************************************************************************)
EXTENDS Display_proofs

\* Two CRTCs get two bos, if no two slots had one.
LEMMA NewSlotsApart ==
    ASSUME NEW tab, NEW act \in SUBSET Crtcs, NEW rect, NEW free \in SUBSET Bos,
           Cardinality(Starved(tab, act, rect)) <= Cardinality(free),
           \A s \in Slots : tab[s].bo \notin free,
           \A s, t \in Slots : tab[s].bo # NoBo /\ tab[t].bo = tab[s].bo => s = t,
           NEW c \in act, NEW d \in act,
           NewSlot(tab, act, rect, free, c).bo # NoBo,
           NewSlot(tab, act, rect, free, d).bo = NewSlot(tab, act, rect, free, c).bo
    PROVE  c = d
<1>. DEFINE starved == Starved(tab, act, rect)
            taken(e) == Taken(tab, act, rect, e)
            bo(e) == NewSlot(tab, act, rect, free, e).bo
<1>1. \A e \in act : e \in starved <=> taken(e) = {}
    BY NewSlotBo
<1>2. ASSUME NEW e \in starved
      PROVE  bo(e) = NewBo(tab, act, rect, free, e) /\ bo(e) \in free
    <2>1. e \in act /\ Taken(tab, act, rect, e) = {}
        BY DEF Starved
    <2>. QED
        BY <2>1, NewSlotBo, NewBoType
<1>3. ASSUME NEW e \in act, NEW s \in taken(e)
      PROVE  s \in Slots /\ bo(e) = tab[s].bo /\ bo(e) \notin free
    <2>1. s \in Slots
        BY TakenOne
    <2>2. bo(e) = tab[s].bo
        BY NewSlotBo
    <2>. QED
        BY <2>1, <2>2
<1>4. bo(c) # NoBo /\ bo(d) = bo(c)
    OBVIOUS
<1>5. CASE c \in starved /\ d \in starved
    BY <1>2, <1>4, <1>5, NewBoOnce
<1>6. CASE c \notin starved /\ d \notin starved
    <2>1. PICK s \in taken(c), t \in taken(d) : TRUE
        BY <1>1, <1>6
    <2>2. s = t
        BY <1>3, <1>4, <2>1
    <2>. QED
        BY <2>1, <2>2, TakenOnce
<1>7. CASE (c \in starved) # (d \in starved)
    <2>1. PICK e \in act, f \in act : e \in starved /\ f \notin starved /\ bo(e) = bo(f)
        BY <1>4, <1>7
    <2>. HIDE DEF starved, taken, bo
    <2>2. PICK s \in taken(f) : TRUE
        BY <1>1, <2>1
    <2>. QED
        BY <1>2, <1>3, <2>1, <2>2
<1>. QED
    BY <1>5, <1>6, <1>7

LEMMA TableApart ==
    ASSUME NEW tab, NEW act \in SUBSET Crtcs, NEW rect, NEW free \in SUBSET Bos,
           Cardinality(Starved(tab, act, rect)) <= Cardinality(free),
           \A s \in Slots : tab[s].bo \notin free,
           \A s, t \in Slots : tab[s].bo # NoBo /\ tab[t].bo = tab[s].bo => s = t,
           NEW n, NEW new, new = UpdatedTable(tab, act, rect, free, n),
           NEW s \in Slots, NEW t \in Slots, new[s].bo # NoBo, new[t].bo = new[s].bo
    PROVE  s = t
<1>. DEFINE slot(c) == NewSlot(tab, act, rect, free, c)
<1>1. ASSUME NEW r \in Slots, new[r].bo # NoBo
      PROVE  \E c \in act : Rank(act, c) = r /\ new[r] = slot(c)
    <2>1. new[r] # EmptySlot
        BY <1>1 DEF EmptySlot
    <2>. QED
        BY <2>1, TableSlot
<1>2. PICK c \in act, d \in act : /\ Rank(act, c) = s /\ new[s] = slot(c)
                                  /\ Rank(act, d) = t /\ new[t] = slot(d)
    BY <1>1
<1>3. slot(c).bo # NoBo /\ slot(d).bo = slot(c).bo
    BY <1>2
<1>4. c = d
    BY <1>3, NewSlotsApart
<1>. QED
    BY <1>2, <1>4

-----------------------------------------------------------------------------
(* Which bo is where.                                                      *)

\* No bo is that of two slots, nor that of a slot and the root bo.
SlotsApart ==
    \A s, t \in Slots : scanouts[s].bo # NoBo =>
        scanouts[s].bo # scanout /\ (scanouts[t].bo = scanouts[s].bo => s = t)

\* The bo of a back pixmap is that of nothing else.
BacksApart ==
    \A p \in Pixmaps : pixBo[p] # NoBo =>
        /\ pixBo[p] # scanout /\ pixBo[p] # pixBo[Root]
        /\ \A s \in Slots : scanouts[s].bo # pixBo[p]
        /\ \A q \in Pixmaps : pixBo[q] = pixBo[p] => q = p

Apart == SlotsApart /\ BacksApart

\* The screen pixmap gets the bo of a slot or the root bo, other pixmaps lose
\* theirs at most.
LEMMA ApartKept ==
    ASSUME Apart, scanout' = scanout, \A s \in Slots : scanouts'[s].bo = scanouts[s].bo,
           \A p \in Pixmaps : pixBo'[p] = pixBo[p] \/ pixBo'[p] = NoBo,
           \/ pixBo'[Root] = pixBo[Root] \/ pixBo'[Root] = scanout
           \/ \E s \in Slots : pixBo'[Root] = scanouts[s].bo
    PROVE  Apart'
<1>1. SlotsApart'
    BY DEF Apart, SlotsApart
<1>2. BacksApart'
    BY DEF Apart, BacksApart
<1>. QED
    BY <1>1, <1>2 DEF Apart

\* What is free is nowhere.
LEMMA FreeIsNowhere ==
    ASSUME TypeInv, Defined, NEW b \in FreeBos
    PROVE  /\ b \in Bos /\ b # NoBo /\ b # scanout /\ \A s \in Slots : scanouts[s].bo # b
           /\ \A p \in PixIds : pixBo[p] # b
<1>1. b \in Bos /\ ~(refcnt[b] > 0)
    BY DEF FreeBos
<1>. QED
    BY <1>1, HeldIsReferenced DEF NoBo, Bos

LEMMA DropEither ==
    ASSUME NEW w, NEW c, NEW pix \in PixType, NEW q \in PixIds
    PROVE  LET left == DropPixmaps(w, c, pix)[q] IN left = pix[q] \/ (q \in Pixmaps /\ left = NoBo)
<1>1. DOMAIN pix = PixIds
    BY DEF PixType, PixIds
<1>2. DropPixmaps(w, c, pix)[q] = IF q \in Freed(w, c, pix) THEN NoBo ELSE pix[q]
    BY <1>1 DEF DropPixmaps
<1>3. Freed(w, c, pix) \subseteq Pixmaps
    BY DEF Freed
<1>. QED
    BY <1>2, <1>3

LEMMA GetBuffersApart ==
    ASSUME TypeInv, Defined, Apart, NEW w \in Windows, GetBuffers(w)
    PROVE  Apart'
<1>0. pixBo \in PixType
    BY DEF TypeInv
<1>1. PICK p \in Nth(Pixmaps \ HeldPixmaps(win, cmd), 1), e \in Nth(FreeBos, 1) :
         LET v   == [win EXCEPT ![w] = [@ EXCEPT !.back = p, !.canflip = -1, !.stale = FALSE]]
             pix == [pixBo EXCEPT ![p] = e]
         IN  pixBo' = DropPixmaps(v, cmd, pix)
    BY DEF GetBuffers
<1>. DEFINE pix == [pixBo EXCEPT ![p] = e]
<1>2. p \in Pixmaps /\ e \in FreeBos /\ UNCHANGED <<scanout, scanouts>>
    BY <1>1 DEF Nth, GetBuffers, omapVars
<1>3. pix \in PixType /\ pix[p] = e /\ \A q \in PixIds \ {p} : pix[q] = pixBo[q]
    BY <1>0, <1>2 DEF PixType, BoOrNone, PixIds, FreeBos
<1>4. \A q \in PixIds : pixBo'[q] = pix[q] \/ (q \in Pixmaps /\ pixBo'[q] = NoBo)
    <2>1. PICK v : pixBo' = DropPixmaps(v, cmd, pix)
        BY <1>1
    <2>. HIDE DEF pix
    <2>. QED
        BY <1>3, <2>1, DropEither
<1>. HIDE DEF pix
<1>5. \A q \in Pixmaps \ {p} : pixBo'[q] = pixBo[q] \/ pixBo'[q] = NoBo
    BY <1>3, <1>4, PixIdsFinite
<1>6. (pixBo'[p] = e \/ pixBo'[p] = NoBo) /\ pixBo'[Root] = pixBo[Root]
    BY <1>2, <1>3, <1>4, PixIdsFinite
<1>7. SlotsApart'
    BY <1>2 DEF Apart, SlotsApart
<1>8. /\ e # NoBo /\ e # scanout /\ (\A s \in Slots : scanouts[s].bo # e)
      /\ \A q \in PixIds : pixBo[q] # e
    BY <1>2, FreeIsNowhere
<1>9. BacksApart'
    BY <1>2, <1>5, <1>6, <1>8, PixIdsFinite DEF Apart, BacksApart
<1>. QED
    BY <1>7, <1>9 DEF Apart

LEMMA DropApart ==
    ASSUME TypeInv, Apart, NEW v, NEW c, pixBo' = DropPixmaps(v, c, pixBo),
           UNCHANGED <<scanout, scanouts>>
    PROVE  Apart'
<1>1. pixBo \in PixType
    BY DEF TypeInv
<1>2. \A q \in PixIds : pixBo'[q] = pixBo[q] \/ (q \in Pixmaps /\ pixBo'[q] = NoBo)
    BY <1>1, DropEither
<1>. QED
    BY <1>2, PixIdsFinite, ApartKept

LEMMA DestroyApart ==
    ASSUME TypeInv, Apart, (\E w \in Windows : DestroyWindow(w)) \/ CloseScreen
    PROVE  Apart'
<1>1. \E v : pixBo' = DropPixmaps(v, cmd, pixBo)
    BY DEF DestroyWindow, CloseScreen
<1>2. UNCHANGED <<scanout, scanouts>>
    BY DEF DestroyWindow, CloseScreen, omapVars
<1>. QED
    BY <1>1, <1>2, DropApart

\* The screen pixmap changes its bo, at most, and slots their flags.
LEMMA FrontApart ==
    ASSUME TypeInv, Apart, NEW e, pixBo' = [pixBo EXCEPT ![Root] = e],
           e = scanout \/ e = pixBo[Root] \/ \E s \in Slots : e = scanouts[s].bo,
           scanout' = scanout, \A s \in Slots : scanouts'[s].bo = scanouts[s].bo
    PROVE  Apart'
<1>1. pixBo'[Root] = e /\ \A p \in Pixmaps : pixBo'[p] = pixBo[p]
    BY PixIdsFinite DEF TypeInv, PixType
<1>. QED
    BY <1>1, ApartKept

LEMMA SwapFlipBo ==
    ASSUME Shape, NEW w \in Windows, CanFlip(w)
    PROVE  LET s == ScanoutFromSize(scanouts, win[w].rect)
           IN  s \in Slots /\ scanouts[s].rect = win[w].rect /\ scanouts[s].bo \in Bos
<1>1. TypeInv /\ SlotsFilled
    BY DEF Shape, Inv
<1>2. win[w].rect \in Rects /\ win[w].rect.w > 0
    <2>1. win[w].rect \in RectChoices
        BY <1>1 DEF TypeInv, WinsType, WinType
    <2>. QED
        BY <2>1, DisplayAssumption
<1>3. ScanoutFromSize(scanouts, win[w].rect) # 0
    BY DEF CanFlip
<1>. QED
    BY <1>1, <1>2, <1>3, FoundSlot

\* What a swap that flips does to the table, the screen pixmap and the commands.
LEMMA SwapFlipFacts ==
    ASSUME Shape, NEW w \in Windows, SwapFlip(w)
    PROVE  LET s == ScanoutFromSize(scanouts, win[w].rect)
           IN  /\ s \in Slots /\ scanouts[s].bo \in Bos
               /\ pixBo' = [pixBo EXCEPT ![Root] = scanouts[s].bo]
               /\ scanout' = scanout
               /\ \A t \in Slots : /\ scanouts'[t].bo = scanouts[t].bo
                                   /\ scanouts'[t].rect = scanouts[t].rect
<1>0. TypeInv
    BY DEF Shape, Inv
<1>. DEFINE e == scanouts[ScanoutFromSize(scanouts, win[w].rect)].bo
<1>1. PICK m, p :
         /\ m \in SetFlipMode
         /\ scanouts' = IF p.ret /\ p.flipped = {} THEN ValidateBo(m.tab, e) ELSE m.tab
    BY DEF SwapFlip
<1>2. pixBo' = [pixBo EXCEPT ![Root] = e] /\ scanout' = scanout /\ CanFlip(w)
    BY DEF SwapFlip
<1>3. ScanoutFromSize(scanouts, win[w].rect) \in Slots /\ e \in Bos
    BY <1>2, SwapFlipBo
<1>. HIDE DEF e
<1>4. m.tab \in TableType
    BY <1>1, <1>0, SetFlipModeType DEF OutcomeOK
<1>5. \A t \in Slots : m.tab[t].bo = scanouts[t].bo /\ m.tab[t].rect = scanouts[t].rect
    BY <1>1, <1>0, BosKept
<1>6. \A t \in Slots : scanouts'[t].bo = scanouts[t].bo /\ scanouts'[t].rect = scanouts[t].rect
    BY <1>1, <1>4, <1>5, ValidateKeepsBos
<1>. QED
    BY <1>2, <1>3, <1>6 DEF e

\* A swap that blits, and the return of a call that waited.
LEMMA BlitFacts ==
    ASSUME TypeInv, NEW w, NEW rc, NEW m \in SetBlitMode \cup SetFlipMode, BlitToFront(w, rc, m)
    PROVE  /\ pixBo' = [pixBo EXCEPT ![Root] = scanout]
           /\ \A s \in Slots : /\ scanouts'[s].bo = scanouts[s].bo
                               /\ scanouts'[s].rect = scanouts[s].rect
<1>1. /\ pixBo' = [pixBo EXCEPT ![Root] = scanout]
      /\ scanouts' = [s \in Slots |-> [m.tab[s] EXCEPT !.valid = FALSE]]
    BY DEF BlitToFront
<1>2. m.tab \in TableType
    BY SetBlitModeType, SetFlipModeType DEF OutcomeOK
<1>3. \A s \in Slots : m.tab[s].bo = scanouts[s].bo /\ m.tab[s].rect = scanouts[s].rect
    BY BosKept
<1>. QED
    BY <1>1, <1>2, <1>3 DEF TableType, SlotType

LEMMA SwapsApart ==
    ASSUME Shape, Apart, NEW w \in Windows, Swap(w)
    PROVE  Apart'
<1>0. TypeInv
    BY DEF Shape, Inv
<1>1. CASE SwapFlip(w)
    BY <1>0, <1>1, SwapFlipFacts, FrontApart
<1>2. CASE SwapFlipFallback(w)
    <2>1. PICK m \in SetFlipMode : BlitToFront(w, refcnt, m)
        BY <1>2 DEF SwapFlipFallback
    <2>2. scanout' = scanout
        BY <1>2 DEF SwapFlipFallback
    <2>. QED
        BY <1>0, <2>1, <2>2, BlitFacts, FrontApart
<1>3. CASE SwapBlit(w)
    <2>1. UNCHANGED <<scanout, scanouts>> /\ pixBo' = [pixBo EXCEPT ![Root] = scanout]
        BY <1>3 DEF SwapBlit, omapVars
    <2>. QED
        BY <1>0, <2>1, FrontApart
<1>. QED
    BY <1>1, <1>2, <1>3 DEF Swap

LEMMA SwapBlitReturnApart ==
    ASSUME TypeInv, Apart, BlitWorks, SwapBlitReturn
    PROVE  Apart'
<1>1. PICK m, rc : m \in SetBlitMode /\ BlitToFront(call.win, rc, m)
    BY BlitSucceeds DEF SwapBlitReturn
<1>2. scanout' = scanout
    BY DEF SwapBlitReturn
<1>. QED
    BY <1>1, <1>2, BlitFacts, FrontApart

LEMMA RootWriteReturnApart ==
    ASSUME TypeInv, Apart, BlitWorks, NEW x, RootWriteReturn(x)
    PROVE  Apart'
<1>1. PICK m \in SetBlitMode : scanouts' = m.tab /\ pixBo' = [pixBo EXCEPT ![Root] = scanout]
    BY BlitSucceeds DEF RootWriteReturn
<1>2. scanout' = scanout
    BY DEF RootWriteReturn
<1>. QED
    BY <1>1, <1>2, BosKept, FrontApart

\* The bo of the slot of the flip and that of the back pixmap change places; the
\* screen pixmap had the one and gets the other.
LEMMA ExchangeApart ==
    ASSUME TypeInv, Apart, NEW p \in Pixmaps, pixBo[p] # NoBo, NEW f \in Slots,
           scanouts[f].bo = pixBo[Root], pixBo[Root] # NoBo,
           NEW pix, pix = Exchanged(pixBo, p), NEW v, NEW c, pixBo' = DropPixmaps(v, c, pix),
           scanout' = scanout,
           \A s \in Slots : scanouts'[s].bo = IF s = f THEN pixBo[p] ELSE scanouts[s].bo
    PROVE  Apart'
<1>1. pixBo \in PixType /\ p \in PixIds /\ p # Root
    BY PixIdsFinite DEF TypeInv
<1>2. pix \in PixType /\ pix[Root] = pixBo[p] /\ pix[p] = pixBo[Root]
      /\ \A q \in PixIds \ {p, Root} : pix[q] = pixBo[q]
    BY <1>1, PixBoType, PixIdsFinite DEF Exchanged, PixType, BoOrNone, PixIds
<1>3. \A q \in PixIds : pixBo'[q] = pix[q] \/ (q \in Pixmaps /\ pixBo'[q] = NoBo)
    BY <1>2, DropEither
<1>4. pixBo'[Root] = pixBo[p] /\ (pixBo'[p] = pixBo[Root] \/ pixBo'[p] = NoBo)
    BY <1>1, <1>2, <1>3, PixIdsFinite
<1>5. \A q \in Pixmaps \ {p} : pixBo'[q] = pixBo[q] \/ pixBo'[q] = NoBo
    BY <1>2, <1>3, PixIdsFinite
<1>6. SlotsApart'
    BY DEF Apart, SlotsApart, BacksApart
<1>7. BacksApart'
    BY <1>4, <1>5 DEF Apart, SlotsApart, BacksApart
<1>. QED
    BY <1>6, <1>7 DEF Apart

\* In the table that drmmode_update_scanouts makes every slot has its own bo, an
\* old one or one that was free.
LEMMA UpdateApart ==
    ASSUME TypeInv, Defined, Apart, SlotsFilled, NEW tab \in TableType,
           \A s \in Slots : tab[s].bo = scanouts[s].bo /\ tab[s].rect = scanouts[s].rect,
           NEW free \in SUBSET FreeBos,
           Cardinality(Starved(tab, Active(crtc), CrtcRects(crtc))) <= Cardinality(free),
           NEW n \in Nat,
           scanouts' = UpdatedTable(tab, Active(crtc), CrtcRects(crtc), free, n),
           NEW s \in Slots, scanouts'[s].bo # NoBo
    PROVE  /\ scanouts'[s].bo \in free \/ \E r \in Slots : scanouts'[s].bo = scanouts[r].bo
           /\ \A t \in Slots : scanouts'[t].bo = scanouts'[s].bo => s = t
<1>. DEFINE act   == Active(crtc)
            rects == CrtcRects(crtc)
<1>1. act \in SUBSET Crtcs /\ free \in SUBSET Bos
    BY ActiveType, FreeBosType
<1>2. \A c \in act : rects[c] # NoRect
    BY DisplayAssumption DEF Active, CrtcRects, TypeInv, CrtcType, NoRect
<1>3. \A t \in Slots : tab[t].bo = NoBo => tab[t].rect = NoRect
    BY DEF SlotsFilled
<1>4. \A t \in Slots : tab[t].bo \notin free
    BY FreeIsNowhere
<1>5. \A r, t \in Slots : tab[r].bo # NoBo /\ tab[t].bo = tab[r].bo => r = t
    BY DEF Apart, SlotsApart
<1>6. /\ Cardinality(Starved(tab, act, rects)) <= Cardinality(free)
      /\ scanouts' = UpdatedTable(tab, act, rects, free, n)
    OBVIOUS
<1>. HIDE DEF act, rects
<1>7. \A t \in Slots : scanouts'[t].bo = scanouts'[s].bo => s = t
    BY <1>1, <1>4, <1>5, <1>6, TableApart
<1>. DEFINE new == UpdatedTable(tab, act, rects, free, n)
<1>8. \/ new[s] = EmptySlot
      \/ new[s].bo \in free
      \/ \E t \in Slots : tab[t].bo = new[s].bo
    BY <1>1, <1>2, <1>3, <1>6, UpdatedSlot
<1>. HIDE DEF new
<1>9. new = scanouts'
    BY <1>6 DEF new
<1>. QED
    BY <1>7, <1>8, <1>9 DEF EmptySlot

-----------------------------------------------------------------------------
(* The flip under way.                                                     *)

\* The place that command k flips, and the slot there.
Place(k) == [x |-> cmd[k].x, w |-> bowidth[pixBo[cmd[k].src]]]
Target(k) == ScanoutFromSize(scanouts, Place(k))

\* A flip that will be answered finds the slot whose bo the screen pixmap has.
InFlight ==
    \A k \in Live : Answers(k) => Target(k) # 0 /\ scanouts[Target(k)].bo = pixBo[Root]

\* One flip at a time, and none while a swap changes to blit mode.
OneFlip == pending_flips <= 1 /\ (call.op = "swap" => pending_flips = 0)

\* In flip mode the screen pixmap has the bo of a slot.
FrontIsSlot ==
    flip_mode = "ENABLED" /\ call.op # "swap" => \E s \in Slots : scanouts[s].bo = pixBo[Root]

FrontInv == Shape /\ Apart /\ InFlight /\ OneFlip /\ FrontIsSlot

LEMMA LookupByRect ==
    ASSUME NEW tab, NEW tab2, NEW r, \A s \in Slots : tab[s].rect = tab2[s].rect
    PROVE  ScanoutFromSize(tab, r) = ScanoutFromSize(tab2, r)
<1>1. {s \in Slots : tab[s].rect = r} = {s \in Slots : tab2[s].rect = r}
    OBVIOUS
<1>. QED
    BY <1>1 DEF ScanoutFromSize

\* What the completion of a flip that is answered does.
LEMMA CompleteFlipFacts ==
    ASSUME Shape, InFlight, NEW k \in Live, Answers(k), CompleteFlip(k)
    PROVE  /\ cmd[k].src \in Pixmaps /\ pixBo[cmd[k].src] \in Bos
           /\ Target(k) \in Slots /\ scanouts[Target(k)].bo = pixBo[Root]
           /\ \A s \in Slots :
                /\ scanouts'[s].bo = IF s = Target(k) THEN pixBo[cmd[k].src] ELSE scanouts[s].bo
                /\ scanouts'[s].rect = scanouts[s].rect
           /\ \E c : pixBo' = DropPixmaps(win, c, Exchanged(pixBo, cmd[k].src))
           /\ pixBo'[Root] = pixBo[cmd[k].src]
<1>. DEFINE p   == cmd[k].src
            new == pixBo[p]
            tab == ValidateBo(scanouts, new)
<1>0. TypeInv /\ pixBo \in PixType /\ scanouts \in TableType
    BY DEF Shape, Inv, TypeInv
<1>1. k \in CmdIds /\ cmd[k] \in CmdType
    BY <1>0, LiveWindow
<1>2. p \in Pixmaps /\ p \in HeldPixmaps(win, cmd)
    BY <1>1 DEF CmdType, HeldPixmaps
<1>3. new \in Bos
    BY <1>0, <1>2, PixBoType DEF Shape, Backed, BoOrNone
<1>4. scanouts' = ScanoutSet(tab, Place(k), new)
    BY DEF CompleteFlip, Place
<1>5. PICK c : pixBo' = DropPixmaps(win, c, Exchanged(pixBo, p))
    BY DEF CompleteFlip, CompleteCmd
<1>6. tab \in TableType /\ \A s \in Slots : /\ tab[s].bo = scanouts[s].bo
                                            /\ tab[s].rect = scanouts[s].rect
    BY <1>0, ValidateBoType, ValidateKeepsBos
<1>7. Exchanged(pixBo, p) \in PixType /\ Exchanged(pixBo, p)[Root] = new
    BY <1>0, <1>2, PixBoType, PixIdsFinite DEF PixType, Exchanged
<1>8. pixBo'[Root] = new
    BY <1>5, <1>7, DropKeepsHeld
<1>. HIDE DEF tab, new, p
<1>9. Target(k) # 0 /\ scanouts[Target(k)].bo = pixBo[Root] /\ Target(k) \in Slots
    <2>1. Target(k) # 0 /\ scanouts[Target(k)].bo = pixBo[Root]
        BY DEF InFlight
    <2>. QED
        BY <2>1, LookupFirst DEF Target
<1>10. ScanoutFromSize(tab, Place(k)) = Target(k)
    BY <1>6, LookupByRect DEF Target
<1>11. scanouts' = [tab EXCEPT ![Target(k)].bo = new]
    BY <1>4, <1>9, <1>10 DEF ScanoutSet
<1>12. ASSUME NEW s \in Slots
       PROVE  /\ scanouts'[s].bo = IF s = Target(k) THEN new ELSE scanouts[s].bo
              /\ scanouts'[s].rect = scanouts[s].rect
    BY <1>6, <1>9, <1>11 DEF TableType, SlotType
<1>. QED
    BY <1>2, <1>3, <1>5, <1>8, <1>9, <1>12 DEF p, new

LEMMA HandledCommand ==
    ASSUME Inv, HandleEvent
    PROVE  /\ Head(events)[2] \in Live
           /\ flip_mode = "ENABLED" /\ pending_flips # 0
           /\ UNCHANGED <<flip_mode, scanout, call, crtc>>
<1>. DEFINE k == Head(events)[2]
<1>0. TypeInv
    BY DEF Inv
<1>1. /\ Head(events) = events[1] /\ 1 \in DOMAIN events /\ Head(events) \in Crtcs \X CmdIds
    BY <1>0 DEF HandleEvent, TypeInv
<1>2. k \in Live
    BY <1>1, EventsAreLive DEF Live
<1>3. Cardinality(Live) # 0 /\ Cardinality(Live) \in Nat
    BY <1>2, LiveFinite, FS_EmptySet
<1>. HIDE DEF k
<1>4. pending_flips # 0 /\ pending_flips > 0
    BY <1>3 DEF Inv, PendingFlipsCounts
<1>. QED
    BY <1>2, <1>4 DEF k, HandleEvent, Inv, FlipsOnlyInFlipMode

LEMMA HandleEventApart ==
    ASSUME Shape, Apart, InFlight, HandleEvent
    PROVE  Apart'
<1>. DEFINE k == Head(events)[2]
<1>0. TypeInv /\ Inv
    BY DEF Shape, Inv
<1>1. k \in Live /\ scanout' = scanout
    BY <1>0, HandledCommand
<1>2. \/ UNCHANGED <<scanouts, pixBo>>
      \/ Answers(k) /\ CompleteFlip(k)
      \/ DropFlip(k)
    BY DEF HandleEvent
<1>. HIDE DEF k
<1>3. CASE UNCHANGED <<scanouts, pixBo>>
    BY <1>1, <1>3, ApartKept
<1>4. CASE DropFlip(k)
    <2>1. \E c : pixBo' = DropPixmaps(win, c, pixBo)
        BY <1>4 DEF DropFlip, CompleteCmd
    <2>2. scanouts' = scanouts
        BY <1>4 DEF DropFlip
    <2>. QED
        BY <1>0, <1>1, <2>1, <2>2, DropApart
<1>5. CASE Answers(k) /\ CompleteFlip(k)
    <2>1. PICK c : pixBo' = DropPixmaps(win, c, Exchanged(pixBo, cmd[k].src))
        BY <1>1, <1>5, CompleteFlipFacts
    <2>2. /\ cmd[k].src \in Pixmaps /\ pixBo[cmd[k].src] # NoBo
          /\ Target(k) \in Slots /\ scanouts[Target(k)].bo = pixBo[Root]
          /\ \A s \in Slots :
                scanouts'[s].bo = IF s = Target(k) THEN pixBo[cmd[k].src] ELSE scanouts[s].bo
        BY <1>1, <1>5, CompleteFlipFacts DEF NoBo, Bos
    <2>3. pixBo[Root] # NoBo
        BY DEF Shape, Backed
    <2>. QED
        BY <1>0, <1>1, <2>1, <2>2, <2>3, ExchangeApart
<1>. QED
    BY <1>2, <1>3, <1>4, <1>5

\* The way back to blit mode that a mode set takes, and the new table.
LEMMA SetModeMajorFacts ==
    ASSUME Shape, BlitWorks, SetModeMajorReturn
    PROVE  /\ flip_mode' = "DISABLED"
           /\ UNCHANGED <<scanout, pixBo, win, flipVars>> /\ call' = Idle
           /\ \E tab \in TableType, n \in Nat :
                /\ \A s \in Slots : tab[s].bo = scanouts[s].bo /\ tab[s].rect = scanouts[s].rect
                /\ Cardinality(Starved(tab, Active(crtc), CrtcRects(crtc))) <= Cardinality(FreeBos)
                /\ scanouts' = UpdatedTable(tab, Active(crtc), CrtcRects(crtc), FreeBos, n)
<1>. DEFINE act   == Active(crtc)
            rects == CrtcRects(crtc)
            fails == "alloc" \in Faults
<1>0. TypeInv
    BY DEF Shape, Inv
<1>1. PICK m \in (IF flip_mode = "DISABLED" THEN SetOneCrtc(call.crtc) ELSE SetBlitMode) :
         /\ m.ret
         /\ flip_mode' = "DISABLED"
         /\ \E u \in UpdateScanouts(m.tab, act, rects, FreeBos, refcnt, fails) : scanouts' = u.tab
    <2>1. \A c : \A m \in SetOneCrtc(c) : m.ret
        BY DEF SetOneCrtc, Outcome, BlitWorks
    <2>. QED
        BY <2>1, BlitSucceeds DEF SetModeMajorReturn
<1>2. PICK u \in UpdateScanouts(m.tab, act, rects, FreeBos, refcnt, fails) : scanouts' = u.tab
    BY <1>1
<1>3. act \in SUBSET Crtcs /\ NumCrtc <= MaxScanouts
    BY <1>0, ActiveType, DisplayAssumption
<1>4. /\ \A s \in Slots : m.tab[s].bo = scanouts[s].bo /\ m.tab[s].rect = scanouts[s].rect
      /\ m.tab \in TableType
    <2>1. m \in SetOneCrtc(call.crtc) \/ m \in SetBlitMode
        OBVIOUS
    <2>. QED
        BY <1>0, <2>1, BosKept, SetBlitModeType, SetOneCrtcType DEF OutcomeOK
<1>5. Cardinality(Starved(m.tab, act, rects)) <= Cardinality(FreeBos)
    <2>1. Cardinality(Starved(scanouts, act, rects)) <= Cardinality(FreeBos)
        BY DEF SetModeMajorReturn
    <2>. HIDE DEF act, rects
    <2>2. ASSUME NEW c
          PROVE  {s \in Slots : m.tab[s].rect = rects[c]} = {s \in Slots : scanouts[s].rect = rects[c]}
        BY <1>4
    <2>3. Starved(m.tab, act, rects) = Starved(scanouts, act, rects)
        BY <2>2 DEF Starved, Taken
    <2>. QED
        BY <2>1, <2>3
<1>. HIDE DEF act, rects, fails
<1>6. PICK n \in Nat : u.tab = UpdatedTable(m.tab, act, rects, FreeBos, n)
    BY <1>3, UpdateIsTable
<1>7. UNCHANGED <<scanout, pixBo, win, flipVars>> /\ call' = Idle
    BY DEF SetModeMajorReturn
<1>. QED
    BY <1>1, <1>2, <1>4, <1>5, <1>6, <1>7 DEF act, rects

LEMMA SetModeMajorReturnApart ==
    ASSUME Shape, Defined, Apart, BlitWorks, SetModeMajorReturn
    PROVE  Apart'
<1>0. TypeInv /\ SlotsFilled
    BY DEF Shape, Inv
<1>1. PICK tab \in TableType, n \in Nat :
         /\ \A s \in Slots : tab[s].bo = scanouts[s].bo /\ tab[s].rect = scanouts[s].rect
         /\ Cardinality(Starved(tab, Active(crtc), CrtcRects(crtc))) <= Cardinality(FreeBos)
         /\ scanouts' = UpdatedTable(tab, Active(crtc), CrtcRects(crtc), FreeBos, n)
    BY SetModeMajorFacts
<1>2. scanout' = scanout /\ pixBo' = pixBo
    BY SetModeMajorFacts
<1>3. ASSUME NEW s \in Slots, scanouts'[s].bo # NoBo
      PROVE  /\ scanouts'[s].bo \in FreeBos \/ \E r \in Slots : scanouts'[s].bo = scanouts[r].bo
             /\ \A t \in Slots : scanouts'[t].bo = scanouts'[s].bo => s = t
    BY <1>0, <1>1, <1>3, UpdateApart
<1>4. \A e \in FreeBos : e # scanout /\ \A p \in PixIds : pixBo[p] # e
    BY <1>0, FreeIsNowhere
<1>5. SlotsApart'
    BY <1>2, <1>3, <1>4 DEF Apart, SlotsApart
<1>6. BacksApart'
    BY <1>2, <1>3, <1>4, PixIdsFinite DEF Apart, BacksApart
<1>. QED
    BY <1>5, <1>6 DEF Apart

\* A new root bo, of which the screen pixmap has a reference.
LEMMA NewRootApart ==
    ASSUME TypeInv, Defined, Apart, NEW new, new = scanout \/ new \in FreeBos,
           scanout' = new, pixBo' = [pixBo EXCEPT ![Root] = new],
           \A s \in Slots : scanouts'[s].bo # NoBo =>
               /\ \/ scanouts'[s].bo \in FreeBos \ {new}
                  \/ \E r \in Slots : scanouts'[s].bo = scanouts[r].bo
               /\ \A t \in Slots : scanouts'[t].bo = scanouts'[s].bo => s = t
    PROVE  Apart'
<1>1. pixBo'[Root] = new /\ \A p \in Pixmaps : pixBo'[p] = pixBo[p]
    BY PixIdsFinite DEF TypeInv, PixType
<1>2. \A e \in FreeBos : /\ e # NoBo /\ e # scanout /\ (\A s \in Slots : scanouts[s].bo # e)
                         /\ \A p \in PixIds : pixBo[p] # e
    BY FreeIsNowhere
<1>3. SlotsApart'
    BY <1>2 DEF Apart, SlotsApart
<1>4. BacksApart'
    BY <1>1, <1>2, PixIdsFinite DEF Apart, BacksApart
<1>. QED
    BY <1>3, <1>4 DEF Apart

LEMMA ResizeApart ==
    ASSUME TypeInv, Defined, Apart, NEW d \in Widths, Resize(d)
    PROVE  Apart'
<1>1. PICK new :
         /\ new = scanout \/ new \in Nth(FreeBos, 1)
         /\ scanout' = new /\ pixBo' = [pixBo EXCEPT ![Root] = new]
    BY DEF Resize
<1>2. (new = scanout \/ new \in FreeBos) /\ scanouts' = scanouts
    BY <1>1 DEF Nth, Resize
<1>3. \A s \in Slots : scanouts[s].bo # NoBo =>
          /\ \E r \in Slots : scanouts[s].bo = scanouts[r].bo
          /\ \A t \in Slots : scanouts[t].bo = scanouts[s].bo => s = t
    BY DEF Apart, SlotsApart
<1>. QED
    BY <1>1, <1>2, <1>3, NewRootApart

LEMMA ScreenInitFacts ==
    ASSUME Shape, ScreenInit
    PROVE  \E new \in FreeBos :
             /\ scanout' = new /\ pixBo' = [pixBo EXCEPT ![Root] = new]
             /\ Cardinality(Starved(scanouts, Active(crtc), CrtcRects(crtc)))
                   <= Cardinality(FreeBos \ {new})
             /\ scanouts' = UpdatedTable(scanouts, Active(crtc), CrtcRects(crtc),
                                         FreeBos \ {new}, NumCrtc)
<1>. DEFINE act   == Active(crtc)
            rects == CrtcRects(crtc)
<1>0. TypeInv
    BY DEF Shape, Inv
<1>1. PICK new \in Nth(FreeBos, 1) :
         /\ scanout' = new /\ pixBo' = [pixBo EXCEPT ![Root] = new]
         /\ scanouts' = UpdateDone(scanouts, act, rects, FreeBos \ {new}, RootReplaced(new)).tab
    BY DEF ScreenInit
<1>2. new \in FreeBos
    BY <1>1 DEF Nth
<1>3. scanouts' = UpdatedTable(scanouts, act, rects, FreeBos \ {new}, NumCrtc)
    BY <1>1 DEF UpdateDone
<1>4. Cardinality(Starved(scanouts, act, rects)) <= Cardinality(FreeBos \ {new})
    <2>1. Cardinality(FreeBos \ {new}) = Cardinality(FreeBos) - 1
        BY <1>2, FreeBosType, FS_RemoveElement
    <2>2. Cardinality(Starved(scanouts, act, rects)) < Cardinality(FreeBos)
        BY DEF ScreenInit
    <2>3. Cardinality(Starved(scanouts, act, rects)) \in Nat
        <3>1. Starved(scanouts, act, rects) \in SUBSET Crtcs
            BY <1>0, ActiveType DEF Starved
        <3>. QED
            BY <3>1, CrtcsFinite, FS_Subset, FS_CardinalityType
    <2>. QED
        BY <2>1, <2>2, <2>3, FreeBosType
<1>. QED
    BY <1>1, <1>2, <1>3, <1>4

LEMMA ScreenInitApart ==
    ASSUME Shape, Defined, Apart, ScreenInit
    PROVE  Apart'
<1>0. TypeInv /\ SlotsFilled /\ scanouts \in TableType
    BY DEF Shape, Inv, TypeInv
<1>1. PICK new \in FreeBos :
         /\ scanout' = new /\ pixBo' = [pixBo EXCEPT ![Root] = new]
         /\ Cardinality(Starved(scanouts, Active(crtc), CrtcRects(crtc)))
               <= Cardinality(FreeBos \ {new})
         /\ scanouts' = UpdatedTable(scanouts, Active(crtc), CrtcRects(crtc),
                                     FreeBos \ {new}, NumCrtc)
    BY ScreenInitFacts
<1>2. NumCrtc \in Nat
    BY SizeAssumption
<1>3. \A s \in Slots : scanouts'[s].bo # NoBo =>
          /\ \/ scanouts'[s].bo \in FreeBos \ {new}
             \/ \E r \in Slots : scanouts'[s].bo = scanouts[r].bo
          /\ \A t \in Slots : scanouts'[t].bo = scanouts'[s].bo => s = t
    BY <1>0, <1>1, <1>2, UpdateApart
<1>. QED
    BY <1>0, <1>1, <1>3, NewRootApart

LEMMA InitApart == Init => Apart
<1>. SUFFICES ASSUME Init
              PROVE  Apart
    OBVIOUS
<1>. DEFINE tab   == [s \in Slots |-> EmptySlot]
            table == UpdatedTable(tab, Crtcs, InitRect, Bos \ {1}, NumCrtc)
<1>1. scanouts = table /\ scanout = 1
    BY DEF Init, InitUpdate, UpdateDone
<1>2. \A p \in Pixmaps : pixBo[p] = NoBo
    BY PixIdsFinite DEF Init
<1>3. /\ tab \in TableType
      /\ \A t \in Slots : tab[t].bo = NoBo /\ tab[t].rect = NoRect
    BY DEF EmptySlot, TableType, SlotType, NoRect, Rects
<1>4. /\ NumCrtc \in Nat /\ (Bos \ {1}) \in SUBSET Bos /\ Crtcs \in SUBSET Crtcs
      /\ \A c \in Crtcs : InitRect[c] # NoRect
    BY SizeAssumption, DisplayAssumption DEF NoRect
<1>5. Cardinality(Starved(tab, Crtcs, InitRect)) <= Cardinality(Bos \ {1})
    BY InitStarved
<1>6. NoBo \notin Bos
    BY DEF NoBo, Bos
<1>. HIDE DEF tab
<1>7. ASSUME NEW s \in Slots, scanouts[s].bo # NoBo
      PROVE  scanouts[s].bo # scanout
    <2>1. \/ table[s] = EmptySlot
          \/ table[s].bo \in Bos \ {1}
          \/ \E t \in Slots : tab[t].bo = table[s].bo
        BY <1>3, <1>4, <1>5, UpdatedSlot
    <2>. HIDE DEF table
    <2>. QED
        BY <1>1, <1>3, <1>7, <2>1 DEF EmptySlot
<1>8. ASSUME NEW s \in Slots, NEW t \in Slots, scanouts[s].bo # NoBo, scanouts[t].bo = scanouts[s].bo
      PROVE  s = t
    <2>1. \A r \in Slots : tab[r].bo \notin Bos \ {1}
        BY <1>3, <1>6
    <2>2. \A q, r \in Slots : tab[q].bo # NoBo /\ tab[r].bo = tab[q].bo => q = r
        BY <1>3
    <2>3. table[s].bo # NoBo /\ table[t].bo = table[s].bo
        BY <1>1, <1>8
    <2>. QED
        BY <1>4, <1>5, <2>1, <2>2, <2>3, TableApart
<1>. QED
    BY <1>2, <1>7, <1>8 DEF Apart, SlotsApart, BacksApart

LEMMA StepApart ==
    ASSUME Shape, Apart, InFlight, BlitWorks, Next
    PROVE  Apart'
<1>0. TypeInv /\ Defined
    BY DEF Next, Shape, Inv
<1>1. ASSUME QuietAction
      PROVE  Apart'
    BY <1>0, <1>1, QuietFacts, ApartKept DEF omapVars
<1>2. ASSUME NEW w \in Windows, Client(w)
      PROVE  Apart'
    BY <1>0, <1>1, <1>2, GetBuffersApart, DestroyApart DEF Client, QuietAction
<1>3. ASSUME NEW w \in Windows, Swap(w)
      PROVE  Apart'
    BY <1>3, SwapsApart
<1>4. ASSUME Access
      PROVE  Apart'
    BY <1>1, <1>4 DEF QuietAction
<1>5. ASSUME Config
      PROVE  Apart'
    BY <1>0, <1>1, <1>5, ResizeApart, DestroyApart DEF Config, QuietAction
<1>6. ASSUME Return
      PROVE  Apart'
    BY <1>0, <1>6, SwapBlitReturnApart, SetModeMajorReturnApart, ScreenInitApart,
       RootWriteReturnApart DEF Return
<1>7. ASSUME HandleEvent
      PROVE  Apart'
    BY <1>7, HandleEventApart
<1>8. ASSUME NEW c \in Crtcs, KernelFlip(c)
      PROVE  Apart'
    BY <1>1, <1>8 DEF QuietAction
<1>. QED
    BY <1>2, <1>3, <1>4, <1>5, <1>6, <1>7, <1>8 DEF Next

\* One swap is under way at a time, and no resize comes in flip mode.  With either
\* the driver does back the screen pixmap by the root bo in flip mode, or give a
\* window a bo that is shown.
Separate == {"overlap", "resize_flip"} \cap Env = {}

\* Nothing is in flight, so nothing can go wrong.
LEMMA NoneInFlight ==
    ASSUME Inv', pending_flips' = 0
    PROVE  InFlight'
<1>1. Cardinality(Live') = 0
    BY DEF Inv, PendingFlipsCounts
<1>2. IsFiniteSet(Live')
    <2>1. Live' \subseteq CmdIds
        BY DEF Live
    <2>2. IsFiniteSet(CmdIds)
        BY DisplayAssumption, FS_Interval DEF CmdIds
    <2>. QED
        BY <2>1, <2>2, FS_Subset
<1>3. Live' = {}
    BY <1>1, <1>2, FS_EmptySet
<1>. QED
    BY <1>3 DEF InFlight

\* Commands, pixmaps and slots stay as they are and no window comes back.
LEMMA InFlightKept ==
    ASSUME TypeInv, InFlight, NEW k \in Live, k \in Live', Answers(k)',
           cmd'[k].src = cmd[k].src, cmd'[k].x = cmd[k].x, cmd'[k].fail = cmd[k].fail,
           cmd'[k].win = cmd[k].win, win'[cmd[k].win].alive => win[cmd[k].win].alive,
           scanouts' = scanouts, pixBo'[Root] = pixBo[Root],
           pixBo'[cmd[k].src] = pixBo[cmd[k].src],
           bowidth'[pixBo[cmd[k].src]] = bowidth[pixBo[cmd[k].src]]
    PROVE  Target(k)' # 0 /\ scanouts'[Target(k)'] .bo = pixBo'[Root]
<1>1. Answers(k)
    BY DEF Answers
<1>2. Place(k)' = Place(k)
    BY DEF Place
<1>3. Target(k)' = Target(k)
    BY <1>2 DEF Target
<1>. QED
    BY <1>1, <1>3 DEF InFlight

\* A bo that a pixmap has keeps its width, unless the step sets it.
LEMMA HeldPix ==
    TypeInv /\ Defined => \A b \in Bos : (\E p \in PixIds : pixBo[p] = b) => refcnt[b] > 0
    BY HeldIsReferenced

LEMMA HeldPixNext ==
    (TypeInv /\ Defined => \A b \in Bos : (\E p \in PixIds : pixBo[p] = b) => refcnt[b] > 0)'
    BY HeldPix, PTL

LEMMA WidthKept ==
    ASSUME TypeInv', Defined', NEW rc, NEW width, NEW fb, NEW img, Commit(rc, width, fb, img),
           NEW p \in PixIds, NEW b \in Bos, pixBo'[p] = b
    PROVE  bowidth'[b] = width[b]
<1>1. refcnt'[b] > 0
    BY HeldPixNext
<1>2. refcnt' = rc /\ bowidth'[b] = IF rc[b] <= 0 THEN 0 ELSE width[b]
    BY DEF Commit
<1>3. refcnt'[b] \in Int
    BY DEF TypeInv, CountsType
<1>. QED
    BY <1>1, <1>2, <1>3

LEMMA QuietAlive ==
    ASSUME TypeInv, QuietAction
    PROVE  \A v \in Windows : win'[v].alive = win[v].alive
<1>1. ASSUME NEW w \in Windows, Restack(w)
      PROVE  \A v \in Windows : win'[v].alive = win[v].alive
    <2>1. win' = OnTop(w, win[w].rect) \/ win' = [win EXCEPT ![w].clipped = TRUE]
        BY <1>1 DEF Restack
    <2>2. CASE win' = OnTop(w, win[w].rect)
        BY <2>2, OnTopQuiet
    <2>3. CASE win' = [win EXCEPT ![w].clipped = TRUE]
        BY <2>3 DEF TypeInv, WinsType, WinType
    <2>. QED
        BY <2>1, <2>2, <2>3
<1>2. ASSUME NEW w \in Windows, NEW r \in RectChoices, Move(w, r)
      PROVE  \A v \in Windows : win'[v].alive = win[v].alive
    BY <1>2, OnTopQuiet DEF Move
<1>3. ASSUME Access \/ \E c \in Crtcs : \/ Unplug(c) \/ Disable(c) \/ KernelFlip(c)
                                        \/ \E r \in RectChoices : SetModeMajor(c, r)
      PROVE  win' = win
    BY <1>3 DEF Access, RootWrite, RootRead, RootWriteDirect, Unplug, Disable, KernelFlip, SetModeMajor
<1>. QED
    BY <1>1, <1>2, <1>3 DEF QuietAction

LEMMA QuietInFlight ==
    ASSUME TypeInv, InFlight, QuietAction
    PROVE  InFlight'
<1>1. /\ UNCHANGED <<scanouts, bowidth, pixBo, cmd>>
      /\ \A v \in Windows : win'[v].alive = win[v].alive
    BY QuietFacts, QuietAlive DEF omapVars
<1>2. Live' = Live
    BY <1>1 DEF Live
<1>. QED
    BY <1>1, <1>2, LiveWindow, InFlightKept DEF InFlight

\* A pixmap that a command refers to keeps its bo and its width when others go.
LEMMA DropInFlight ==
    ASSUME Shape, InFlight, TypeInv', Defined',
           cmd' = cmd, UNCHANGED scanouts, NEW v, win' = v,
           \A w \in Windows : v[w].alive => win[w].alive,
           NEW pix \in PixType, pixBo' = DropPixmaps(v, cmd, pix),
           pix[Root] = pixBo[Root],
           NEW width,
           \A p \in Pixmaps : p \in HeldPixmaps(win, cmd)
               => pix[p] = pixBo[p] /\ width[pixBo[p]] = bowidth[pixBo[p]],
           NEW rc, NEW fb, NEW img, Commit(rc, width, fb, img)
    PROVE  InFlight'
<1>0. TypeInv /\ pixBo \in PixType
    BY DEF Shape, Inv, TypeInv
<1>1. Live' = Live
    BY DEF Live
<1>2. ASSUME NEW k \in Live, Answers(k)'
      PROVE  Target(k)' # 0 /\ scanouts'[Target(k)'].bo = pixBo'[Root]
    <2>1. k \in CmdIds /\ cmd[k] \in CmdType /\ cmd[k].win \in Windows
        BY <1>0, LiveWindow
    <2>2. /\ cmd[k].src \in Pixmaps /\ cmd[k].src \in PixIds
          /\ cmd[k].src \in HeldPixmaps(win, cmd) /\ cmd[k].src \in HeldPixmaps(v, cmd)
        BY <2>1 DEF CmdType, HeldPixmaps, PixIds
    <2>3. pixBo'[Root] = pixBo[Root] /\ pixBo'[cmd[k].src] = pixBo[cmd[k].src]
        BY <2>2, DropKeepsHeld
    <2>4. pixBo[cmd[k].src] \in Bos
        BY <1>0, <2>2, PixBoType DEF Shape, Backed, BoOrNone
    <2>5. bowidth'[pixBo[cmd[k].src]] = bowidth[pixBo[cmd[k].src]]
        BY <2>2, <2>3, <2>4, WidthKept
    <2>. QED
        BY <1>0, <1>1, <1>2, <2>1, <2>3, <2>5, InFlightKept
<1>. QED
    BY <1>1, <1>2 DEF InFlight

LEMMA DestroyInFlight ==
    ASSUME Shape, InFlight, TypeInv', Defined', (\E w \in Windows : DestroyWindow(w)) \/ CloseScreen
    PROVE  InFlight'
<1>0. TypeInv /\ pixBo \in PixType
    BY DEF Shape, Inv, TypeInv
<1>1. \A w \in Windows : ~DeadWindow(w).alive
    BY <1>0 DEF DeadWindow, TypeInv, WinsType, WinType
<1>2. PICK v, rc : /\ win' = v /\ pixBo' = DropPixmaps(v, cmd, pixBo)
                   /\ \A u \in Windows : v[u].alive => win[u].alive
                   /\ Commit(rc, bowidth, crtcFb, current)
    <2>1. ASSUME NEW w \in Windows, DestroyWindow(w)
          PROVE  /\ pixBo' = DropPixmaps(win', cmd, pixBo)
                 /\ \A u \in Windows : win'[u].alive => win[u].alive
                 /\ \E rc : Commit(rc, bowidth, crtcFb, current)
        <3>1. win' = [win EXCEPT ![w] = DeadWindow(w)]
            BY <2>1 DEF DestroyWindow
        <3>2. /\ pixBo' = DropPixmaps(win', cmd, pixBo)
              /\ Commit(DropRefs(refcnt, win', cmd, pixBo), bowidth, crtcFb, current)
            BY <2>1 DEF DestroyWindow
        <3>. QED
            BY <1>0, <1>1, <3>1, <3>2 DEF TypeInv, WinsType
    <2>2. ASSUME CloseScreen
          PROVE  /\ pixBo' = DropPixmaps(win', cmd, pixBo)
                 /\ \A u \in Windows : win'[u].alive => win[u].alive
                 /\ \E rc : Commit(rc, bowidth, crtcFb, current)
        <3>1. win' = [w \in Windows |-> DeadWindow(w)]
            BY <2>2 DEF CloseScreen
        <3>2. /\ pixBo' = DropPixmaps(win', cmd, pixBo)
              /\ Commit(DropRefs(refcnt, win', cmd, pixBo), bowidth, crtcFb, current)
            BY <2>2 DEF CloseScreen
        <3>. QED
            BY <1>1, <3>1, <3>2
    <2>. QED
        BY <2>1, <2>2
<1>3. UNCHANGED <<scanouts, cmd>>
    BY DEF DestroyWindow, CloseScreen, omapVars, flipVars
<1>. QED
    BY <1>0, <1>2, <1>3, DropInFlight

LEMMA GetBuffersInFlight ==
    ASSUME Shape, Defined, InFlight, TypeInv', Defined', NEW w \in Windows, GetBuffers(w)
    PROVE  InFlight'
<1>0. TypeInv /\ pixBo \in PixType /\ bowidth \in WidthType
    BY DEF Shape, Inv, TypeInv
<1>1. PICK p \in Nth(Pixmaps \ HeldPixmaps(win, cmd), 1), e \in Nth(FreeBos, 1) :
         LET v   == [win EXCEPT ![w] = [@ EXCEPT !.back = p, !.canflip = -1, !.stale = FALSE]]
             pix == [pixBo EXCEPT ![p] = e]
         IN  /\ win' = v
             /\ pixBo' = DropPixmaps(v, cmd, pix)
             /\ Commit(DropRefs([refcnt EXCEPT ![e] = 1], v, cmd, pix),
                       [bowidth EXCEPT ![e] = win[w].rect.w], crtcFb, current)
    BY DEF GetBuffers
<1>. DEFINE pix == [pixBo EXCEPT ![p] = e]
            wid == [bowidth EXCEPT ![e] = win[w].rect.w]
            rc  == DropRefs([refcnt EXCEPT ![e] = 1], win', cmd, pix)
<1>2. /\ p \in Pixmaps /\ p \notin HeldPixmaps(win, cmd) /\ e \in FreeBos /\ e \in Bos
      /\ UNCHANGED <<cmd, scanouts>>
    BY <1>1 DEF Nth, FreeBos, GetBuffers, flipVars, omapVars
<1>3. pixBo' = DropPixmaps(win', cmd, pix) /\ Commit(rc, wid, crtcFb, current)
    BY <1>1
<1>4. pix \in PixType /\ \A q \in PixIds \ {p} : pix[q] = pixBo[q]
    BY <1>0, <1>2 DEF PixType, BoOrNone, PixIds
<1>5. \A b \in Bos \ {e} : wid[b] = bowidth[b]
    BY <1>0, <1>2 DEF WidthType
<1>6. \A u \in Windows : win'[u].alive = win[u].alive
    BY <1>0, <1>1 DEF TypeInv, WinsType, WinType
<1>. HIDE DEF pix, wid, rc
<1>7. pix[Root] = pixBo[Root]
    BY <1>2, <1>4, PixIdsFinite
<1>8. ASSUME NEW q \in Pixmaps, q \in HeldPixmaps(win, cmd)
      PROVE  pix[q] = pixBo[q] /\ wid[pixBo[q]] = bowidth[pixBo[q]]
    <2>1. q \in PixIds \ {p} /\ q \in PixIds
        BY <1>2, <1>8, PixIdsFinite
    <2>2. pixBo[q] \in Bos
        BY <1>0, <1>8, PixBoType DEF Shape, Backed, BoOrNone
    <2>3. pixBo[q] # e
        BY <1>0, <1>2, <2>1, FreeIsNowhere
    <2>. QED
        BY <1>4, <1>5, <2>1, <2>2, <2>3
<1>. QED
    BY <1>2, <1>3, <1>4, <1>6, <1>7, <1>8, DropInFlight

\* The flip that starts is the only one, and its place is that of the window.
LEMMA SwapFlipInFlight ==
    ASSUME Shape, TypeInv', Defined', pending_flips = 0, NEW w \in Windows, SwapFlip(w)
    PROVE  InFlight'
<1>. DEFINE s == ScanoutFromSize(scanouts, win[w].rect)
            b == pixBo[win[w].back]
<1>0. TypeInv /\ pixBo \in PixType /\ cmd \in CmdsType
    BY DEF Shape, Inv, TypeInv
<1>1. /\ s \in Slots /\ scanouts[s].bo \in Bos
      /\ pixBo' = [pixBo EXCEPT ![Root] = scanouts[s].bo]
      /\ \A t \in Slots : scanouts'[t].bo = scanouts[t].bo /\ scanouts'[t].rect = scanouts[t].rect
    BY SwapFlipFacts
<1>2. CanFlip(w) /\ win[w].back # NoPix
    BY DEF SwapFlip, SwapReady
<1>3. win[w].back \in Pixmaps /\ win[w].back \in PixIds /\ win[w].rect \in Rects
    <2>1. win[w].rect \in RectChoices /\ win[w].back \in Pixmaps
        BY <1>0, <1>2 DEF TypeInv, WinsType, WinType
    <2>. QED
        BY <2>1, RectType DEF PixIds
<1>4. b \in Bos
    <2>1. win[w].back \in HeldPixmaps(win, cmd)
        BY DEF HeldPixmaps
    <2>. QED
        BY <1>0, <1>3, <2>1, PixBoType DEF Shape, Backed, BoOrNone
<1>5. pixBo'[Root] = scanouts[s].bo /\ pixBo'[win[w].back] = b
    BY <1>0, <1>1, <1>3, PixIdsFinite DEF PixType
<1>6. bowidth'[b] = win[w].rect.w
    <2>1. \E rc, fb, img : Commit(rc, bowidth, fb, img)
        BY DEF SwapFlip
    <2>2. bowidth[b] = win[w].rect.w
        BY <1>2 DEF CanFlip
    <2>. HIDE DEF b
    <2>. QED
        BY <1>3, <1>4, <1>5, <2>1, <2>2, WidthKept
<1>7. Live = {}
    <2>1. Cardinality(Live) = 0
        BY DEF Shape, Inv, PendingFlipsCounts
    <2>. QED
        BY <2>1, LiveFinite, FS_EmptySet
<1>8. ASSUME NEW k \in Live'
      PROVE  cmd'[k].src = win[w].back /\ cmd'[k].x = win[w].rect.x
    <2>1. k \in CmdIds /\ cmd'[k] # FreeCmd /\ cmd[k] = FreeCmd
        BY <1>7, <1>8 DEF Live
    <2>2. PICK p : FlipQueued(w, p) \/ FlipNotQueued(w)
        BY DEF SwapFlip
    <2>3. ~FlipNotQueued(w)
        BY <2>1 DEF FlipNotQueued, flipVars
    <2>4. PICK j : cmd' = [cmd EXCEPT ![j] = NewCmd(w, p)]
        BY <2>2, <2>3 DEF FlipQueued
    <2>5. cmd'[k] = NewCmd(w, p)
        BY <1>0, <2>1, <2>4 DEF CmdsType
    <2>. QED
        BY <2>5 DEF NewCmd
<1>. HIDE DEF s, b
<1>9. ASSUME NEW k \in Live'
      PROVE  Target(k)' # 0 /\ scanouts'[Target(k)'].bo = pixBo'[Root]
    <2>1. Place(k)' = win[w].rect
        <3>1. pixBo'[cmd'[k].src] = b
            BY <1>5, <1>8, <1>9
        <3>2. Place(k)' = [x |-> win[w].rect.x, w |-> win[w].rect.w]
            BY <1>6, <1>8, <1>9, <3>1 DEF Place
        <3>. QED
            BY <1>3, <3>2 DEF Rects
    <2>2. Target(k)' = s
        BY <1>1, <2>1, LookupByRect DEF Target, s
    <2>. QED
        BY <1>1, <1>5, <2>2 DEF Slots
<1>. QED
    BY <1>9 DEF InFlight

\* One flip at a time: a swap waits for its turn, and a swap that is changing to
\* blit mode keeps everybody else out.
LEMMA StepOneFlip ==
    ASSUME Inv, OneFlip, Separate, Next
    PROVE  OneFlip'
<1>0. TypeInv /\ pending_flips \in Int
    BY DEF Inv, TypeInv
<1>1. ASSUME pending_flips' = pending_flips, call' = call \/ call'.op # "swap"
      PROVE  OneFlip'
    BY <1>1 DEF OneFlip
<1>2. ASSUME NEW w \in Windows, Client(w)
      PROVE  OneFlip'
    BY <1>1, <1>2 DEF Client, GetBuffers, Restack, DestroyWindow, Move, flipVars
<1>3. ASSUME NEW w \in Windows, Swap(w)
      PROVE  OneFlip'
    <2>1. pending_flips = 0 /\ call = Idle
        BY <1>3 DEF Swap, SwapFlip, SwapFlipFallback, SwapBlit, SwapReady, Separate
    <2>2. CASE SwapFlip(w)
        <3>1. pending_flips' = pending_flips + 1 \/ pending_flips' = pending_flips
            BY <2>2 DEF SwapFlip, FlipQueued, FlipNotQueued, flipVars
        <3>2. call' = Idle
            BY <2>1, <2>2 DEF SwapFlip
        <3>. QED
            BY <2>1, <3>1, <3>2 DEF OneFlip, Idle
    <2>3. CASE SwapFlipFallback(w) \/ SwapBlit(w)
        <3>1. pending_flips' = 0
            BY <2>1, <2>3 DEF SwapFlipFallback, SwapBlit, flipVars
        <3>. QED
            BY <3>1 DEF OneFlip
    <2>. QED
        BY <1>3, <2>2, <2>3 DEF Swap
<1>4. ASSUME Access
      PROVE  OneFlip'
    BY <1>1, <1>4 DEF Access, RootWrite, RootRead, RootWriteDirect, Idle, flipVars
<1>5. ASSUME Config
      PROVE  OneFlip'
    BY <1>1, <1>5 DEF Config, Unplug, Disable, SetModeMajor, Resize, CloseScreen, Idle, flipVars
<1>6. ASSUME Return
      PROVE  OneFlip'
    <2>1. pending_flips' = pending_flips /\ call' = Idle
        BY <1>6 DEF Return, SwapBlitReturn, SetModeMajorReturn, ScreenInit, RootWriteReturn, flipVars
    <2>. QED
        BY <1>1, <2>1, IdleType
<1>7. ASSUME HandleEvent
      PROVE  OneFlip'
    <2>1. pending_flips # 0 /\ call' = call
        BY <1>7, HandledCommand
    <2>2. pending_flips' = pending_flips \/ pending_flips' = pending_flips - 1
        BY <1>7 DEF HandleEvent, CompleteFlip, DropFlip, CompleteCmd
    <2>. QED
        BY <1>0, <2>1, <2>2 DEF OneFlip
<1>8. ASSUME NEW c \in Crtcs, KernelFlip(c)
      PROVE  OneFlip'
    BY <1>1, <1>8 DEF KernelFlip
<1>. QED
    BY <1>2, <1>3, <1>4, <1>5, <1>6, <1>7, <1>8 DEF Next

LEMMA EventInFlight ==
    ASSUME Shape, Inv', InFlight, OneFlip, HandleEvent
    PROVE  InFlight'
<1>. DEFINE k == Head(events)[2]
<1>0. TypeInv /\ Inv /\ cmd \in CmdsType /\ pending_flips \in Int
    BY DEF Shape, Inv, TypeInv
<1>1. k \in Live /\ pending_flips # 0
    BY <1>0, HandledCommand
<1>2. \/ /\ cmd' = [cmd EXCEPT ![k].swapCount = @ - 1]
         /\ UNCHANGED <<scanouts, boVars, pixBo, win>>
      \/ pending_flips' = pending_flips - 1
    BY DEF HandleEvent, CompleteFlip, DropFlip, CompleteCmd
<1>. HIDE DEF k
<1>3. CASE pending_flips' = pending_flips - 1
    <2>1. pending_flips = 1
        <3>1. pending_flips >= 0
            BY <1>0, LiveFinite DEF Inv, PendingFlipsCounts
        <3>. QED
            BY <1>0, <1>1, <3>1 DEF OneFlip
    <2>. QED
        BY <1>3, <2>1, NoneInFlight
<1>4. CASE /\ cmd' = [cmd EXCEPT ![k].swapCount = @ - 1]
           /\ UNCHANGED <<scanouts, boVars, pixBo, win>>
    <2>1. ASSUME NEW j \in CmdIds
          PROVE  /\ cmd'[j].src = cmd[j].src /\ cmd'[j].x = cmd[j].x
                 /\ cmd'[j].fail = cmd[j].fail /\ cmd'[j].win = cmd[j].win
                 /\ j # k => cmd'[j] = cmd[j]
        <3>1. cmd[j] \in CmdType \/ cmd[j] = FreeCmd
            BY <1>0 DEF CmdsType
        <3>2. cmd'[j] = cmd[j] \/ cmd'[j] = [cmd[j] EXCEPT !.swapCount = cmd[j].swapCount - 1]
            BY <1>0, <1>4 DEF CmdsType
        <3>3. j # k => cmd'[j] = cmd[j]
            BY <1>0, <1>4 DEF CmdsType
        <3>. QED
            BY <3>1, <3>2, <3>3 DEF CmdType, FreeCmd
    <2>2. ASSUME NEW j \in Live'
          PROVE  j \in Live
        <3>1. j \in CmdIds /\ cmd'[j] # FreeCmd
            BY <2>2 DEF Live
        <3>. QED
            BY <1>1, <2>1, <3>1 DEF Live
    <2>3. ASSUME NEW j \in Live', Answers(j)'
          PROVE  Target(j)' # 0 /\ scanouts'[Target(j)'].bo = pixBo'[Root]
        <3>1. j \in Live /\ j \in CmdIds
            BY <2>2, <2>3 DEF Live
        <3>2. UNCHANGED <<scanouts, bowidth, pixBo, win>>
            BY <1>4 DEF boVars
        <3>. QED
            BY <1>0, <2>1, <2>3, <3>1, <3>2, InFlightKept
    <2>. QED
        BY <2>3 DEF InFlight
<1>. QED
    BY <1>2, <1>3, <1>4

LEMMA StepInFlight ==
    ASSUME Shape, InFlight, OneFlip, Inv', Defined', Separate, Next
    PROVE  InFlight'
<1>0. TypeInv /\ Defined /\ TypeInv' /\ Inv
    BY DEF Next, Shape, Inv
<1>1. ASSUME pending_flips' = 0
      PROVE  InFlight'
    BY <1>1, NoneInFlight
<1>2. ASSUME QuietAction
      PROVE  InFlight'
    BY <1>0, <1>2, QuietInFlight
<1>3. ASSUME pending_flips <= 0
      PROVE  pending_flips = 0
    <2>1. pending_flips \in Int /\ pending_flips >= 0
        BY <1>0, LiveFinite DEF TypeInv, Inv, PendingFlipsCounts
    <2>. QED
        BY <1>3, <2>1
<1>4. ASSUME NEW w \in Windows, Client(w)
      PROVE  InFlight'
    BY <1>0, <1>2, <1>4, GetBuffersInFlight, DestroyInFlight DEF Client, QuietAction
<1>5. ASSUME NEW w \in Windows, Swap(w)
      PROVE  InFlight'
    <2>1. pending_flips = 0
        BY <1>5 DEF Swap, SwapFlip, SwapFlipFallback, SwapBlit, SwapReady, Separate
    <2>2. CASE SwapFlip(w)
        BY <1>0, <2>1, <2>2, SwapFlipInFlight
    <2>3. CASE SwapFlipFallback(w) \/ SwapBlit(w)
        BY <1>1, <2>1, <2>3 DEF SwapFlipFallback, SwapBlit, flipVars
    <2>. QED
        BY <1>5, <2>2, <2>3 DEF Swap
<1>6. ASSUME Access
      PROVE  InFlight'
    BY <1>2, <1>6 DEF QuietAction
<1>7. ASSUME Config
      PROVE  InFlight'
    <2>1. ASSUME NEW d \in Widths, Resize(d)
          PROVE  InFlight'
        <3>1. flip_mode = "DISABLED" /\ UNCHANGED flipVars
            BY <2>1 DEF Resize, Separate
        <3>2. pending_flips <= 0
            BY <1>0, <3>1 DEF Inv, TypeInv, FlipsOnlyInFlipMode
        <3>. QED
            BY <1>1, <1>3, <3>1, <3>2 DEF flipVars
    <2>. QED
        BY <1>0, <1>2, <1>7, <2>1, DestroyInFlight DEF Config, QuietAction
<1>8. ASSUME Return
      PROVE  InFlight'
    <2>1. WaitOver /\ UNCHANGED flipVars
        BY <1>8 DEF Return, SwapBlitReturn, SetModeMajorReturn, ScreenInit, RootWriteReturn
    <2>2. pending_flips' = 0
        BY <1>0, <1>3, <2>1, NothingPending DEF flipVars
    <2>. QED
        BY <1>1, <2>2
<1>9. ASSUME HandleEvent
      PROVE  InFlight'
    BY <1>9, EventInFlight
<1>10. ASSUME NEW c \in Crtcs, KernelFlip(c)
       PROVE  InFlight'
    BY <1>2, <1>10 DEF QuietAction
<1>. QED
    BY <1>4, <1>5, <1>6, <1>7, <1>8, <1>9, <1>10 DEF Next

\* What keeps the bos of the slots and that of the screen pixmap.
LEMMA FrontKept ==
    ASSUME FrontIsSlot, flip_mode' = flip_mode, pixBo'[Root] = pixBo[Root], scanouts' = scanouts,
           call.op # "swap" \/ call' = call
    PROVE  FrontIsSlot'
    BY DEF FrontIsSlot

LEMMA StepFront ==
    ASSUME Shape, InFlight, FrontIsSlot, BlitWorks, Separate, Next
    PROVE  FrontIsSlot'
<1>0. TypeInv /\ Defined /\ Inv /\ pixBo \in PixType
    BY DEF Next, Shape, Inv, TypeInv
<1>1. ASSUME flip_mode' = "DISABLED"
      PROVE  FrontIsSlot'
    BY <1>1 DEF FrontIsSlot
<1>2. ASSUME QuietAction
      PROVE  FrontIsSlot'
    <2>1. flip_mode' = flip_mode /\ pixBo' = pixBo /\ scanouts' = scanouts
        BY <1>0, <1>2, QuietFacts DEF omapVars
    <2>2. call.op # "swap" \/ call' = call
        <3>1. call = Idle \/ call' = call
            BY <1>2 DEF QuietAction, Restack, Move, Access, RootWrite, RootRead, RootWriteDirect,
                        Unplug, Disable, SetModeMajor, KernelFlip
        <3>. QED
            BY <3>1, IdleType
    <2>. QED
        BY <2>1, <2>2, FrontKept
<1>3. ASSUME (\E w \in Windows : DestroyWindow(w)) \/ CloseScreen
      PROVE  FrontIsSlot'
    <2>1. flip_mode' = flip_mode /\ scanouts' = scanouts /\ call = Idle
        BY <1>3 DEF DestroyWindow, CloseScreen, omapVars
    <2>2. \E v : pixBo' = DropPixmaps(v, cmd, pixBo)
        BY <1>3 DEF DestroyWindow, CloseScreen
    <2>3. pixBo'[Root] = pixBo[Root]
        BY <1>0, <2>2, DropKeepsHeld
    <2>. QED
        BY <2>1, <2>3, FrontKept, IdleType
<1>4. ASSUME NEW w \in Windows, GetBuffers(w)
      PROVE  FrontIsSlot'
    <2>1. flip_mode' = flip_mode /\ scanouts' = scanouts /\ call' = call
        BY <1>4 DEF GetBuffers, omapVars
    <2>2. PICK p \in Pixmaps, e \in Bos :
                 \E v : pixBo' = DropPixmaps(v, cmd, [pixBo EXCEPT ![p] = e])
        BY <1>4 DEF GetBuffers, Nth, FreeBos
    <2>. DEFINE pix == [pixBo EXCEPT ![p] = e]
    <2>3. pix \in PixType /\ pix[Root] = pixBo[Root]
        BY <1>0, PixIdsFinite DEF PixType, BoOrNone
    <2>. HIDE DEF pix
    <2>4. \E v : pixBo' = DropPixmaps(v, cmd, pix)
        BY <2>2 DEF pix
    <2>5. pixBo'[Root] = pixBo[Root]
        BY <2>3, <2>4, DropKeepsHeld
    <2>. QED
        BY <2>1, <2>5, FrontKept
<1>5. ASSUME NEW w \in Windows, Client(w)
      PROVE  FrontIsSlot'
    BY <1>2, <1>3, <1>4, <1>5 DEF Client, QuietAction
<1>6. ASSUME NEW w \in Windows, Swap(w)
      PROVE  FrontIsSlot'
    <2>1. CASE SwapFlip(w)
        <3>. DEFINE s == ScanoutFromSize(scanouts, win[w].rect)
        <3>1. /\ s \in Slots /\ pixBo' = [pixBo EXCEPT ![Root] = scanouts[s].bo]
              /\ scanouts'[s].bo = scanouts[s].bo
            BY <2>1, SwapFlipFacts
        <3>2. pixBo'[Root] = scanouts[s].bo
            BY <1>0, <3>1, PixIdsFinite DEF PixType
        <3>. HIDE DEF s
        <3>. QED
            BY <3>1, <3>2 DEF FrontIsSlot
    <2>2. CASE SwapFlipFallback(w)
        <3>1. flip_mode' # "ENABLED"
            BY <2>2 DEF SetFlipMode, AlreadySet, Outcome, SwapFlipFallback
        <3>. QED
            BY <3>1 DEF FrontIsSlot
    <2>3. CASE SwapBlit(w)
        BY <2>3 DEF SwapBlit, FrontIsSlot, Idle
    <2>. QED
        BY <1>6, <2>1, <2>2, <2>3 DEF Swap
<1>7. ASSUME Access
      PROVE  FrontIsSlot'
    BY <1>2, <1>7 DEF QuietAction
<1>8. ASSUME Config
      PROVE  FrontIsSlot'
    <2>1. ASSUME NEW d \in Widths, Resize(d)
          PROVE  flip_mode' = "DISABLED"
        BY <2>1 DEF Resize, Separate
    <2>. QED
        BY <1>1, <1>2, <1>3, <1>8, <2>1 DEF Config, QuietAction
<1>9. ASSUME Return
      PROVE  FrontIsSlot'
    <2>1. SwapBlitReturn => flip_mode' = "DISABLED"
        BY BlitSucceeds DEF SwapBlitReturn
    <2>2. ASSUME NEW x, RootWriteReturn(x)
          PROVE  flip_mode' = "DISABLED"
        BY <2>2, BlitSucceeds DEF RootWriteReturn
    <2>3. ScreenInit => flip_mode' = "DISABLED"
        BY DEF ScreenInit
    <2>4. SetModeMajorReturn => flip_mode' = "DISABLED"
        BY SetModeMajorFacts
    <2>. QED
        BY <1>1, <1>9, <2>1, <2>2, <2>3, <2>4 DEF Return
<1>10. ASSUME HandleEvent
       PROVE  FrontIsSlot'
    <2>. DEFINE k == Head(events)[2]
    <2>1. k \in Live /\ UNCHANGED <<flip_mode, call>>
        BY <1>0, <1>10, HandledCommand
    <2>2. \/ UNCHANGED <<scanouts, pixBo>>
          \/ Answers(k) /\ CompleteFlip(k)
          \/ DropFlip(k)
        BY <1>10 DEF HandleEvent
    <2>. HIDE DEF k
    <2>3. CASE UNCHANGED <<scanouts, pixBo>>
        BY <2>1, <2>3, FrontKept
    <2>4. CASE DropFlip(k)
        <3>1. (\E c : pixBo' = DropPixmaps(win, c, pixBo)) /\ scanouts' = scanouts
            BY <2>4 DEF DropFlip, CompleteCmd
        <3>2. pixBo'[Root] = pixBo[Root]
            BY <1>0, <3>1, DropKeepsHeld
        <3>. QED
            BY <2>1, <3>1, <3>2, FrontKept
    <2>5. CASE Answers(k) /\ CompleteFlip(k)
        <3>1. /\ Target(k) \in Slots /\ pixBo'[Root] = pixBo[cmd[k].src]
              /\ scanouts'[Target(k)].bo = pixBo[cmd[k].src]
            BY <2>1, <2>5, CompleteFlipFacts
        <3>. QED
            BY <3>1 DEF FrontIsSlot
    <2>. QED
        BY <2>2, <2>3, <2>4, <2>5
<1>11. ASSUME NEW c \in Crtcs, KernelFlip(c)
       PROVE  FrontIsSlot'
    BY <1>2, <1>11 DEF QuietAction
<1>. QED
    BY <1>5, <1>6, <1>7, <1>8, <1>9, <1>10, <1>11 DEF Next

\* The references keep what the driver holds, the shape gives it bos, and then
\* no bo is in two places.
FlightInv == RefsInv /\ FrontInv

LEMMA RefsDefined == RefsInv => Defined
<1>. SUFFICES ASSUME RefsInv, NEW b \in Bos, Holders(b) > 0
              PROVE  refcnt[b] > 0
    BY DEF Defined
<1>1. TypeInv /\ Surplus(b) >= 0
    BY DEF RefsInv, Inv, Referenced
<1>2. /\ refcnt[b] \in Int /\ Listed(scanouts, b) \in Nat /\ Backing(pixBo, b) \in Nat
      /\ Is(scanout, b) \in Nat /\ Is(call.old, b) \in Nat
      /\ Holders(b) = Listed(scanouts, b) + Backing(pixBo, b) + Is(scanout, b)
    BY <1>1, SurplusType
<1>. QED
    BY <1>1, <1>2 DEF Surplus

LEMMA InitFlight == Init => FlightInv
<1>. SUFFICES ASSUME Init
              PROVE  FlightInv
    OBVIOUS
<1>1. RefsInv /\ Shape /\ Apart
    BY InitRefs, InitShape, InitApart DEF ExactInv
<1>2. Live = {} /\ pending_flips = 0 /\ flip_mode = "DISABLED"
    BY DEF Init, Live
<1>3. InFlight /\ OneFlip /\ FrontIsSlot
    BY <1>2 DEF InFlight, OneFlip, FrontIsSlot
<1>. QED
    BY <1>1, <1>3 DEF FlightInv, FrontInv

LEMMA FlightStep ==
    ASSUME BlitWorks, Separate
    PROVE  FlightInv /\ [Next]_vars => FlightInv'
<1>. SUFFICES ASSUME FlightInv, [Next]_vars
              PROVE  FlightInv'
    OBVIOUS
<1>1. /\ RefsInv /\ Shape /\ Apart /\ InFlight /\ OneFlip /\ FrontIsSlot
    BY DEF FlightInv, FrontInv
<1>2. RefsInv'
    BY <1>1, RefsStep
<1>3. Shape'
    BY <1>1, StepShape
<1>4. Inv /\ Inv' /\ TypeInv
    BY <1>1, <1>3 DEF Shape, Inv
<1>5. Defined'
    <2>1. (RefsInv => Defined)'
        BY RefsDefined, PTL
    <2>. QED
        BY <1>2, <2>1
<1>6. CASE Next
    <2>1. Apart'
        BY <1>1, <1>6, StepApart
    <2>2. InFlight'
        BY <1>1, <1>4, <1>5, <1>6, StepInFlight
    <2>3. OneFlip'
        BY <1>1, <1>4, <1>6, StepOneFlip
    <2>4. FrontIsSlot'
        BY <1>1, <1>6, StepFront
    <2>. QED
        BY <1>2, <1>3, <2>1, <2>2, <2>3, <2>4 DEF FlightInv, FrontInv
<1>7. CASE UNCHANGED vars
    <2>1. /\ UNCHANGED <<scanout, scanouts, flip_mode, pending_flips, bowidth, pixBo, cmd, win, call>>
        BY <1>7 DEF vars, omapVars, flipVars, boVars
    <2>2. Apart'
        BY <1>1, <2>1 DEF Apart, SlotsApart, BacksApart
    <2>3. OneFlip' /\ FrontIsSlot'
        BY <1>1, <2>1 DEF OneFlip, FrontIsSlot
    <2>4. InFlight'
        <3>1. Live' = Live
            BY <2>1 DEF Live
        <3>2. \A k \in Live : k \in CmdIds /\ cmd[k].win \in Windows
            BY <1>4, LiveWindow
        <3>. QED
            BY <1>1, <1>4, <2>1, <3>1, <3>2, InFlightKept DEF InFlight
    <2>. QED
        BY <1>2, <1>3, <2>2, <2>3, <2>4 DEF FlightInv, FrontInv
<1>. QED
    BY <1>6, <1>7

\* In flip mode the screen pixmap is backed by the bo of a slot and not by the
\* root bo, if one swap is in flight at a time, the screen is not resized in flip
\* mode and the ways back to blit mode do not fail.
THEOREM FrontStaysInSlot ==
    ASSUME BlitWorks, Separate
    PROVE  Spec => []FlipModeFrontIsSlot
<1>1. FlightInv => FlipModeFrontIsSlot
    <2>. SUFFICES ASSUME FlightInv, flip_mode = "ENABLED", call = Idle
                  PROVE  pixBo[Root] # scanout /\ \E s \in Slots : scanouts[s].bo = pixBo[Root]
        BY DEF FlipModeFrontIsSlot
    <2>1. pixBo[Root] # NoBo /\ SlotsApart
        BY DEF FlightInv, FrontInv, Shape, Backed, Apart
    <2>2. PICK s \in Slots : scanouts[s].bo = pixBo[Root]
        BY IdleType DEF FlightInv, FrontInv, FrontIsSlot
    <2>. QED
        BY <2>1, <2>2 DEF SlotsApart
<1>2. FlightInv /\ [Next]_vars => FlightInv'
    BY FlightStep
<1>. QED
    BY <1>1, <1>2, InitFlight, PTL DEF Spec

-----------------------------------------------------------------------------
(* The modes of the CRTCs.                                                 *)

\* The CRTCs on, except the one whose mode is being set.
Steady == Active(crtc) \ {call.crtc}

CallCrtc == call.op # "modeset" => call.crtc = 0

\* No two CRTCs show the same part of the screen.
RectsApart == \A c, d \in Active(crtc) : c # d => ~Overlap(crtc[c].rect, crtc[d].rect)

\* No mode set makes a CRTC a clone of another, nor are two clones from the start,
\* and slots can be allocated.  With clones a flip leaves the slot of one of them
\* behind; and a mode set that finds no memory for a slot goes back to the mode
\* the CRTC had, which another CRTC may have by now.
Uncloned == /\ "clone" \notin Env /\ "alloc" \notin Faults
            /\ \A c, d \in Crtcs : c # d => ~Overlap(InitRect[c], InitRect[d])

LEMMA StepCallCrtc ==
    ASSUME CallCrtc, Next
    PROVE  CallCrtc'
<1>1. ASSUME call' = call
      PROVE  CallCrtc'
    BY <1>1 DEF CallCrtc
<1>2. ASSUME call'.crtc = 0
      PROVE  CallCrtc'
    BY <1>2 DEF CallCrtc
<1>3. ASSUME NEW w \in Windows, Client(w)
      PROVE  CallCrtc'
    BY <1>1, <1>3 DEF Client, GetBuffers, Restack, DestroyWindow, Move
<1>4. ASSUME NEW w \in Windows, Swap(w)
      PROVE  CallCrtc'
    BY <1>1, <1>2, <1>4 DEF Swap, SwapFlip, SwapFlipFallback, SwapBlit, Idle
<1>5. ASSUME Access
      PROVE  CallCrtc'
    BY <1>1, <1>2, <1>5 DEF Access, RootWrite, RootRead, RootWriteDirect, Idle
<1>6. ASSUME Config
      PROVE  CallCrtc'
    <2>1. ASSUME NEW c \in Crtcs, NEW r, SetModeMajor(c, r)
          PROVE  call'.op = "modeset"
        BY <2>1 DEF SetModeMajor, Idle
    <2>2. ASSUME NEW c \in Crtcs, Unplug(c) \/ Disable(c)
          PROVE  call' = call
        BY <2>2 DEF Unplug, Disable
    <2>3. ASSUME NEW d \in Widths, Resize(d)
          PROVE  call' = call
        BY <2>3 DEF Resize
    <2>4. CloseScreen => call'.crtc = 0
        BY DEF CloseScreen, Idle
    <2>5. call' = call \/ call'.op = "modeset" \/ call'.crtc = 0
        BY <1>6, <2>1, <2>2, <2>3, <2>4 DEF Config
    <2>. QED
        BY <1>1, <1>2, <2>5 DEF CallCrtc
<1>7. ASSUME Return
      PROVE  CallCrtc'
    <2>1. call' = Idle
        BY <1>7 DEF Return, SwapBlitReturn, SetModeMajorReturn, ScreenInit, RootWriteReturn
    <2>2. Idle.crtc = 0
        BY DEF Idle
    <2>. QED
        BY <1>2, <2>1, <2>2
<1>8. ASSUME HandleEvent
      PROVE  CallCrtc'
    BY <1>1, <1>8 DEF HandleEvent
<1>9. ASSUME NEW c \in Crtcs, KernelFlip(c)
      PROVE  CallCrtc'
    BY <1>1, <1>9 DEF KernelFlip
<1>. QED
    BY <1>3, <1>4, <1>5, <1>6, <1>7, <1>8, <1>9 DEF Next

\* Only the return of a mode set makes a CRTC steady, and no steady CRTC gets
\* another mode.
LEMMA SteadyKept ==
    ASSUME TypeInv, CallCrtc, Next, ~SetModeMajorReturn
    PROVE  Steady' \subseteq Steady /\ \A c \in Steady' : crtc'[c].rect = crtc[c].rect
<1>0. crtc \in [Crtcs -> CrtcType] /\ 0 \notin Crtcs
    BY DEF TypeInv, Crtcs
<1>1. ASSUME crtc' = crtc, call'.crtc = call.crtc
      PROVE  Steady' \subseteq Steady /\ \A c \in Steady' : crtc'[c].rect = crtc[c].rect
    BY <1>1 DEF Steady, Active
<1>2. call = Idle => call.crtc = 0 /\ call.op = "idle"
    BY DEF Idle
<1>3. ASSUME NEW w \in Windows, Client(w)
      PROVE  crtc' = crtc /\ call'.crtc = call.crtc
    BY <1>3 DEF Client, GetBuffers, Restack, DestroyWindow, Move
<1>4. ASSUME NEW w \in Windows, Swap(w)
      PROVE  crtc' = crtc /\ call'.crtc = call.crtc
    BY <1>2, <1>4 DEF Swap, SwapFlip, SwapFlipFallback, SwapBlit, SwapReady, Idle
<1>5. ASSUME Access
      PROVE  crtc' = crtc /\ call'.crtc = call.crtc
    BY <1>2, <1>5 DEF Access, RootWrite, RootRead, RootWriteDirect, Idle
<1>6. ASSUME (\E d \in Widths : Resize(d)) \/ CloseScreen
      PROVE  crtc' = crtc /\ call'.crtc = call.crtc
    BY <1>2, <1>6 DEF Resize, CloseScreen, Idle
<1>7. ASSUME Return
      PROVE  crtc' = crtc /\ call'.crtc = call.crtc
    <2>1. call.op # "modeset" /\ crtc' = crtc /\ call' = Idle
        BY <1>7 DEF Return, SwapBlitReturn, ScreenInit, RootWriteReturn
    <2>. QED
        BY <2>1 DEF CallCrtc, Idle
<1>8. ASSUME HandleEvent \/ \E c \in Crtcs : KernelFlip(c)
      PROVE  crtc' = crtc /\ call'.crtc = call.crtc
    BY <1>8 DEF HandleEvent, KernelFlip
<1>9. ASSUME NEW c \in Crtcs, Unplug(c) \/ Disable(c)
      PROVE  Steady' \subseteq Steady /\ \A d \in Steady' : crtc'[d].rect = crtc[d].rect
    <2>1. call' = call /\ \/ crtc' = [crtc EXCEPT ![c].connected = ~@]
                          \/ crtc' = [crtc EXCEPT ![c].enabled = FALSE]
        BY <1>9 DEF Unplug, Disable
    <2>2. \A d \in Crtcs : /\ crtc'[d].rect = crtc[d].rect
                           /\ crtc'[d].enabled => crtc[d].enabled
        BY <1>0, <2>1 DEF CrtcType
    <2>. QED
        BY <2>1, <2>2 DEF Steady, Active
<1>10. ASSUME NEW c \in Crtcs, NEW r \in RectChoices, SetModeMajor(c, r)
       PROVE  Steady' \subseteq Steady /\ \A d \in Steady' : crtc'[d].rect = crtc[d].rect
    <2>1. /\ crtc' = [crtc EXCEPT ![c].rect = r, ![c].enabled = TRUE]
          /\ call'.crtc = c /\ call = Idle
        BY <1>10 DEF SetModeMajor, Idle
    <2>2. \A d \in Crtcs \ {c} : crtc'[d] = crtc[d]
        BY <1>0, <2>1
    <2>. QED
        BY <1>0, <1>2, <2>1, <2>2 DEF Steady, Active
<1>. QED
    BY <1>1, <1>3, <1>4, <1>5, <1>6, <1>7, <1>8, <1>9, <1>10 DEF Next, Config

\* Without failing allocations a mode set replaces the whole table.
LEMMA UpdateIsDone ==
    ASSUME NEW tab, NEW act \in SUBSET Crtcs, NEW rect, NEW free, NEW rc, NEW canFail, ~canFail,
           NEW u \in UpdateScanouts(tab, act, rect, free, rc, canFail), NumCrtc <= MaxScanouts
    PROVE  u = UpdateDone(tab, act, rect, free, rc)
<1>1. \A c \in act : Rank(act, c) \in 1..NumCrtc
    BY RankOfCrtc
<1>2. {c \in act : Rank(act, c) = MaxScanouts + 1} = {}
    BY <1>1, SizeAssumption
<1>. QED
    BY <1>2 DEF UpdateScanouts

\* A mode set that does not fail keeps the mode that the server stored.
LEMMA SetModeMajorCrtcs ==
    ASSUME TypeInv, Uncloned, BlitWorks, SetModeMajorReturn
    PROVE  crtc' = crtc
<1>. DEFINE act   == Active(crtc)
            rects == CrtcRects(crtc)
            fails == "alloc" \in Faults
<1>1. PICK m \in (IF flip_mode = "DISABLED" THEN SetOneCrtc(call.crtc) ELSE SetBlitMode) :
         /\ m.ret
         /\ \E u \in UpdateScanouts(m.tab, act, rects, FreeBos, refcnt, fails) :
                u.ret => crtc' = crtc
    <2>1. \A c : \A m \in SetOneCrtc(c) : m.ret
        BY DEF SetOneCrtc, Outcome, BlitWorks
    <2>. QED
        BY <2>1, BlitSucceeds DEF SetModeMajorReturn
<1>2. PICK u \in UpdateScanouts(m.tab, act, rects, FreeBos, refcnt, fails) :
             u.ret => crtc' = crtc
    BY <1>1
<1>3. act \in SUBSET Crtcs /\ NumCrtc <= MaxScanouts /\ ~fails
    BY ActiveType, DisplayAssumption DEF Uncloned
<1>. HIDE DEF act, rects, fails
<1>4. u = UpdateDone(m.tab, act, rects, FreeBos, refcnt)
    BY <1>3, UpdateIsDone
<1>. QED
    BY <1>2, <1>4 DEF UpdateDone

LEMMA StepRects ==
    ASSUME Shape, RectsApart, CallCrtc, Uncloned, BlitWorks, Next
    PROVE  RectsApart'
<1>0. crtc \in [Crtcs -> CrtcType] /\ TypeInv
    BY DEF Shape, Inv, TypeInv
<1>1. ASSUME \A c \in Crtcs : /\ crtc'[c].rect = crtc[c].rect
                              /\ crtc'[c].enabled => crtc[c].enabled
      PROVE  RectsApart'
    BY <1>1 DEF RectsApart, Active
<1>2. ASSUME NEW c \in Crtcs, Unplug(c) \/ Disable(c)
      PROVE  RectsApart'
    <2>1. \/ crtc' = [crtc EXCEPT ![c].connected = ~@]
          \/ crtc' = [crtc EXCEPT ![c].enabled = FALSE]
        BY <1>2 DEF Unplug, Disable
    <2>2. \A d \in Crtcs : /\ crtc'[d].rect = crtc[d].rect
                           /\ crtc'[d].enabled => crtc[d].enabled
        BY <1>0, <2>1 DEF CrtcType
    <2>. QED
        BY <1>1, <2>2
<1>3. ASSUME NEW c \in Crtcs, NEW r \in RectChoices, SetModeMajor(c, r)
      PROVE  RectsApart'
    <2>1. /\ crtc' = [crtc EXCEPT ![c].rect = r, ![c].enabled = TRUE]
          /\ \A d \in Active(crtc) \ {c} : ~Overlap(crtc[d].rect, r)
        BY <1>3 DEF SetModeMajor, Uncloned
    <2>2. crtc'[c].rect = r /\ \A d \in Crtcs \ {c} : crtc'[d] = crtc[d]
        BY <1>0, <2>1 DEF CrtcType
    <2>3. \A d \in Active(crtc) \ {c} : ~Overlap(r, crtc[d].rect)
        BY <2>1 DEF Overlap
    <2>4. Active(crtc') \subseteq Active(crtc) \cup {c}
        BY <2>2 DEF Active
    <2>5. Active(crtc') \subseteq Crtcs
        BY DEF Active
    <2>6. ASSUME NEW d \in Active(crtc'), NEW e \in Active(crtc'), d # e
          PROVE  ~Overlap(crtc'[d].rect, crtc'[e].rect)
        <3>1. CASE d = c
            BY <2>2, <2>3, <2>4, <2>5, <2>6, <3>1
        <3>2. CASE e = c
            BY <2>1, <2>2, <2>4, <2>5, <2>6, <3>2
        <3>3. CASE d # c /\ e # c
            BY <2>2, <2>4, <2>5, <2>6, <3>3 DEF RectsApart
        <3>. QED
            BY <3>1, <3>2, <3>3
    <2>. QED
        BY <2>6 DEF RectsApart
<1>4. ASSUME SetModeMajorReturn
      PROVE  crtc' = crtc
    BY <1>0, <1>4, SetModeMajorCrtcs
<1>5. crtc' = crtc \/ \E c \in Crtcs : \/ Unplug(c) \/ Disable(c)
                                       \/ \E r \in RectChoices : SetModeMajor(c, r)
    <2>1. ASSUME NEW w \in Windows, Client(w) \/ Swap(w)
          PROVE  crtc' = crtc
        BY <2>1 DEF Client, GetBuffers, Restack, DestroyWindow, Move, Swap, SwapFlip,
                    SwapFlipFallback, SwapBlit
    <2>2. Access => crtc' = crtc
        BY DEF Access, RootWrite, RootRead, RootWriteDirect
    <2>3. Return => crtc' = crtc
        BY <1>4 DEF Return, SwapBlitReturn, ScreenInit, RootWriteReturn
    <2>4. HandleEvent \/ (\E c \in Crtcs : KernelFlip(c)) => crtc' = crtc
        BY DEF HandleEvent, KernelFlip
    <2>5. CloseScreen \/ (\E d \in Widths : Resize(d)) => crtc' = crtc
        BY DEF CloseScreen, Resize
    <2>. QED
        BY <2>1, <2>2, <2>3, <2>4, <2>5 DEF Next, Config
<1>6. CASE crtc' = crtc
    BY <1>1, <1>6
<1>. QED
    BY <1>2, <1>3, <1>5, <1>6

-----------------------------------------------------------------------------
(* What the CRTCs show.                                                    *)

\* A CRTC scans out a bo that exists.
NotDead == \A c \in Crtcs : crtcFb[c] # NoBo => refcnt[crtcFb[c]] > 0

\* A back pixmap whose bo is shown is that of a flip under way.
OffScreen ==
    \A c \in Steady, p \in Pixmaps :
        crtcFb[c] # NoBo /\ crtcFb[c] = pixBo[p] => \E k \in Live : cmd[k].src = p

\* A CRTC that shows the bo of a slot has the place of the slot.
Facing ==
    \A c \in Steady, s \in Slots :
        crtcFb[c] # NoBo /\ crtcFb[c] = scanouts[s].bo => crtc[c].rect = scanouts[s].rect

\* Once a flip has begun that will be answered nobody shows the bo that it takes
\* off the screen; the flipped bo is shown at the place of the slot it will get.
Flight ==
    \A k \in Live : Answers(k) =>
        \A c \in Steady :
            /\ crtcFb[c] # pixBo[Root]
            /\ crtcFb[c] = pixBo[cmd[k].src] =>
                 \A s \in Slots : scanouts[s].bo = pixBo[Root] => crtc[c].rect = scanouts[s].rect

\* A back pixmap is that of one window; the source of a flip, of the window that
\* flips.
BacksOwned ==
    /\ \A k \in Live : /\ ~cmd[k].fail
                       /\ \A w \in Windows : win[w].back = cmd[k].src => cmd[k].win = w
    /\ \A w \in Windows : ~win[w].alive => win[w].back = NoPix
    /\ \A v, w \in Windows : win[v].back # NoPix /\ win[w].back = win[v].back => v = w

Shows == OffScreen /\ Facing /\ Flight

\* Nothing is in flight, before or after.
LEMMA ShowsGrounded ==
    ASSUME Apart', OffScreen, Facing, Live = {}, Live' = {},
           \A p \in Pixmaps : pixBo'[p] = pixBo[p] \/ pixBo'[p] = NoBo,
           \A c \in Steady' :
              \/ crtcFb'[c] = NoBo \/ crtcFb'[c] = scanout'
              \/ \E s \in Slots : crtcFb'[c] = scanouts'[s].bo /\ crtc'[c].rect = scanouts'[s].rect
              \/ /\ c \in Steady /\ crtcFb'[c] = crtcFb[c] /\ crtc'[c].rect = crtc[c].rect
                 /\ \A s \in Slots : scanouts'[s].bo = crtcFb[c] =>
                      \E t \in Slots : scanouts[t].bo = crtcFb[c] /\ scanouts[t].rect = scanouts'[s].rect
    PROVE  Shows'
<1>1. /\ \A s, t \in Slots : scanouts'[s].bo # NoBo =>
             scanouts'[s].bo # scanout' /\ (scanouts'[t].bo = scanouts'[s].bo => s = t)
      /\ \A p \in Pixmaps : pixBo'[p] # NoBo =>
             pixBo'[p] # scanout' /\ \A s \in Slots : scanouts'[s].bo # pixBo'[p]
    BY DEF Apart, SlotsApart, BacksApart
<1>2. ASSUME NEW c \in Steady', NEW p \in Pixmaps, crtcFb'[c] # NoBo, crtcFb'[c] = pixBo'[p]
      PROVE  FALSE
    BY <1>1, <1>2 DEF OffScreen
<1>3. ASSUME NEW c \in Steady', NEW s \in Slots, crtcFb'[c] # NoBo, crtcFb'[c] = scanouts'[s].bo
      PROVE  crtc'[c].rect = scanouts'[s].rect
    BY <1>1, <1>3 DEF Facing
<1>4. Flight'
    BY DEF Flight
<1>. QED
    BY <1>2, <1>3, <1>4 DEF Shows, OffScreen, Facing

\* Commands, slots and the modes stay; a CRTC may go off.
LEMMA ShowsKept ==
    ASSUME TypeInv, Shape', Shows, Steady' \subseteq Steady,
           \A c \in Steady' : crtc'[c].rect = crtc[c].rect,
           \A c \in Crtcs : crtcFb'[c] = crtcFb[c] \/ crtcFb'[c] = NoBo,
           \A s \in Slots : scanouts'[s].bo = scanouts[s].bo /\ scanouts'[s].rect = scanouts[s].rect,
           pixBo'[Root] = pixBo[Root],
           \A p \in Pixmaps : pixBo'[p] = pixBo[p] \/ pixBo'[p] = NoBo
                                \/ \A c \in Steady : crtcFb[c] # pixBo'[p],
           Live' = Live,
           \A k \in Live : /\ cmd'[k].src = cmd[k].src
                           /\ Answers(k)' => Answers(k)
                           /\ pixBo'[cmd[k].src] = pixBo[cmd[k].src] \/ pixBo'[cmd[k].src] = NoBo
    PROVE  Shows'
<1>0. Steady \subseteq Crtcs
    BY DEF Steady, Active
<1>1. OffScreen'
    <2>1. ASSUME NEW c \in Steady', NEW p \in Pixmaps, crtcFb'[c] # NoBo, crtcFb'[c] = pixBo'[p]
          PROVE  \E k \in Live : cmd'[k].src = p
        <3>1. c \in Steady /\ crtcFb'[c] = crtcFb[c] /\ pixBo'[p] = pixBo[p]
            BY <1>0, <2>1
        <3>2. PICK k \in Live : cmd[k].src = p
            BY <2>1, <3>1 DEF Shows, OffScreen
        <3>. QED
            BY <3>2
    <2>. QED
        BY <2>1 DEF OffScreen
<1>2. Facing'
    BY <1>0 DEF Shows, Facing
<1>3. pixBo'[Root] # NoBo /\ \A k \in Live : pixBo'[cmd[k].src] # NoBo
    <2>1. TypeInv' /\ Backed'
        BY DEF Shape, Inv
    <2>2. ASSUME NEW k \in Live
          PROVE  cmd'[k].src \in Pixmaps /\ cmd'[k].src \in HeldPixmaps(win', cmd')
        <3>1. k \in CmdIds /\ cmd[k] \in CmdType
            BY LiveWindow
        <3>2. cmd[k].src \in Pixmaps /\ cmd'[k].src = cmd[k].src
            BY <3>1 DEF CmdType
        <3>3. cmd'[k].src \in {cmd'[j].src : j \in CmdIds}
            BY <3>1
        <3>. QED
            BY <3>2, <3>3 DEF HeldPixmaps
    <2>3. \A k \in Live : pixBo'[cmd'[k].src] # NoBo
        BY <2>1, <2>2 DEF Backed
    <2>. QED
        BY <2>1, <2>3 DEF Backed
<1>4. Flight'
    <2>1. ASSUME NEW k \in Live, Answers(k)', NEW c \in Steady'
          PROVE  /\ crtcFb'[c] # pixBo'[Root]
                 /\ crtcFb'[c] = pixBo'[cmd'[k].src] =>
                      \A s \in Slots : scanouts'[s].bo = pixBo'[Root] => crtc'[c].rect = scanouts'[s].rect
        <3>1. c \in Steady /\ Answers(k) /\ (crtcFb'[c] = crtcFb[c] \/ crtcFb'[c] = NoBo)
            BY <1>0, <2>1
        <3>2. crtcFb'[c] # pixBo'[Root]
            BY <1>3, <3>1 DEF Shows, Flight
        <3>3. pixBo'[cmd'[k].src] = pixBo[cmd[k].src] /\ pixBo'[cmd'[k].src] # NoBo
            BY <1>3
        <3>4. ASSUME crtcFb'[c] = pixBo'[cmd'[k].src], NEW s \in Slots, scanouts'[s].bo = pixBo'[Root]
              PROVE  crtc'[c].rect = scanouts'[s].rect
            <4>1. crtcFb[c] = pixBo[cmd[k].src] /\ scanouts[s].bo = pixBo[Root]
                BY <3>1, <3>3, <3>4
            <4>2. crtc[c].rect = scanouts[s].rect
                BY <3>1, <4>1 DEF Shows, Flight
            <4>. QED
                BY <4>2
        <3>. QED
            BY <3>2, <3>4
    <2>. QED
        BY <2>1 DEF Flight
<1>. QED
    BY <1>1, <1>2, <1>4 DEF Shows

\* No window comes by a back pixmap, and no command begins.
LEMMA BacksKept ==
    ASSUME TypeInv, BacksOwned,
           \A w \in Windows : /\ win'[w].back = win[w].back \/ win'[w].back = NoPix
                              /\ ~win'[w].alive => ~win[w].alive \/ win'[w].back = NoPix,
           \A k \in Live' : /\ k \in Live /\ cmd'[k].src = cmd[k].src
                            /\ cmd'[k].fail = cmd[k].fail /\ cmd'[k].win = cmd[k].win
    PROVE  BacksOwned'
<1>1. \A k \in Live : cmd[k].src # NoPix
    <2>1. \A k \in Live : cmd[k].src \in Pixmaps
        BY LiveWindow DEF CmdType
    <2>. QED
        BY <2>1 DEF Pixmaps, NoPix
<1>. QED
    BY <1>1 DEF BacksOwned

-----------------------------------------------------------------------------
(* Bos that exist.                                                         *)

LEMMA ShownAlive ==
    ASSUME TypeInv', NEW rc, NEW width, NEW fb, NEW img, Commit(rc, width, fb, img)
    PROVE  NotDead' /\ \A c \in Crtcs : crtcFb'[c] = fb[c] \/ crtcFb'[c] = NoBo
<1>1. refcnt' = rc /\ crtcFb' = [c \in Crtcs |-> IF fb[c] # NoBo /\ rc[fb[c]] <= 0 THEN NoBo ELSE fb[c]]
    BY DEF Commit, Shown
<1>2. ASSUME NEW c \in Crtcs, crtcFb'[c] # NoBo
      PROVE  refcnt'[crtcFb'[c]] > 0
    <2>1. crtcFb'[c] \in Bos
        BY <1>2 DEF TypeInv, FbType, BoOrNone
    <2>2. refcnt'[crtcFb'[c]] \in Int
        BY <2>1 DEF TypeInv, CountsType
    <2>3. crtcFb'[c] = fb[c] /\ ~(rc[fb[c]] <= 0)
        BY <1>1, <1>2
    <2>. QED
        BY <1>1, <2>2, <2>3
<1>. QED
    BY <1>1, <1>2 DEF NotDead

LEMMA StepNotDead ==
    ASSUME TypeInv, TypeInv', NotDead, Next
    PROVE  NotDead'
<1>1. ASSUME crtcFb' = crtcFb, refcnt' = refcnt
      PROVE  NotDead'
    BY <1>1 DEF NotDead
<1>2. ASSUME NEW rc, NEW width, NEW fb, NEW img, Commit(rc, width, fb, img)
      PROVE  NotDead'
    BY <1>2, ShownAlive
<1>3. ASSUME QuietAction
      PROVE  NotDead'
    BY <1>1, <1>3, QuietFacts
<1>4. ASSUME NEW w \in Windows, Client(w)
      PROVE  NotDead'
    BY <1>2, <1>3, <1>4 DEF Client, GetBuffers, DestroyWindow, QuietAction
<1>5. ASSUME NEW w \in Windows, Swap(w)
      PROVE  NotDead'
    <2>1. CASE SwapFlip(w)
        BY <1>2, <2>1 DEF SwapFlip
    <2>2. CASE SwapFlipFallback(w)
        BY <1>2, <2>2 DEF SwapFlipFallback, BlitToFront
    <2>3. CASE SwapBlit(w)
        <3>1. crtcFb' = crtcFb /\ refcnt' = Reference(refcnt, scanout)
            BY <2>3 DEF SwapBlit
        <3>2. refcnt \in CountsType /\ scanout \in Bos
            BY DEF TypeInv
        <3>3. ASSUME NEW c \in Crtcs, crtcFb[c] # NoBo
              PROVE  refcnt'[crtcFb[c]] > 0
            <4>1. crtcFb[c] \in Bos /\ refcnt[crtcFb[c]] > 0
                BY <3>3 DEF TypeInv, FbType, BoOrNone, NotDead
            <4>2. refcnt'[crtcFb[c]] \in {refcnt[crtcFb[c]], refcnt[crtcFb[c]] + 1}
                BY <3>1, <3>2, <4>1 DEF Reference, CountsType
            <4>3. refcnt[crtcFb[c]] \in Int
                BY <3>2, <4>1 DEF CountsType
            <4>. QED
                BY <4>1, <4>2, <4>3
        <3>. QED
            BY <3>1, <3>3 DEF NotDead
    <2>. QED
        BY <1>5, <2>1, <2>2, <2>3 DEF Swap
<1>6. ASSUME Config
      PROVE  NotDead'
    BY <1>2, <1>3, <1>6 DEF Config, CloseScreen, Resize, QuietAction
<1>7. ASSUME Return
      PROVE  NotDead'
    <2>1. CASE SwapBlitReturn
        BY <1>2, <2>1 DEF SwapBlitReturn, BlitToFront
    <2>2. CASE SetModeMajorReturn
        BY <1>2, <2>2 DEF SetModeMajorReturn
    <2>3. CASE ScreenInit
        BY <1>2, <2>3 DEF ScreenInit
    <2>4. ASSUME NEW x, RootWriteReturn(x)
          PROVE  NotDead'
        BY <1>2, <2>4 DEF RootWriteReturn
    <2>. QED
        BY <1>7, <2>1, <2>2, <2>3, <2>4 DEF Return
<1>8. ASSUME HandleEvent
      PROVE  NotDead'
    <2>1. UNCHANGED boVars \/ \E rc, width, fb, img : Commit(rc, width, fb, img)
        BY <1>8 DEF HandleEvent, CompleteFlip, DropFlip, CompleteCmd
    <2>. QED
        BY <1>1, <1>2, <2>1 DEF boVars
<1>. QED
    BY <1>3, <1>4, <1>5, <1>6, <1>7, <1>8 DEF Next, QuietAction

-----------------------------------------------------------------------------
(* What the mode switches show.                                            *)

\* A CRTC shows what it showed before, nothing, the root bo, or its own slot.
ShowsOne(b, c) ==
    \/ b \in {crtcFb[c], NoBo, scanout}
    \/ \E s \in Slots : b = scanouts[s].bo /\ crtc[c].rect = scanouts[s].rect

LEMMA TargetShows ==
    ASSUME NEW fb, NEW c \in Crtcs, ShowsOne(fb[c], c)
    PROVE  ShowsOne(BlitTarget(fb)[c], c) /\ ShowsOne(FlipTarget(fb)[c], c)
<1>1. ShowsOne(BlitTarget(fb)[c], c)
    BY DEF BlitTarget, ShowsOne
<1>2. CASE c \in FlipCrtcs
    <2>1. FlipTarget(fb)[c] = scanouts[ScanoutFromSize(scanouts, crtc[c].rect)].bo
        BY <1>2 DEF FlipTarget
    <2>2. /\ ScanoutFromSize(scanouts, crtc[c].rect) \in Slots
          /\ scanouts[ScanoutFromSize(scanouts, crtc[c].rect)].rect = crtc[c].rect
        BY <1>2, LookupFirst DEF FlipCrtcs
    <2>. QED
        BY <1>1, <2>1, <2>2 DEF ShowsOne
<1>3. CASE c \notin FlipCrtcs
    <2>1. FlipTarget(fb)[c] = fb[c]
        BY <1>3 DEF FlipTarget
    <2>. QED
        BY <1>1, <2>1
<1>. QED
    BY <1>2, <1>3

LEMMA OutcomeShows ==
    ASSUME TypeInv, NEW d, NEW m \in SetBlitMode \cup SetFlipMode \cup SetOneCrtc(d), NEW c \in Crtcs
    PROVE  ShowsOne(m.fb[c], c)
<1>1. ShowsOne(crtcFb[c], c) /\ ShowsOne(NoBo, c)
    BY DEF ShowsOne
<1>2. /\ ShowsOne(BlitTarget(crtcFb)[c], c) /\ ShowsOne(FlipTarget(crtcFb)[c], c)
      /\ ShowsOne(FlipTarget(BlitTarget(crtcFb))[c], c)
      /\ ShowsOne(BlitTarget(FlipTarget(crtcFb))[c], c)
    BY <1>1, TargetShows
<1>3. ASSUME NEW acts \in SUBSET Crtcs, NEW to, NEW undoes, NEW undo,
             NEW fb \in Unwound(acts, to, undoes, undo), ShowsOne(to[c], c), ShowsOne(undo[c], c)
      PROVE  ShowsOne(fb[c], c)
    <2>1. fb[c] \in {undo[c], to[c], NoBo, crtcFb[c]}
        BY DEF Unwound
    <2>. QED
        BY <1>1, <1>3, <2>1
<1>4. BlitCrtcs \in SUBSET Crtcs /\ FlipCrtcs \in SUBSET Crtcs
    BY DEF BlitCrtcs, FlipCrtcs
<1>5. ASSUME NEW fb \in ToBlit.bad \cup ToFlip.bad
      PROVE  ShowsOne(fb[c], c)
    <2>1. CASE fb \in ToBlit.bad
        <3>1. fb \in Unwound(BlitCrtcs, BlitTarget(crtcFb), FlipCrtcs, FlipTarget(BlitTarget(crtcFb)))
            BY <2>1 DEF ToBlit
        <3>. QED
            BY <1>2, <1>3, <1>4, <3>1
    <2>2. CASE fb \in ToFlip.bad
        <3>1. fb \in Unwound(FlipCrtcs, FlipTarget(crtcFb), BlitCrtcs, BlitTarget(FlipTarget(crtcFb)))
            BY <2>2 DEF ToFlip
        <3>. QED
            BY <1>2, <1>3, <1>4, <3>1
    <2>. QED
        BY <2>1, <2>2
<1>6. \/ m.fb = crtcFb \/ m.fb = BlitTarget(crtcFb) \/ m.fb = FlipTarget(crtcFb)
      \/ m.fb \in ToBlit.bad \cup ToFlip.bad
      \/ m.fb = [crtcFb EXCEPT ![d] = scanout]
    BY DEF SetBlitMode, SetFlipMode, SetOneCrtc, AlreadySet, Outcome, ToBlit, ToFlip
<1>7. CASE m.fb = [crtcFb EXCEPT ![d] = scanout]
    BY <1>7 DEF ShowsOne, TypeInv, FbType
<1>. QED
    BY <1>1, <1>2, <1>5, <1>6, <1>7

\* No CRTC comes to be steady, and none gets another mode.
Still == Steady' \subseteq Steady /\ \A c \in Steady' : crtc'[c].rect = crtc[c].rect

LEMMA NoneLive ==
    ASSUME Inv, pending_flips = 0
    PROVE  Live = {}
<1>1. Cardinality(Live) = 0
    BY DEF Inv, PendingFlipsCounts
<1>. QED
    BY <1>1, LiveFinite, FS_EmptySet

LEMMA SteadyType == Steady \subseteq Crtcs /\ Steady \subseteq Active(crtc) /\ (call = Idle => Steady = Active(crtc))
<1>1. 0 \notin Crtcs
    BY DEF Crtcs
<1>. QED
    BY <1>1 DEF Steady, Active, Idle

LEMMA QuietShows ==
    ASSUME TypeInv, Shape', Shows, Still, QuietAction
    PROVE  Shows'
<1>1. /\ UNCHANGED <<scanouts, crtcFb, pixBo, cmd>>
      /\ \A v \in Windows : win'[v].alive = win[v].alive
    BY QuietFacts, QuietAlive DEF omapVars
<1>2. Live' = Live
    BY <1>1 DEF Live
<1>3. \A k \in Live : Answers(k)' => Answers(k)
    BY <1>1, LiveWindow DEF Answers
<1>. QED
    BY <1>1, <1>2, <1>3, ShowsKept DEF Still

LEMMA QuietBacks ==
    ASSUME TypeInv, BacksOwned, QuietAction
    PROVE  BacksOwned'
<1>1. /\ cmd' = cmd
      /\ \A v \in Windows : win'[v].alive = win[v].alive /\ win'[v].back = win[v].back
    BY QuietFacts, QuietAlive
<1>2. Live' = Live
    BY <1>1 DEF Live
<1>. QED
    BY <1>1, <1>2, BacksKept

LEMMA DestroyFacts ==
    ASSUME TypeInv, (\E w \in Windows : DestroyWindow(w)) \/ CloseScreen
    PROVE  /\ UNCHANGED <<scanout, scanouts, cmd>>
           /\ \A u \in Windows : \/ win'[u] = win[u]
                                 \/ ~win'[u].alive /\ win'[u].back = NoPix
           /\ pixBo' = DropPixmaps(win', cmd, pixBo)
           /\ \E rc : Commit(rc, bowidth, crtcFb, current)
<1>1. \A w \in Windows : ~DeadWindow(w).alive /\ DeadWindow(w).back = NoPix
    BY DEF DeadWindow, TypeInv, WinsType, WinType
<1>2. ASSUME NEW w \in Windows, DestroyWindow(w)
      PROVE  /\ \A u \in Windows : win'[u] = win[u] \/ win'[u] = DeadWindow(u)
             /\ pixBo' = DropPixmaps(win', cmd, pixBo)
             /\ \E rc : Commit(rc, bowidth, crtcFb, current)
    <2>1. win' = [win EXCEPT ![w] = DeadWindow(w)]
        BY <1>2 DEF DestroyWindow
    <2>2. /\ pixBo' = DropPixmaps(win', cmd, pixBo)
          /\ Commit(DropRefs(refcnt, win', cmd, pixBo), bowidth, crtcFb, current)
        BY <1>2 DEF DestroyWindow
    <2>. QED
        BY <2>1, <2>2 DEF TypeInv, WinsType
<1>3. ASSUME CloseScreen
      PROVE  /\ \A u \in Windows : win'[u] = win[u] \/ win'[u] = DeadWindow(u)
             /\ pixBo' = DropPixmaps(win', cmd, pixBo)
             /\ \E rc : Commit(rc, bowidth, crtcFb, current)
    <2>1. win' = [w \in Windows |-> DeadWindow(w)]
        BY <1>3 DEF CloseScreen
    <2>2. /\ pixBo' = DropPixmaps(win', cmd, pixBo)
          /\ Commit(DropRefs(refcnt, win', cmd, pixBo), bowidth, crtcFb, current)
        BY <1>3 DEF CloseScreen
    <2>. QED
        BY <2>1, <2>2
<1>4. UNCHANGED <<scanout, scanouts, cmd>>
    BY DEF DestroyWindow, CloseScreen, omapVars, flipVars
<1>. QED
    BY <1>1, <1>2, <1>3, <1>4

LEMMA DestroyShows ==
    ASSUME TypeInv, Shape', Shows, BacksOwned, Still,
           (\E w \in Windows : DestroyWindow(w)) \/ CloseScreen
    PROVE  Shows' /\ BacksOwned'
<1>1. /\ UNCHANGED <<scanout, scanouts, cmd>>
      /\ \A u \in Windows : \/ win'[u] = win[u]
                            \/ ~win'[u].alive /\ win'[u].back = NoPix
      /\ pixBo' = DropPixmaps(win', cmd, pixBo)
    BY DestroyFacts
<1>2. PICK rc : Commit(rc, bowidth, crtcFb, current)
    BY DestroyFacts
<1>3. Live' = Live
    BY <1>1 DEF Live
<1>4. \A k \in Live : Answers(k)' => Answers(k)
    BY <1>1, LiveWindow DEF Answers
<1>5. pixBo \in PixType /\ TypeInv'
    BY DEF TypeInv, Shape, Inv
<1>6. \A c \in Crtcs : crtcFb'[c] = crtcFb[c] \/ crtcFb'[c] = NoBo
    BY <1>2, <1>5, ShownAlive
<1>7. /\ pixBo'[Root] = pixBo[Root]
      /\ \A p \in Pixmaps : pixBo'[p] = pixBo[p] \/ pixBo'[p] = NoBo
    BY <1>1, <1>5, DropEither, PixIdsFinite
<1>8. \A k \in Live : cmd[k].src \in Pixmaps
    BY LiveWindow DEF CmdType
<1>9. Shows'
    BY <1>1, <1>3, <1>4, <1>6, <1>7, <1>8, ShowsKept DEF Still
<1>10. BacksOwned'
    BY <1>1, <1>3, BacksKept
<1>. QED
    BY <1>9, <1>10

\* The bo of a new back buffer was free, and nobody shows such a bo.
LEMMA GetBuffersShows ==
    ASSUME Shape, Shape', Defined, Shows, BacksOwned, NotDead, Still,
           NEW w \in Windows, GetBuffers(w)
    PROVE  Shows' /\ BacksOwned'
<1>0. TypeInv /\ TypeInv' /\ pixBo \in PixType
    BY DEF Shape, Inv, TypeInv
<1>1. PICK p \in Nth(Pixmaps \ HeldPixmaps(win, cmd), 1), e \in Nth(FreeBos, 1) :
         LET v   == [win EXCEPT ![w] = [@ EXCEPT !.back = p, !.canflip = -1, !.stale = FALSE]]
             pix == [pixBo EXCEPT ![p] = e]
         IN  /\ win' = v
             /\ pixBo' = DropPixmaps(v, cmd, pix)
             /\ Commit(DropRefs([refcnt EXCEPT ![e] = 1], v, cmd, pix),
                       [bowidth EXCEPT ![e] = win[w].rect.w], crtcFb, current)
    BY DEF GetBuffers
<1>. DEFINE pix == [pixBo EXCEPT ![p] = e]
<1>2. /\ p \in Pixmaps /\ p \notin HeldPixmaps(win, cmd) /\ e \in FreeBos /\ e \in Bos
      /\ UNCHANGED <<cmd, scanouts>>
    BY <1>1 DEF Nth, FreeBos, GetBuffers, flipVars, omapVars
<1>3. \A c \in Crtcs : crtcFb'[c] = crtcFb[c] \/ crtcFb'[c] = NoBo
    BY <1>0, <1>1, ShownAlive
<1>4. pix \in PixType /\ pix[p] = e /\ \A q \in PixIds \ {p} : pix[q] = pixBo[q]
    BY <1>0, <1>2 DEF PixType, BoOrNone, PixIds
<1>5. \A q \in PixIds : pixBo'[q] = pix[q] \/ (q \in Pixmaps /\ pixBo'[q] = NoBo)
    <2>1. PICK v : pixBo' = DropPixmaps(v, cmd, pix)
        BY <1>1
    <2>. HIDE DEF pix
    <2>. QED
        BY <1>4, <2>1, DropEither
<1>. HIDE DEF pix
<1>6. \A c \in Crtcs : crtcFb[c] # e
    <2>1. refcnt[e] = 0 /\ e # NoBo
        BY <1>2 DEF FreeBos, NoBo, Bos
    <2>2. \A c \in Crtcs : crtcFb[c] # NoBo => refcnt[crtcFb[c]] > 0
        BY DEF NotDead
    <2>. QED
        BY <2>1, <2>2
<1>7. /\ pixBo'[Root] = pixBo[Root]
      /\ \A q \in Pixmaps : q # p => pixBo'[q] = pixBo[q] \/ pixBo'[q] = NoBo
      /\ pixBo'[p] = e \/ pixBo'[p] = NoBo
    BY <1>2, <1>4, <1>5, PixIdsFinite
<1>8. win[w] \in WinType /\ win[w].alive
    BY <1>0 DEF TypeInv, WinsType, GetBuffers
<1>9. /\ win'[w].alive /\ win'[w].back = p
      /\ \A v \in Windows \ {w} : win'[v] = win[v]
    BY <1>0, <1>1, <1>8 DEF TypeInv, WinsType, WinType
<1>10. Live' = Live
    BY <1>2 DEF Live
<1>11. \A k \in Live : Answers(k)' => Answers(k)
    BY <1>0, <1>2, <1>8, <1>9, LiveWindow DEF Answers
<1>12. \A k \in Live : cmd[k].src \in Pixmaps /\ cmd[k].src # p
    <2>1. \A k \in Live : k \in CmdIds /\ cmd[k].src \in Pixmaps
        BY <1>0, LiveWindow DEF CmdType
    <2>. QED
        BY <1>2, <2>1 DEF HeldPixmaps
<1>13. Shows'
    <2>1. \A q \in Pixmaps : \/ pixBo'[q] = pixBo[q] \/ pixBo'[q] = NoBo
                             \/ \A c \in Steady : crtcFb[c] # pixBo'[q]
        BY <1>6, <1>7, SteadyType
    <2>. QED
        BY <1>0, <1>2, <1>3, <1>7, <1>10, <1>11, <1>12, <2>1, ShowsKept DEF Still
<1>14. BacksOwned'
    <2>1. \A v \in Windows : win[v].back # p
        BY <1>2 DEF HeldPixmaps
    <2>. QED
        BY <1>2, <1>9, <1>10, <1>12, <2>1 DEF BacksOwned
<1>. QED
    BY <1>13, <1>14

\* CRTCs at the place of the same window are one.
LEMMA OneMatches ==
    ASSUME TypeInv, RectsApart, NEW c \in Active(crtc), NEW d \in Active(crtc),
           crtc[c].rect = crtc[d].rect
    PROVE  c = d
<1>1. crtc[c].rect \in RectChoices
    BY DEF TypeInv, CrtcType, Active
<1>2. crtc[c].rect.x \in Nat /\ crtc[c].rect.w \in Nat /\ crtc[c].rect.w > 0
    BY <1>1, DisplayAssumption DEF Rects
<1>3. crtc[c].rect.x \in Cols(crtc[c].rect)
    BY <1>2 DEF Cols
<1>4. Overlap(crtc[c].rect, crtc[d].rect)
    BY <1>3 DEF Overlap
<1>. QED
    BY <1>4 DEF RectsApart

\* With one CRTC at the place of the window a flip is not refused half way.
LEMMA FlipIsOne ==
    ASSUME TypeInv, RectsApart, NEW w, NEW fb, NEW p \in PageFlip(w, fb), p.flipped # {}
    PROVE  p.ret /\ p.flipped \subseteq Active(crtc)
           /\ \E c \in Active(crtc) : p.flipped = {c} /\ crtc[c].rect = win[w].rect
<1>1. \A c, d \in Matching(w) : c = d
    BY OneMatches DEF Matching, Active
<1>2. Matching(w) \subseteq Crtcs /\ Matching(w) \subseteq Int
    BY CrtcsFinite DEF Matching
<1>3. \/ p = [ret |-> TRUE, flipped |-> Matching(w)]
      \/ \E c \in Matching(w) : p = [ret |-> FALSE, flipped |-> {d \in Matching(w) : d < c}]
    BY DEF PageFlip
<1>4. p = [ret |-> TRUE, flipped |-> Matching(w)]
    <2>1. ASSUME NEW c \in Matching(w), NEW d \in Matching(w), d < c
          PROVE  FALSE
        <3>1. c \in Int /\ d = c
            BY <1>1, <1>2
        <3>. QED
            BY <2>1, <3>1
    <2>2. \A c \in Matching(w) : {d \in Matching(w) : d < c} = {}
        BY <2>1
    <2>. QED
        BY <1>3, <2>2
<1>5. p.ret /\ p.flipped = Matching(w)
    BY <1>4
<1>6. PICK c : c \in Matching(w)
    BY <1>5
<1>7. Matching(w) = {c} /\ c \in Active(crtc) /\ crtc[c].rect = win[w].rect
    BY <1>1, <1>6 DEF Matching, Active
<1>. QED
    BY <1>5, <1>7

-----------------------------------------------------------------------------
(* Steps while nothing is in flight.                                       *)

LEMMA NoneLeft ==
    ASSUME Inv, pending_flips <= 0
    PROVE  Live = {}
<1>1. Cardinality(Live) = 0
    BY LiveFinite DEF Inv, PendingFlipsCounts
<1>. QED
    BY <1>1, LiveFinite, FS_EmptySet

LEMMA WaitedFor ==
    ASSUME Inv, Return
    PROVE  Live = {} /\ Live' = {}
<1>1. WaitOver /\ cmd' = cmd
    BY DEF Return, SwapBlitReturn, SetModeMajorReturn, ScreenInit, RootWriteReturn, flipVars
<1>2. Live = {}
    BY <1>1, NothingPending, NoneLeft
<1>. QED
    BY <1>1, <1>2 DEF Live

\* The CRTCs show what they did, or what a mode switch gives them.
LEMMA SwitchShows ==
    ASSUME TypeInv, TypeInv', Apart', Shows, Still, Live = {}, Live' = {}, scanout' = scanout,
           \A s \in Slots : scanouts'[s].bo = scanouts[s].bo /\ scanouts'[s].rect = scanouts[s].rect,
           \A p \in Pixmaps : pixBo'[p] = pixBo[p],
           NEW fb, \A c \in Crtcs : ShowsOne(fb[c], c),
           NEW rc, NEW width, NEW img, Commit(rc, width, fb, img)
    PROVE  Shows'
<1>1. \A c \in Crtcs : crtcFb'[c] = fb[c] \/ crtcFb'[c] = NoBo
    BY ShownAlive
<1>2. ASSUME NEW c \in Steady'
      PROVE  \/ crtcFb'[c] = NoBo \/ crtcFb'[c] = scanout'
             \/ \E s \in Slots : crtcFb'[c] = scanouts'[s].bo /\ crtc'[c].rect = scanouts'[s].rect
             \/ /\ c \in Steady /\ crtcFb'[c] = crtcFb[c] /\ crtc'[c].rect = crtc[c].rect
                /\ \A s \in Slots : scanouts'[s].bo = crtcFb[c] =>
                      \E t \in Slots : scanouts[t].bo = crtcFb[c] /\ scanouts[t].rect = scanouts'[s].rect
    <2>1. c \in Steady /\ c \in Crtcs /\ crtc'[c].rect = crtc[c].rect
        BY <1>2, SteadyType DEF Still
    <2>2. crtcFb'[c] = fb[c] \/ crtcFb'[c] = NoBo
        BY <1>1, <2>1
    <2>3. ShowsOne(fb[c], c)
        BY <2>1
    <2>4. CASE crtcFb'[c] = fb[c] /\ \E s \in Slots : fb[c] = scanouts[s].bo /\ crtc[c].rect = scanouts[s].rect
        BY <2>1, <2>4
    <2>5. CASE crtcFb'[c] = fb[c] /\ fb[c] = crtcFb[c]
        BY <2>1, <2>5
    <2>. QED
        BY <2>2, <2>3, <2>4, <2>5 DEF ShowsOne
<1>. QED
    BY <1>2, ShowsGrounded DEF Shows

LEMMA SwapsGrounded ==
    ASSUME Shape, Shape', Apart', Shows, Still, Live = {},
           NEW w \in Windows, SwapFlipFallback(w) \/ SwapBlit(w)
    PROVE  Shows'
<1>0. TypeInv /\ TypeInv' /\ pixBo \in PixType
    BY DEF Shape, Inv, TypeInv
<1>1. Live' = {}
    BY DEF SwapFlipFallback, SwapBlit, flipVars, Live
<1>2. CASE SwapFlipFallback(w)
    <2>1. PICK m \in SetFlipMode : BlitToFront(w, refcnt, m)
        BY <1>2 DEF SwapFlipFallback
    <2>2. \A c \in Crtcs : ShowsOne(m.fb[c], c)
        BY <1>0, OutcomeShows
    <2>3. PICK rc, img : Commit(rc, bowidth, m.fb, img)
        BY <2>1 DEF BlitToFront
    <2>4. /\ \A s \in Slots : /\ scanouts'[s].bo = scanouts[s].bo
                              /\ scanouts'[s].rect = scanouts[s].rect
          /\ pixBo' = [pixBo EXCEPT ![Root] = scanout]
        BY <1>0, <2>1, BlitFacts
    <2>5. \A p \in Pixmaps : pixBo'[p] = pixBo[p]
        BY <1>0, <2>4, PixIdsFinite DEF PixType
    <2>6. scanout' = scanout
        BY <1>2 DEF SwapFlipFallback
    <2>. QED
        BY <1>0, <1>1, <2>2, <2>3, <2>4, <2>5, <2>6, SwitchShows
<1>3. CASE SwapBlit(w)
    <2>1. UNCHANGED <<scanout, scanouts, crtcFb>> /\ pixBo' = [pixBo EXCEPT ![Root] = scanout]
        BY <1>3 DEF SwapBlit, omapVars
    <2>2. \A p \in Pixmaps : pixBo'[p] = pixBo[p]
        BY <1>0, <2>1, PixIdsFinite DEF PixType
    <2>. QED
        BY <1>1, <2>1, <2>2, ShowsGrounded DEF Shows, Still
<1>. QED
    BY <1>2, <1>3

LEMMA SwapBlitReturnShows ==
    ASSUME Shape, Shape', Apart', Shows, Still, BlitWorks, SwapBlitReturn
    PROVE  Shows'
<1>0. TypeInv /\ TypeInv' /\ pixBo \in PixType /\ Live = {} /\ Live' = {}
    BY WaitedFor DEF Shape, Inv, TypeInv, Return
<1>1. PICK m, rc : m \in SetBlitMode /\ BlitToFront(call.win, rc, m)
    BY BlitSucceeds DEF SwapBlitReturn
<1>2. \A c \in Crtcs : ShowsOne(m.fb[c], c)
    BY <1>0, <1>1, OutcomeShows
<1>3. PICK rc2, img : Commit(rc2, bowidth, m.fb, img)
    BY <1>1 DEF BlitToFront
<1>4. /\ \A s \in Slots : /\ scanouts'[s].bo = scanouts[s].bo
                          /\ scanouts'[s].rect = scanouts[s].rect
      /\ pixBo' = [pixBo EXCEPT ![Root] = scanout]
    BY <1>0, <1>1, BlitFacts
<1>5. \A p \in Pixmaps : pixBo'[p] = pixBo[p]
    BY <1>0, <1>4, PixIdsFinite DEF PixType
<1>6. scanout' = scanout
    BY DEF SwapBlitReturn
<1>. QED
    BY <1>0, <1>2, <1>3, <1>4, <1>5, <1>6, SwitchShows

LEMMA RootWriteReturnShows ==
    ASSUME Shape, Shape', Apart', Shows, Still, BlitWorks, NEW x \in RootCols, RootWriteReturn(x)
    PROVE  Shows'
<1>0. TypeInv /\ TypeInv' /\ pixBo \in PixType /\ Live = {} /\ Live' = {}
    BY WaitedFor DEF Shape, Inv, TypeInv, Return
<1>1. PICK m \in SetBlitMode :
         /\ scanouts' = m.tab /\ pixBo' = [pixBo EXCEPT ![Root] = scanout]
         /\ \E rc, img : Commit(rc, bowidth, m.fb, img)
    BY BlitSucceeds DEF RootWriteReturn
<1>2. \A c \in Crtcs : ShowsOne(m.fb[c], c)
    BY <1>0, OutcomeShows
<1>3. PICK rc, img : Commit(rc, bowidth, m.fb, img)
    BY <1>1
<1>4. \A s \in Slots : scanouts'[s].bo = scanouts[s].bo /\ scanouts'[s].rect = scanouts[s].rect
    BY <1>0, <1>1, BosKept
<1>5. \A p \in Pixmaps : pixBo'[p] = pixBo[p]
    BY <1>0, <1>1, PixIdsFinite DEF PixType
<1>6. scanout' = scanout
    BY DEF RootWriteReturn
<1>. QED
    BY <1>0, <1>2, <1>3, <1>4, <1>5, <1>6, SwitchShows

\* A resize in blit mode, and the next generation of the server.
LEMMA ResizeShows ==
    ASSUME Shape, Shape', Apart', Shows, Still, Separate, NEW d \in Widths, Resize(d)
    PROVE  Shows'
<1>0. TypeInv /\ TypeInv' /\ pixBo \in PixType /\ Inv
    BY DEF Shape, Inv, TypeInv
<1>1. flip_mode = "DISABLED" /\ UNCHANGED <<scanouts, cmd>>
    BY DEF Resize, Separate, flipVars
<1>2. pending_flips <= 0
    BY <1>0, <1>1 DEF Inv, TypeInv, FlipsOnlyInFlipMode
<1>3. Live = {} /\ Live' = {}
    <2>1. Live = {}
        BY <1>0, <1>2, NoneLeft
    <2>. QED
        BY <1>1, <2>1 DEF Live
<1>4. PICK new, rc, width, img :
         pixBo' = [pixBo EXCEPT ![Root] = new] /\ Commit(rc, width, crtcFb, img)
    BY DEF Resize
<1>5. \A c \in Crtcs : crtcFb'[c] = crtcFb[c] \/ crtcFb'[c] = NoBo
    BY <1>0, <1>4, ShownAlive
<1>6. \A p \in Pixmaps : pixBo'[p] = pixBo[p]
    BY <1>0, <1>4, PixIdsFinite DEF PixType
<1>. QED
    BY <1>1, <1>3, <1>5, <1>6, SteadyType, ShowsGrounded DEF Shows, Still

LEMMA ScreenInitShows ==
    ASSUME Shape, Shape', Apart', Shows, Still, ScreenInit
    PROVE  Shows'
<1>0. TypeInv /\ TypeInv' /\ pixBo \in PixType /\ Live = {} /\ Live' = {}
    BY WaitedFor DEF Shape, Inv, TypeInv, Return
<1>1. PICK new, rc, width, img :
         /\ scanout' = new /\ pixBo' = [pixBo EXCEPT ![Root] = new]
         /\ Commit(rc, width, [c \in Crtcs |-> IF c \in Active(crtc) THEN new ELSE crtcFb[c]], img)
    BY DEF ScreenInit
<1>. DEFINE fb == [c \in Crtcs |-> IF c \in Active(crtc) THEN new ELSE crtcFb[c]]
<1>2. \A c \in Active(crtc) : c \in Crtcs /\ fb[c] = new
    BY DEF Active
<1>3. Commit(rc, width, fb, img)
    BY <1>1
<1>. HIDE DEF fb
<1>4. \A c \in Crtcs : crtcFb'[c] = fb[c] \/ crtcFb'[c] = NoBo
    BY <1>0, <1>3, ShownAlive
<1>5. \A c \in Steady' : crtcFb'[c] = NoBo \/ crtcFb'[c] = scanout'
    BY <1>1, <1>2, <1>4, SteadyType DEF Still
<1>6. \A p \in Pixmaps : pixBo'[p] = pixBo[p]
    BY <1>0, <1>1, PixIdsFinite DEF PixType
<1>. QED
    BY <1>0, <1>5, <1>6, ShowsGrounded DEF Shows

\* A mode set in blit mode changes one CRTC, in flip mode all of them; a slot is
\* as it was or has a bo that nobody shows.
LEMMA SetModeMajorShows ==
    ASSUME Shape, Shape', Defined, Apart', Shows, NotDead, CallCrtc, BlitWorks,
           SetModeMajorReturn, crtc' = crtc
    PROVE  Shows'
<1>0. TypeInv /\ TypeInv' /\ SlotsFilled /\ Live = {} /\ Live' = {}
    BY WaitedFor DEF Shape, Inv, Return
<1>. DEFINE act   == Active(crtc)
            rects == CrtcRects(crtc)
<1>1. /\ scanout' = scanout /\ pixBo' = pixBo /\ call' = Idle
      /\ \E tab \in TableType, n \in Nat :
            /\ \A s \in Slots : tab[s].bo = scanouts[s].bo /\ tab[s].rect = scanouts[s].rect
            /\ Cardinality(Starved(tab, act, rects)) <= Cardinality(FreeBos)
            /\ scanouts' = UpdatedTable(tab, act, rects, FreeBos, n)
    BY SetModeMajorFacts
<1>2. PICK tab \in TableType, n \in Nat :
         /\ \A s \in Slots : tab[s].bo = scanouts[s].bo /\ tab[s].rect = scanouts[s].rect
         /\ Cardinality(Starved(tab, act, rects)) <= Cardinality(FreeBos)
         /\ scanouts' = UpdatedTable(tab, act, rects, FreeBos, n)
    BY <1>1
<1>3. act \in SUBSET Crtcs /\ FreeBos \in SUBSET Bos
    BY <1>0, ActiveType, FreeBosType
<1>4. \A c \in act : rects[c] # NoRect
    BY <1>0, DisplayAssumption DEF Active, CrtcRects, TypeInv, CrtcType, NoRect
<1>5. \A t \in Slots : tab[t].bo = NoBo => tab[t].rect = NoRect
    BY <1>0, <1>2 DEF SlotsFilled
<1>6. PICK m, rc, width, img :
         /\ Commit(rc, width, m.fb, img)
         /\ IF flip_mode = "DISABLED" THEN m.fb = [crtcFb EXCEPT ![call.crtc] = scanout]
            ELSE m.fb = BlitTarget(crtcFb)
    <2>1. PICK m \in (IF flip_mode = "DISABLED" THEN SetOneCrtc(call.crtc) ELSE SetBlitMode) :
             m.ret /\ \E rc, width, img : Commit(rc, width, m.fb, img)
        <3>1. \A c : \A m \in SetOneCrtc(c) : m.ret
            BY DEF SetOneCrtc, Outcome, BlitWorks
        <3>. QED
            BY <3>1, BlitSucceeds DEF SetModeMajorReturn
    <2>2. CASE flip_mode = "DISABLED"
        <3>1. m.fb = [crtcFb EXCEPT ![call.crtc] = scanout]
            BY <2>1, <2>2 DEF SetOneCrtc, Outcome, BlitWorks
        <3>. QED
            BY <2>1, <2>2, <3>1
    <2>3. CASE flip_mode # "DISABLED"
        <3>1. ToBlit.bad = {} /\ ToBlit.ok = BlitTarget(crtcFb)
            BY DEF ToBlit, BlitWorks
        <3>2. m.fb = BlitTarget(crtcFb)
            BY <2>1, <2>3, <3>1 DEF SetBlitMode, Outcome
        <3>. QED
            BY <2>1, <2>3, <3>2
    <2>. QED
        BY <2>2, <2>3
<1>7. \A c \in Crtcs : crtcFb'[c] = m.fb[c] \/ crtcFb'[c] = NoBo
    BY <1>0, <1>6, ShownAlive
<1>8. Steady' \subseteq Crtcs /\ \A c \in Steady' : c \in Active(crtc) /\ (c # call.crtc => c \in Steady)
    BY DEF Steady, Active
<1>. HIDE DEF act, rects
<1>9. ASSUME NEW s \in Slots, NEW c \in Crtcs, crtcFb[c] # NoBo, scanouts'[s].bo = crtcFb[c]
      PROVE  \E t \in Slots : scanouts[t].bo = crtcFb[c] /\ scanouts[t].rect = scanouts'[s].rect
    <2>. DEFINE new == UpdatedTable(tab, act, rects, FreeBos, n)
    <2>1. \/ new[s] = EmptySlot
          \/ new[s].bo \in FreeBos
          \/ \E t \in Slots : tab[t].bo = new[s].bo /\ tab[t].rect = new[s].rect
        BY <1>2, <1>3, <1>4, <1>5, UpdatedSlot
    <2>. HIDE DEF new
    <2>2. new = scanouts'
        BY <1>2 DEF new
    <2>3. new[s].bo \notin FreeBos
        BY <1>9, <2>2 DEF NotDead, FreeBos
    <2>. QED
        BY <1>2, <1>9, <2>1, <2>2, <2>3 DEF EmptySlot
<1>10. ASSUME NEW c \in Steady'
       PROVE  \/ crtcFb'[c] = NoBo \/ crtcFb'[c] = scanout'
              \/ \E s \in Slots : crtcFb'[c] = scanouts'[s].bo /\ crtc'[c].rect = scanouts'[s].rect
              \/ /\ c \in Steady /\ crtcFb'[c] = crtcFb[c] /\ crtc'[c].rect = crtc[c].rect
                 /\ \A s \in Slots : scanouts'[s].bo = crtcFb[c] =>
                      \E t \in Slots : scanouts[t].bo = crtcFb[c] /\ scanouts[t].rect = scanouts'[s].rect
    <2>1. c \in Crtcs /\ c \in Active(crtc) /\ crtcFb \in FbType
        BY <1>0, <1>8 DEF TypeInv
    <2>2. CASE crtcFb'[c] = NoBo
        BY <2>2
    <2>3. CASE crtcFb'[c] # NoBo /\ (flip_mode # "DISABLED" \/ c = call.crtc)
        <3>1. m.fb[c] = scanout
            BY <1>6, <2>1, <2>3 DEF BlitTarget, BlitCrtcs, Active, FbType
        <3>. QED
            BY <1>1, <1>7, <2>1, <2>3, <3>1
    <2>4. CASE crtcFb'[c] # NoBo /\ flip_mode = "DISABLED" /\ c # call.crtc
        <3>1. m.fb[c] = crtcFb[c]
            BY <1>6, <2>1, <2>4 DEF FbType
        <3>2. crtcFb'[c] = crtcFb[c] /\ crtcFb[c] # NoBo /\ c \in Steady
            BY <1>7, <1>8, <2>1, <2>4, <3>1
        <3>. QED
            BY <1>9, <2>1, <3>2
    <2>. QED
        BY <2>2, <2>3, <2>4
<1>11. \A p \in Pixmaps : pixBo'[p] = pixBo[p]
    BY <1>1
<1>. QED
    BY <1>0, <1>10, <1>11, ShowsGrounded DEF Shows

-----------------------------------------------------------------------------
(* The flip of one CRTC.                                                   *)

\* What a swap that flips puts on the CRTCs, and the command it leaves.
LEMMA SwapFlipOutcome ==
    ASSUME Shape, Shape', RectsApart, Still, Live = {}, NEW w \in Windows, SwapFlip(w)
    PROVE  LET back == win[w].back
           IN  /\ Steady' = Active(crtc) /\ Steady = Active(crtc) /\ crtc' = crtc
               /\ win[w].alive /\ back \in Pixmaps /\ pixBo[back] \in Bos
               /\ \A v \in Windows : win'[v].alive = win[v].alive /\ win'[v].back = win[v].back
               /\ \E c0 \in Active(crtc) \cup {0} :
                    /\ \A c \in Active(crtc) :
                          \/ crtcFb'[c] = NoBo
                          \/ c = c0 /\ crtcFb'[c] = pixBo[back]
                          \/ c # c0 /\ ShowsOne(crtcFb'[c], c)
                    /\ \/ c0 = 0 /\ cmd' = cmd
                       \/ /\ c0 \in Active(crtc) /\ crtc[c0].rect = win[w].rect
                          /\ \E k \in CmdIds : /\ Live' = {k} /\ cmd'[k].win = w
                                               /\ cmd'[k].src = back /\ ~cmd'[k].fail
<1>. DEFINE s  == ScanoutFromSize(scanouts, win[w].rect)
            rc == Unreference(Reference(refcnt, scanouts[s].bo), pixBo[Root])
            b  == pixBo[win[w].back]
<1>0. TypeInv /\ TypeInv' /\ cmd \in CmdsType /\ pixBo \in PixType
    BY DEF Shape, Inv, TypeInv
<1>1. crtc' = crtc /\ call' = call /\ call = Idle /\ win[w].alive /\ win[w].back # NoPix
    BY DEF SwapFlip, SwapReady
<1>2. Steady' = Active(crtc) /\ Steady = Active(crtc)
    BY <1>1, SteadyType DEF Steady
<1>3. win[w].back \in Pixmaps /\ b \in Bos
    <2>1. win[w].back \in Pixmaps
        BY <1>0, <1>1 DEF TypeInv, WinsType, WinType
    <2>2. win[w].back \in HeldPixmaps(win, cmd) /\ win[w].back \in PixIds
        BY <2>1 DEF HeldPixmaps, PixIds
    <2>. QED
        BY <1>0, <2>1, <2>2, PixBoType DEF Shape, Backed, BoOrNone
<1>4. PICK m, p :
         /\ m \in SetFlipMode /\ p \in PageFlip(w, Shown(rc, m.fb))
         /\ Commit(rc, bowidth, [c \in Crtcs |-> IF c \in p.flipped THEN b ELSE Shown(rc, m.fb)[c]],
                   m.img)
         /\ \/ p.flipped # {} /\ FlipQueued(w, p)
            \/ p.flipped = {} /\ FlipNotQueued(w)
    BY DEF SwapFlip
<1>. HIDE DEF s, rc, b
<1>5. \A v \in Windows : win'[v].alive = win[v].alive /\ win'[v].back = win[v].back
    <2>1. PICK n : win' = Remember(w, TRUE, n)
        BY <1>4 DEF FlipQueued, FlipNotQueued
    <2>2. \A v \in Windows : win'[v].alive = win[v].alive
        BY <1>0, <2>1, RememberQuiet
    <2>3. \A v \in Windows : win'[v].back = win[v].back
        BY <1>0, <2>1, BackKept
    <2>. QED
        BY <2>2, <2>3
<1>6. ASSUME NEW c \in Crtcs
      PROVE  /\ c \in p.flipped => crtcFb'[c] = NoBo \/ crtcFb'[c] = b
             /\ c \notin p.flipped => crtcFb'[c] = NoBo \/ ShowsOne(crtcFb'[c], c)
    <2>. DEFINE fb == [d \in Crtcs |-> IF d \in p.flipped THEN b ELSE Shown(rc, m.fb)[d]]
    <2>1. fb[c] = IF c \in p.flipped THEN b ELSE Shown(rc, m.fb)[c]
        OBVIOUS
    <2>2. Commit(rc, bowidth, fb, m.img)
        BY <1>4
    <2>. HIDE DEF fb
    <2>3. crtcFb'[c] = fb[c] \/ crtcFb'[c] = NoBo
        BY <1>0, <2>2, ShownAlive
    <2>4. Shown(rc, m.fb)[c] = m.fb[c] \/ Shown(rc, m.fb)[c] = NoBo
        BY DEF Shown
    <2>5. ShowsOne(m.fb[c], c)
        BY <1>0, <1>4, OutcomeShows
    <2>. QED
        BY <2>1, <2>3, <2>4, <2>5
<1>7. CASE p.flipped = {}
    <2>1. cmd' = cmd
        BY <1>4, <1>7 DEF FlipNotQueued, flipVars
    <2>2. \A c \in Active(crtc) : c # 0 /\ (crtcFb'[c] = NoBo \/ ShowsOne(crtcFb'[c], c))
        BY <1>6, <1>7 DEF Active, Crtcs
    <2>. QED
        BY <1>1, <1>2, <1>3, <1>5, <2>1, <2>2 DEF b
<1>8. CASE p.flipped # {}
    <2>1. PICK c0 \in Active(crtc) : p.flipped = {c0} /\ crtc[c0].rect = win[w].rect
        BY <1>0, <1>4, <1>8, FlipIsOne
    <2>2. p.ret
        BY <1>0, <1>4, <1>8, FlipIsOne
    <2>3. \A c \in Active(crtc) : \/ crtcFb'[c] = NoBo
                                  \/ c = c0 /\ crtcFb'[c] = b
                                  \/ c # c0 /\ ShowsOne(crtcFb'[c], c)
        BY <1>6, <2>1 DEF Active
    <2>4. PICK k \in Nth(CmdIds \ Live, 1) : cmd' = [cmd EXCEPT ![k] = NewCmd(w, p)]
        BY <1>4, <1>8 DEF FlipQueued
    <2>5. k \in CmdIds
        BY DEF Nth
    <2>6. cmd'[k] = NewCmd(w, p) /\ \A j \in CmdIds \ {k} : cmd'[j] = cmd[j]
        BY <1>0, <2>4, <2>5 DEF CmdsType
    <2>7. cmd'[k].win = w /\ cmd'[k].src = win[w].back /\ cmd'[k].fail = ~p.ret
        BY <2>6 DEF NewCmd
    <2>8. cmd'[k] # FreeCmd
        BY <2>7, NoCmdIsNone DEF FreeCmd
    <2>9. Live' = {k}
        BY <2>5, <2>6, <2>8 DEF Live
    <2>. QED
        BY <1>1, <1>2, <1>3, <1>5, <2>1, <2>2, <2>3, <2>5, <2>7, <2>9 DEF b
<1>. QED
    BY <1>7, <1>8

LEMMA SwapFlipShows ==
    ASSUME Shape, Shape', Apart, Apart', Shows, BacksOwned, RectsApart, Still, Live = {},
           NEW w \in Windows, SwapFlip(w)
    PROVE  Shows' /\ BacksOwned'
<1>. DEFINE s    == ScanoutFromSize(scanouts, win[w].rect)
            back == win[w].back
<1>0. TypeInv /\ TypeInv' /\ pixBo \in PixType
    BY DEF Shape, Inv, TypeInv
<1>1. /\ s \in Slots /\ scanouts[s].bo \in Bos
      /\ pixBo' = [pixBo EXCEPT ![Root] = scanouts[s].bo]
      /\ scanout' = scanout
      /\ \A t \in Slots : scanouts'[t].bo = scanouts[t].bo /\ scanouts'[t].rect = scanouts[t].rect
    BY SwapFlipFacts
<1>2. scanouts[s].rect = win[w].rect
    BY SwapFlipBo DEF SwapFlip
<1>3. pixBo'[Root] = scanouts[s].bo /\ \A p \in Pixmaps : pixBo'[p] = pixBo[p]
    BY <1>0, <1>1, PixIdsFinite DEF PixType
<1>4. /\ Steady' = Active(crtc) /\ Steady = Active(crtc) /\ crtc' = crtc
      /\ win[w].alive /\ back \in Pixmaps /\ pixBo[back] \in Bos
      /\ \A v \in Windows : win'[v].alive = win[v].alive /\ win'[v].back = win[v].back
    BY SwapFlipOutcome
<1>5. PICK c0 \in Active(crtc) \cup {0} :
         /\ \A c \in Active(crtc) :
               \/ crtcFb'[c] = NoBo
               \/ c = c0 /\ crtcFb'[c] = pixBo[back]
               \/ c # c0 /\ ShowsOne(crtcFb'[c], c)
         /\ \/ c0 = 0 /\ cmd' = cmd
            \/ /\ c0 \in Active(crtc) /\ crtc[c0].rect = win[w].rect
               /\ \E k \in CmdIds : /\ Live' = {k} /\ cmd'[k].win = w
                                    /\ cmd'[k].src = back /\ ~cmd'[k].fail
    BY SwapFlipOutcome
<1>. HIDE DEF s, back
<1>6. pixBo[back] # NoBo /\ NoBo \notin Bos /\ back # NoPix /\ 0 \notin Active(crtc)
    BY <1>4 DEF NoBo, Bos, NoPix, Pixmaps, Active, Crtcs
<1>7. /\ \A p \in Pixmaps : pixBo[p] # NoBo =>
             /\ pixBo[p] # scanout
             /\ \A t \in Slots : scanouts[t].bo # pixBo[p]
             /\ \A q \in Pixmaps : pixBo[q] = pixBo[p] => q = p
      /\ \A t, r \in Slots : scanouts[t].bo # NoBo =>
             scanouts[t].bo # scanout /\ (scanouts[r].bo = scanouts[t].bo => t = r)
    BY DEF Apart, SlotsApart, BacksApart
<1>8. ASSUME NEW c \in Active(crtc), crtcFb'[c] # NoBo, c # c0
      PROVE  /\ \A p \in Pixmaps : crtcFb'[c] # pixBo[p]
             /\ \A t \in Slots : crtcFb'[c] = scanouts[t].bo => crtc[c].rect = scanouts[t].rect
    <2>1. ShowsOne(crtcFb'[c], c)
        BY <1>5, <1>8
    <2>2. /\ \A p \in Pixmaps : crtcFb[c] # NoBo => crtcFb[c] # pixBo[p]
          /\ \A t \in Slots : crtcFb[c] # NoBo /\ crtcFb[c] = scanouts[t].bo
                                => crtc[c].rect = scanouts[t].rect
        BY <1>4 DEF Shows, OffScreen, Facing
    <2>. QED
        BY <1>7, <1>8, <2>1, <2>2 DEF ShowsOne
<1>9. ASSUME NEW c \in Active(crtc), crtcFb'[c] # NoBo, c = c0
      PROVE  crtcFb'[c] = pixBo[back] /\ \A t \in Slots : crtcFb'[c] # scanouts[t].bo
    BY <1>4, <1>5, <1>6, <1>7, <1>9
<1>10. CASE c0 = 0
    <2>1. cmd' = cmd /\ Live' = {}
        BY <1>5, <1>6, <1>10 DEF Live
    <2>2. OffScreen'
        BY <1>3, <1>4, <1>6, <1>8, <1>10 DEF OffScreen
    <2>3. Facing'
        <3>1. ASSUME NEW c \in Active(crtc), NEW t \in Slots, crtcFb'[c] # NoBo,
                     crtcFb'[c] = scanouts[t].bo
              PROVE  crtc[c].rect = scanouts[t].rect
            BY <1>6, <1>8, <1>10, <3>1
        <3>. QED
            BY <1>1, <1>4, <3>1 DEF Facing
    <2>4. Flight'
        BY <2>1 DEF Flight
    <2>5. BacksOwned'
        BY <1>0, <1>4, <2>1, BacksKept
    <2>. QED
        BY <2>2, <2>3, <2>4, <2>5 DEF Shows
<1>11. CASE c0 # 0
    <2>1. c0 \in Active(crtc) /\ crtc[c0].rect = win[w].rect
        BY <1>5, <1>11
    <2>2. PICK k \in CmdIds : /\ Live' = {k} /\ cmd'[k].win = w
                              /\ cmd'[k].src = back /\ ~cmd'[k].fail
        BY <1>5, <1>11
    <2>3. OffScreen'
        <3>1. ASSUME NEW c \in Active(crtc), NEW p \in Pixmaps, crtcFb'[c] # NoBo, crtcFb'[c] = pixBo[p]
              PROVE  p = back
            BY <1>4, <1>6, <1>7, <1>8, <1>9, <3>1
        <3>. QED
            BY <1>3, <1>4, <2>2, <3>1 DEF OffScreen
    <2>4. ASSUME NEW c \in Active(crtc), NEW t \in Slots, crtcFb'[c] # NoBo, crtcFb'[c] = scanouts[t].bo
          PROVE  c # c0 /\ crtc[c].rect = scanouts[t].rect
        BY <1>8, <1>9, <2>4
    <2>5. Facing'
        BY <1>1, <1>4, <2>4 DEF Facing
    <2>6. ASSUME NEW c \in Active(crtc)
          PROVE  /\ crtcFb'[c] # scanouts[s].bo
                 /\ crtcFb'[c] = pixBo[back] => c = c0
        <3>1. crtcFb'[c] # scanouts[s].bo
            <4>1. SUFFICES ASSUME crtcFb'[c] = scanouts[s].bo
                           PROVE  FALSE
                OBVIOUS
            <4>2. c # c0 /\ crtc[c].rect = scanouts[s].rect
                BY <1>1, <1>6, <2>4, <4>1
            <4>. QED
                BY <1>0, <1>2, <2>1, <4>2, OneMatches
        <3>2. crtcFb'[c] = pixBo[back] => c = c0
            BY <1>4, <1>6, <1>8
        <3>. QED
            BY <3>1, <3>2
    <2>7. \A t \in Slots : scanouts[t].bo = scanouts[s].bo => t = s
        BY <1>1, <1>6, <1>7
    <2>8. Flight'
        <3>1. ASSUME NEW c \in Active(crtc)
              PROVE  /\ crtcFb'[c] # pixBo'[Root]
                     /\ crtcFb'[c] = pixBo'[back] =>
                          \A t \in Slots : scanouts'[t].bo = pixBo'[Root] => crtc'[c].rect = scanouts'[t].rect
            BY <1>1, <1>2, <1>3, <1>4, <2>1, <2>6, <2>7
        <3>. QED
            BY <1>4, <2>2, <3>1 DEF Flight
    <2>9. BacksOwned'
        <3>1. \A v \in Windows : win'[v].back = back => v = w
            BY <1>4, <1>6 DEF BacksOwned, back
        <3>. QED
            BY <1>4, <2>2, <3>1 DEF BacksOwned
    <2>. QED
        BY <2>3, <2>5, <2>8, <2>9 DEF Shows
<1>. QED
    BY <1>10, <1>11

-----------------------------------------------------------------------------
(* The events of the flip under way.                                       *)

LEMMA EventCounted ==
    ASSUME TypeInv, NEW k \in Live, cmd' = [cmd EXCEPT ![k].swapCount = @ - 1], win' = win
    PROVE  /\ Live' = Live
           /\ \A j \in Live : /\ cmd'[j].src = cmd[j].src /\ cmd'[j].win = cmd[j].win
                              /\ cmd'[j].fail = cmd[j].fail /\ (Answers(j)' => Answers(j))
<1>1. k \in CmdIds /\ cmd[k] \in CmdType /\ cmd \in CmdsType
    BY LiveWindow DEF TypeInv
<1>2. /\ cmd'[k] = [cmd[k] EXCEPT !.swapCount = @ - 1]
      /\ \A j \in CmdIds \ {k} : cmd'[j] = cmd[j]
    BY <1>1 DEF CmdsType
<1>3. /\ cmd'[k].src = cmd[k].src /\ cmd'[k].win = cmd[k].win /\ cmd'[k].fail = cmd[k].fail
      /\ cmd'[k].win \in Windows
    BY <1>1, <1>2 DEF CmdType
<1>4. cmd'[k] # FreeCmd
    BY <1>3, NoCmdIsNone DEF FreeCmd
<1>5. Live' = Live
    BY <1>1, <1>2, <1>4 DEF Live
<1>6. \A j \in Live : j \in CmdIds
    BY DEF Live
<1>. QED
    BY <1>2, <1>3, <1>5, <1>6 DEF Answers

\* The flip that completes is the only one.
LEMMA LastFlip ==
    ASSUME Inv, OneFlip, NEW k \in Live, cmd' = [cmd EXCEPT ![k] = FreeCmd]
    PROVE  Live = {k} /\ Live' = {} /\ \A j \in CmdIds : cmd'[j] = FreeCmd
<1>0. cmd \in CmdsType /\ k \in CmdIds
    BY DEF Inv, TypeInv, Live
<1>1. Cardinality(Live) <= 1 /\ IsFiniteSet(Live) /\ Cardinality(Live) \in Nat
    BY LiveFinite DEF OneFlip, Inv, PendingFlipsCounts
<1>2. Cardinality(Live \ {k}) = Cardinality(Live) - 1
    BY <1>1, FS_RemoveElement
<1>3. IsFiniteSet(Live \ {k}) /\ Cardinality(Live \ {k}) \in Nat
    BY <1>1, FS_Subset, FS_CardinalityType
<1>4. Live \ {k} = {}
    BY <1>1, <1>2, <1>3, FS_EmptySet
<1>5. \A j \in CmdIds : cmd'[j] = FreeCmd
    <2>1. \A j \in CmdIds \ {k} : cmd[j] = FreeCmd
        BY <1>4 DEF Live
    <2>. QED
        BY <1>0, <2>1 DEF CmdsType
<1>. QED
    BY <1>4, <1>5 DEF Live

LEMMA CompleteFlipShows ==
    ASSUME Shape, Shape', Apart, InFlight, OneFlip, Shows, BacksOwned, Still, scanout' = scanout,
           NEW k \in Live, Answers(k), CompleteFlip(k)
    PROVE  Shows' /\ BacksOwned'
<1>. DEFINE src == cmd[k].src
            new == pixBo[src]
<1>0. TypeInv /\ TypeInv' /\ Inv /\ pixBo \in PixType
    BY DEF Shape, Inv, TypeInv
<1>1. cmd' = [cmd EXCEPT ![k] = FreeCmd] /\ win' = [win EXCEPT ![cmd[k].win].pending = 0]
    BY DEF CompleteFlip, CompleteCmd
<1>2. Live = {k} /\ Live' = {}
    BY <1>0, <1>1, LastFlip
<1>3. PICK rc, img : Commit(rc, bowidth, crtcFb, img)
    BY DEF CompleteFlip, CompleteCmd
<1>4. \A c \in Crtcs : crtcFb'[c] = crtcFb[c] \/ crtcFb'[c] = NoBo
    BY <1>0, <1>3, ShownAlive
<1>5. /\ src \in Pixmaps /\ new \in Bos
      /\ Target(k) \in Slots /\ scanouts[Target(k)].bo = pixBo[Root]
      /\ \A s \in Slots :
           /\ scanouts'[s].bo = IF s = Target(k) THEN new ELSE scanouts[s].bo
           /\ scanouts'[s].rect = scanouts[s].rect
    BY CompleteFlipFacts
<1>6. PICK d : pixBo' = DropPixmaps(win, d, Exchanged(pixBo, src))
    BY CompleteFlipFacts
<1>. HIDE DEF src, new
<1>7. ASSUME NEW p \in Pixmaps
      PROVE  \/ pixBo'[p] = NoBo
             \/ p = src /\ pixBo'[p] = pixBo[Root]
             \/ p # src /\ pixBo'[p] = pixBo[p]
    <2>. DEFINE pix == Exchanged(pixBo, src)
    <2>1. src \in PixIds /\ src # Root /\ p \in PixIds /\ p # Root
        BY <1>5, PixIdsFinite
    <2>2. pix \in PixType /\ pix[p] = IF p = src THEN pixBo[Root] ELSE pixBo[p]
        BY <1>0, <2>1, PixBoType, PixIdsFinite DEF Exchanged, PixType, BoOrNone, PixIds
    <2>. HIDE DEF pix
    <2>3. pixBo' = DropPixmaps(win, d, pix)
        BY <1>6 DEF pix
    <2>4. pixBo'[p] = pix[p] \/ pixBo'[p] = NoBo
        BY <2>1, <2>2, <2>3, DropEither
    <2>. QED
        BY <2>2, <2>4
<1>8. \A c \in Steady' : /\ c \in Steady /\ c \in Crtcs
                         /\ crtc'[c].rect = crtc[c].rect
                         /\ crtcFb'[c] = crtcFb[c] \/ crtcFb'[c] = NoBo
    BY <1>4, SteadyType DEF Still
<1>9. \A c \in Steady : /\ crtcFb[c] # pixBo[Root]
                        /\ crtcFb[c] = new =>
                             \A s \in Slots : scanouts[s].bo = pixBo[Root] => crtc[c].rect = scanouts[s].rect
    BY <1>2 DEF Shows, Flight, new, src
<1>10. OffScreen'
    <2>1. ASSUME NEW c \in Steady', NEW p \in Pixmaps, crtcFb'[c] # NoBo, crtcFb'[c] = pixBo'[p]
          PROVE  FALSE
        <3>1. c \in Steady /\ crtcFb'[c] = crtcFb[c]
            BY <1>8, <2>1
        <3>2. p # src /\ crtcFb[c] = pixBo[p]
            BY <1>7, <1>9, <2>1, <3>1
        <3>3. \E j \in Live : cmd[j].src = p
            BY <2>1, <3>1, <3>2 DEF Shows, OffScreen
        <3>. QED
            BY <1>2, <3>2, <3>3 DEF src
    <2>. QED
        BY <2>1 DEF OffScreen
<1>11. Facing'
    <2>1. ASSUME NEW c \in Steady', NEW s \in Slots, crtcFb'[c] # NoBo, crtcFb'[c] = scanouts'[s].bo
          PROVE  crtc'[c].rect = scanouts'[s].rect
        <3>1. c \in Steady /\ crtcFb'[c] = crtcFb[c] /\ crtc'[c].rect = crtc[c].rect
            BY <1>8, <2>1
        <3>2. CASE s = Target(k)
            BY <1>5, <1>9, <2>1, <3>1, <3>2
        <3>3. CASE s # Target(k)
            BY <1>5, <2>1, <3>1, <3>3 DEF Shows, Facing
        <3>. QED
            BY <3>2, <3>3
    <2>. QED
        BY <2>1 DEF Facing
<1>12. Flight'
    BY <1>2 DEF Flight
<1>13. BacksOwned'
    <2>1. \A v \in Windows : win'[v].back = win[v].back /\ win'[v].alive = win[v].alive
        BY <1>0, <1>1 DEF TypeInv, WinsType, WinType
    <2>. QED
        BY <1>0, <1>2, <2>1, BacksKept
<1>. QED
    BY <1>10, <1>11, <1>12, <1>13 DEF Shows

\* The window of the flip is gone, and with the command its back buffer goes too.
LEMMA DropFlipShows ==
    ASSUME Shape, Shape', OneFlip, Shows, BacksOwned, Still, scanout' = scanout,
           NEW k \in Live, ~Answers(k), DropFlip(k)
    PROVE  Shows' /\ BacksOwned'
<1>. DEFINE src == cmd[k].src
<1>0. TypeInv /\ TypeInv' /\ Inv /\ pixBo \in PixType
    BY DEF Shape, Inv, TypeInv
<1>1. /\ cmd' = [cmd EXCEPT ![k] = FreeCmd] /\ UNCHANGED <<scanouts, win>>
      /\ pixBo' = DropPixmaps(win', cmd', pixBo)
      /\ \E rc, img : Commit(rc, bowidth, crtcFb, img)
    BY DEF DropFlip, CompleteCmd
<1>2. Live = {k} /\ Live' = {} /\ \A j \in CmdIds : cmd'[j] = FreeCmd
    BY <1>0, <1>1, LastFlip
<1>3. PICK rc, img : Commit(rc, bowidth, crtcFb, img)
    BY <1>1
<1>4. \A c \in Crtcs : crtcFb'[c] = crtcFb[c] \/ crtcFb'[c] = NoBo
    BY <1>0, <1>3, ShownAlive
<1>5. \A p \in Pixmaps : pixBo'[p] = pixBo[p] \/ pixBo'[p] = NoBo
    BY <1>0, <1>1, DropEither, PixIdsFinite
<1>6. src \in Pixmaps /\ NoPix \notin Pixmaps
    <2>1. cmd[k] \in CmdType
        BY <1>0, LiveWindow
    <2>. QED
        BY <2>1 DEF CmdType, NoPix, Pixmaps
<1>7. src \notin HeldPixmaps(win', cmd')
    <2>1. \A v \in Windows : win[v].back = src => v = cmd[k].win
        BY DEF BacksOwned
    <2>2. ~win[cmd[k].win].alive
        BY DEF Answers, BacksOwned
    <2>3. \A v \in Windows : win'[v].back # src
        BY <1>1, <1>6, <2>1, <2>2 DEF BacksOwned
    <2>4. \A j \in CmdIds : cmd'[j].src # src
        BY <1>2, <1>6 DEF FreeCmd
    <2>. QED
        BY <2>3, <2>4 DEF HeldPixmaps
<1>8. pixBo'[src] = NoBo
    BY <1>0, <1>1, <1>6, <1>7, DropCollects
<1>. HIDE DEF src
<1>9. \A c \in Steady' : /\ c \in Steady /\ c \in Crtcs
                         /\ crtc'[c].rect = crtc[c].rect
                         /\ crtcFb'[c] = crtcFb[c] \/ crtcFb'[c] = NoBo
    BY <1>4, SteadyType DEF Still
<1>10. OffScreen'
    <2>1. ASSUME NEW c \in Steady', NEW p \in Pixmaps, crtcFb'[c] # NoBo, crtcFb'[c] = pixBo'[p]
          PROVE  FALSE
        <3>1. c \in Steady /\ crtcFb'[c] = crtcFb[c] /\ pixBo'[p] = pixBo[p]
            BY <1>5, <1>9, <2>1
        <3>2. \E j \in Live : cmd[j].src = p
            BY <2>1, <3>1 DEF Shows, OffScreen
        <3>. QED
            BY <1>2, <1>8, <2>1, <3>2 DEF src
    <2>. QED
        BY <2>1 DEF OffScreen
<1>11. Facing'
    <2>1. ASSUME NEW c \in Steady', NEW s \in Slots, crtcFb'[c] # NoBo, crtcFb'[c] = scanouts'[s].bo
          PROVE  crtc'[c].rect = scanouts'[s].rect
        <3>1. c \in Steady /\ crtcFb'[c] = crtcFb[c] /\ crtc'[c].rect = crtc[c].rect
            BY <1>9, <2>1
        <3>. QED
            BY <1>1, <2>1, <3>1 DEF Shows, Facing
    <2>. QED
        BY <2>1 DEF Facing
<1>12. Flight'
    BY <1>2 DEF Flight
<1>13. BacksOwned'
    BY <1>0, <1>1, <1>2, BacksKept
<1>. QED
    BY <1>10, <1>11, <1>12, <1>13 DEF Shows

LEMMA HandleEventShows ==
    ASSUME Shape, Shape', Apart, InFlight, OneFlip, Shows, BacksOwned, Still, HandleEvent
    PROVE  Shows' /\ BacksOwned'
<1>. DEFINE k == Head(events)[2]
<1>0. TypeInv /\ Inv
    BY DEF Shape, Inv
<1>1. k \in Live /\ scanout' = scanout
    BY <1>0, HandledCommand
<1>2. \/ /\ cmd' = [cmd EXCEPT ![k].swapCount = @ - 1]
         /\ UNCHANGED <<scanouts, boVars, pixBo, win>>
      \/ Answers(k) /\ CompleteFlip(k)
      \/ ~Answers(k) /\ DropFlip(k)
    BY DEF HandleEvent
<1>. HIDE DEF k
<1>3. CASE /\ cmd' = [cmd EXCEPT ![k].swapCount = @ - 1]
           /\ UNCHANGED <<scanouts, boVars, pixBo, win>>
    <2>1. /\ Live' = Live
          /\ \A j \in Live : /\ cmd'[j].src = cmd[j].src /\ cmd'[j].win = cmd[j].win
                             /\ cmd'[j].fail = cmd[j].fail /\ (Answers(j)' => Answers(j))
        BY <1>0, <1>1, <1>3, EventCounted
    <2>2. UNCHANGED <<scanouts, crtcFb, pixBo, win>>
        BY <1>3 DEF boVars
    <2>3. Shows'
        BY <1>0, <2>1, <2>2, ShowsKept DEF Still
    <2>4. BacksOwned'
        BY <1>0, <2>1, <2>2, BacksKept
    <2>. QED
        BY <2>3, <2>4
<1>4. CASE Answers(k) /\ CompleteFlip(k)
    BY <1>1, <1>4, CompleteFlipShows
<1>5. CASE ~Answers(k) /\ DropFlip(k)
    BY <1>1, <1>5, DropFlipShows
<1>. QED
    BY <1>2, <1>3, <1>4, <1>5

\* The other steps give no window a back pixmap, and no command a source.
LEMMA OthersBacks ==
    ASSUME TypeInv, BacksOwned,
           \/ \E w \in Windows : SwapFlipFallback(w) \/ SwapBlit(w)
           \/ \E d \in Widths : Resize(d)
           \/ Return
    PROVE  BacksOwned'
<1>1. cmd' = cmd
    BY DEF SwapFlipFallback, SwapBlit, Resize, Return, SwapBlitReturn, SetModeMajorReturn,
           ScreenInit, RootWriteReturn, flipVars
<1>2. /\ \A w \in Windows : win'[w].back = win[w].back
      /\ \A w \in Windows : ~win'[w].alive => ~win[w].alive
    <2>1. ASSUME NEW w, NEW flip, NEW pending, win' = Remember(w, flip, pending)
          PROVE  /\ \A v \in Windows : win'[v].back = win[v].back
                 /\ \A v \in Windows : ~win'[v].alive => ~win[v].alive
        <3>1. \A v \in Windows : win'[v].back = win[v].back
            BY <2>1, BackKept
        <3>2. \A v \in Windows : win'[v].alive = win[v].alive
            BY <2>1, RememberQuiet
        <3>. QED
            BY <3>1, <3>2
    <2>2. ASSUME NEW w \in Windows, SwapFlipFallback(w)
          PROVE  win' = Remember(w, FALSE, 0)
        BY <2>2 DEF SwapFlipFallback
    <2>3. SwapBlitReturn => win' = win \/ win' = Remember(call.win, call.canflip, 0)
        BY DEF SwapBlitReturn
    <2>4. ScreenInit => /\ \A v \in Windows : win'[v].back = win[v].back
                        /\ \A v \in Windows : ~win'[v].alive => ~win[v].alive
        BY DEF ScreenInit, TypeInv, WinsType, WinType
    <2>5. \/ win' = win
          \/ \E w \in Windows : SwapFlipFallback(w)
          \/ SwapBlitReturn \/ ScreenInit
        BY DEF SwapBlit, Resize, Return, SetModeMajorReturn, RootWriteReturn
    <2>. QED
        BY <2>1, <2>2, <2>3, <2>4, <2>5
<1>3. Live' = Live
    BY <1>1 DEF Live
<1>. QED
    BY <1>1, <1>2, <1>3, BacksKept

LEMMA StepShows ==
    ASSUME Shape, Shape', Apart, Apart', InFlight, OneFlip, RectsApart, CallCrtc, NotDead,
           Shows, BacksOwned, BlitWorks, Separate, Uncloned, Next
    PROVE  Shows' /\ BacksOwned'
<1>0. TypeInv /\ TypeInv' /\ Inv /\ Defined
    BY DEF Shape, Inv, Next
<1>1. CASE SetModeMajorReturn
    <2>1. crtc' = crtc
        BY <1>0, <1>1, SetModeMajorCrtcs
    <2>. QED
        BY <1>0, <1>1, <2>1, SetModeMajorShows, OthersBacks DEF Return
<1>2. CASE ~SetModeMajorReturn
    <2>1. Still
        BY <1>0, <1>2, SteadyKept DEF Still
    <2>2. ASSUME QuietAction
          PROVE  Shows' /\ BacksOwned'
        BY <1>0, <2>1, <2>2, QuietShows, QuietBacks
    <2>3. ASSUME NEW w \in Windows, Client(w)
          PROVE  Shows' /\ BacksOwned'
        BY <1>0, <2>1, <2>2, <2>3, GetBuffersShows, DestroyShows DEF Client, QuietAction
    <2>4. ASSUME NEW w \in Windows, Swap(w)
          PROVE  Shows' /\ BacksOwned'
        <3>1. pending_flips = 0
            BY <2>4 DEF Swap, SwapFlip, SwapFlipFallback, SwapBlit, SwapReady, Separate
        <3>2. Live = {}
            BY <1>0, <3>1, NoneLive
        <3>3. CASE SwapFlip(w)
            BY <2>1, <3>2, <3>3, SwapFlipShows
        <3>4. CASE SwapFlipFallback(w) \/ SwapBlit(w)
            BY <1>0, <2>1, <3>2, <3>4, SwapsGrounded, OthersBacks
        <3>. QED
            BY <2>4, <3>3, <3>4 DEF Swap
    <2>5. ASSUME Access
          PROVE  Shows' /\ BacksOwned'
        BY <2>2, <2>5 DEF QuietAction
    <2>6. ASSUME Config
          PROVE  Shows' /\ BacksOwned'
        <3>1. ASSUME NEW d \in Widths, Resize(d)
              PROVE  Shows' /\ BacksOwned'
            BY <1>0, <2>1, <3>1, ResizeShows, OthersBacks
        <3>2. CloseScreen => Shows' /\ BacksOwned'
            BY <1>0, <2>1, DestroyShows
        <3>. QED
            BY <2>2, <2>6, <3>1, <3>2 DEF Config, QuietAction
    <2>7. ASSUME Return
          PROVE  Shows' /\ BacksOwned'
        <3>1. BacksOwned'
            BY <1>0, <2>7, OthersBacks
        <3>2. Shows'
            BY <1>2, <2>1, <2>7, SwapBlitReturnShows, RootWriteReturnShows, ScreenInitShows DEF Return
        <3>. QED
            BY <3>1, <3>2
    <2>8. ASSUME HandleEvent
          PROVE  Shows' /\ BacksOwned'
        BY <2>1, <2>8, HandleEventShows
    <2>9. ASSUME NEW c \in Crtcs, KernelFlip(c)
          PROVE  Shows' /\ BacksOwned'
        BY <2>2, <2>9 DEF QuietAction
    <2>. QED
        BY <2>3, <2>4, <2>5, <2>6, <2>7, <2>8, <2>9 DEF Next
<1>. QED
    BY <1>1, <1>2

-----------------------------------------------------------------------------
\* The bos that the CRTCs show, besides those that the driver holds.
ScreenInv == /\ FlightInv /\ PendingIsOwed
             /\ CallCrtc /\ RectsApart /\ NotDead /\ Shows /\ BacksOwned

LEMMA InitScreen == ASSUME Uncloned PROVE Init => ScreenInv
<1>. SUFFICES ASSUME Init
              PROVE  ScreenInv
    OBVIOUS
<1>1. FlightInv /\ PendingIsOwed /\ Apart /\ TypeInv /\ Defined
    BY InitFlight, ContractInit, RefsDefined DEF FlightInv, FrontInv, Shape, Inv
<1>2. /\ call = Idle /\ scanout = 1 /\ Live = {}
      /\ \A c \in Crtcs : crtcFb[c] = 1 /\ crtc[c].rect = InitRect[c]
      /\ \A w \in Windows : win[w].back = NoPix /\ win[w].alive
      /\ \A p \in Pixmaps : pixBo[p] = NoBo
    BY PixIdsFinite DEF Init, InitWindow, Live
<1>3. CallCrtc /\ RectsApart
    BY <1>2 DEF CallCrtc, Idle, RectsApart, Active, Uncloned
<1>4. NotDead
    <2>1. 1 \in Bos /\ refcnt[1] > 0
        BY <1>1, <1>2, HeldIsReferenced DEF TypeInv
    <2>. QED
        BY <1>2, <2>1 DEF NotDead
<1>5. OffScreen /\ Flight
    BY <1>2 DEF OffScreen, Flight
<1>6. Facing
    BY <1>1, <1>2, SteadyType DEF Facing, Apart, SlotsApart
<1>7. BacksOwned
    BY <1>2 DEF BacksOwned
<1>. QED
    BY <1>1, <1>3, <1>4, <1>5, <1>6, <1>7 DEF ScreenInv, Shows

LEMMA ScreenStep ==
    ASSUME BlitWorks, Separate, Uncloned
    PROVE  ScreenInv /\ [Next]_vars => ScreenInv'
<1>. SUFFICES ASSUME ScreenInv, [Next]_vars
              PROVE  ScreenInv'
    OBVIOUS
<1>1. /\ FlightInv /\ PendingIsOwed /\ CallCrtc /\ RectsApart /\ NotDead /\ Shows /\ BacksOwned
      /\ Shape /\ Apart /\ InFlight /\ OneFlip /\ Inv /\ TypeInv
    BY DEF ScreenInv, FlightInv, FrontInv, Shape, Inv
<1>2. FlightInv'
    BY <1>1, FlightStep
<1>3. Shape' /\ Apart' /\ TypeInv'
    BY <1>2 DEF FlightInv, FrontInv, Shape, Inv
<1>4. PendingIsOwed'
    BY <1>1, ContractStep DEF SwapInv
<1>5. CASE Next
    <2>1. CallCrtc'
        BY <1>1, <1>5, StepCallCrtc
    <2>2. RectsApart'
        BY <1>1, <1>5, StepRects
    <2>3. NotDead'
        BY <1>1, <1>3, <1>5, StepNotDead
    <2>4. Shows' /\ BacksOwned'
        BY <1>1, <1>3, <1>5, StepShows
    <2>. QED
        BY <1>2, <1>4, <2>1, <2>2, <2>3, <2>4 DEF ScreenInv
<1>6. CASE UNCHANGED vars
    <2>1. UNCHANGED <<scanout, scanouts, refcnt, pixBo, cmd, win, crtc, crtcFb, call>>
        BY <1>6 DEF vars, omapVars, flipVars, boVars
    <2>2. CallCrtc' /\ RectsApart' /\ NotDead'
        BY <1>1, <2>1 DEF CallCrtc, RectsApart, NotDead
    <2>3. Live' = Live /\ Steady' = Steady /\ \A k \in Live : Answers(k)' => Answers(k)
        BY <2>1 DEF Live, Steady, Answers
    <2>4. Shows'
        BY <1>1, <1>3, <2>1, <2>3, ShowsKept
    <2>5. BacksOwned'
        BY <1>1, <2>1, <2>3, BacksKept
    <2>. QED
        BY <1>2, <1>4, <2>2, <2>4, <2>5 DEF ScreenInv
<1>. QED
    BY <1>5, <1>6

\* A client that may draw its next frame draws where nobody looks: the back buffer
\* of a window that waits for no swap is neither the root bo nor that of a slot, and
\* on no enabled CRTC.  So it is through flips, mode switches, mode sets and resizes in
\* blit mode, and flips refused by one of the CRTCs, where swaps take turns, no resize
\* comes in flip mode, no CRTCs are clones, and the ways back to blit mode and the
\* allocation of slots do not fail.
THEOREM BackStaysOffScreen ==
    ASSUME BlitWorks, Separate, Uncloned
    PROVE  Spec => []BackBufferOffScreen
<1>1. ScreenInv => BackBufferOffScreen
    <2>. SUFFICES ASSUME ScreenInv, NEW w \in Windows,
                         win[w].alive, win[w].back # NoPix, win[w].pending = 0, call = Idle
                  PROVE  LET b == pixBo[win[w].back]
                         IN  /\ b # scanout
                             /\ \A s \in Slots : scanouts[s].bo # b
                             /\ \A c \in Active(crtc) : crtcFb[c] # b
        BY DEF BackBufferOffScreen
    <2>. DEFINE back == win[w].back
    <2>1. TypeInv /\ Apart /\ Backed
        BY DEF ScreenInv, FlightInv, FrontInv, Shape, Inv
    <2>2. back \in Pixmaps /\ pixBo[back] # NoBo
        <3>1. back \in Pixmaps
            BY <2>1 DEF TypeInv, WinsType, WinType
        <3>. QED
            BY <2>1, <3>1 DEF Backed, HeldPixmaps
    <2>3. pixBo[back] # scanout /\ \A s \in Slots : scanouts[s].bo # pixBo[back]
        BY <2>1, <2>2 DEF Apart, BacksApart
    <2>4. ASSUME NEW c \in Active(crtc), crtcFb[c] = pixBo[back]
          PROVE  FALSE
        <3>1. c \in Steady
            BY SteadyType
        <3>2. PICK k \in Live : cmd[k].src = back
            BY <2>2, <2>4, <3>1 DEF ScreenInv, Shows, OffScreen
        <3>3. cmd[k].win = w /\ ~cmd[k].fail
            BY <3>2 DEF ScreenInv, BacksOwned
        <3>4. k \in OwedBy(w)
            BY <3>3 DEF OwedBy, Answers
        <3>. QED
            BY <3>4 DEF ScreenInv, PendingIsOwed
    <2>. QED
        BY <2>3, <2>4
<1>2. ScreenInv /\ [Next]_vars => ScreenInv'
    BY ScreenStep
<1>3. Init => ScreenInv
    BY InitScreen
<1>. QED
    BY <1>1, <1>2, <1>3, PTL DEF Spec

-----------------------------------------------------------------------------
(* No CRTC is dark.                                                        *)

\* No resize drops the root bo under the CRTCs, no window takes the bo of its flip
\* along, and the way to flip mode does not fail half way.
Undisturbed == {"resize", "destroy_pending"} \cap Env = {} /\ "flip_crtc" \notin Faults

\* Every CRTC has its slot.
Served == \A c \in Steady : \E s \in Slots : scanouts[s].rect = crtc[c].rect

\* Every flip will be answered, but at the end of a generation.
AllAnswer == call.op # "close" => \A k \in Live : Answers(k)

\* What CRTCs show: the root bo in blit mode, a slot or the bo of the flip under
\* way in flip mode.
Lights(b) ==
    \/ flip_mode = "DISABLED" /\ b = scanout
    \/ /\ flip_mode = "ENABLED" /\ b # NoBo
       /\ (\E s \in Slots : b = scanouts[s].bo) \/ (\E k \in Live : b = pixBo[cmd[k].src])

Alight == call.op # "close" => \A c \in Steady : Lights(crtcFb[c])

LitInv == Served /\ AllAnswer /\ Alight

\* The same of the next state.
LightsNext(b) ==
    \/ flip_mode' = "DISABLED" /\ b = scanout'
    \/ /\ flip_mode' = "ENABLED" /\ b # NoBo
       /\ (\E s \in Slots : b = scanouts'[s].bo) \/ (\E k \in Live' : b = pixBo'[cmd'[k].src])

LEMMA AlightNext ==
    ASSUME call'.op # "close" => \A c \in Steady' : LightsNext(crtcFb'[c])
    PROVE  Alight'
    BY DEF Alight, Lights, LightsNext

LEMMA LitHeld ==
    TypeInv /\ Defined =>
        /\ \A b \in Bos : (scanout = b \/ (\E s \in Slots : scanouts[s].bo = b)
                             \/ \E p \in PixIds : pixBo[p] = b) => refcnt[b] > 0
        /\ \A k \in Live : cmd[k].src \in Pixmaps
<1>1. TypeInv => \A k \in Live : cmd[k].src \in Pixmaps
    BY LiveWindow DEF CmdType
<1>. QED
    BY <1>1, HeldIsReferenced

LEMMA LitHeldNext ==
    (TypeInv /\ Defined =>
        /\ \A b \in Bos : (scanout = b \/ (\E s \in Slots : scanouts[s].bo = b)
                             \/ \E p \in PixIds : pixBo[p] = b) => refcnt[b] > 0
        /\ \A k \in Live : cmd[k].src \in Pixmaps)'
    BY LitHeld, PTL

\* What is to be shown is, as the driver holds it.
LEMMA LightStays ==
    ASSUME TypeInv', Defined', NEW rc, NEW width, NEW fb, NEW img, Commit(rc, width, fb, img),
           NEW c \in Crtcs, LightsNext(fb[c])
    PROVE  crtcFb'[c] = fb[c] /\ (fb[c] # NoBo => rc[fb[c]] > 0)
<1>1. /\ scanout' \in Bos /\ pixBo' \in PixType /\ refcnt' \in CountsType
      /\ \A s \in Slots : scanouts'[s].bo \in BoOrNone
    BY DEF TypeInv, TableType, SlotType, BoOrNone
<1>2. \A k \in Live' : cmd'[k].src \in Pixmaps
    BY LitHeldNext
<1>3. fb[c] \in BoOrNone
    BY <1>1, <1>2 DEF LightsNext, PixType, BoOrNone
<1>4. \/ fb[c] = NoBo \/ scanout' = fb[c] \/ (\E s \in Slots : scanouts'[s].bo = fb[c])
      \/ \E p \in PixIds : pixBo'[p] = fb[c]
    BY <1>2 DEF LightsNext, PixIds
<1>5. fb[c] # NoBo => refcnt'[fb[c]] > 0
    BY <1>3, <1>4, LitHeldNext DEF BoOrNone
<1>6. refcnt' = rc /\ crtcFb'[c] = IF fb[c] # NoBo /\ rc[fb[c]] <= 0 THEN NoBo ELSE fb[c]
    BY DEF Commit, Shown
<1>7. fb[c] # NoBo => refcnt'[fb[c]] \in Int
    BY <1>1, <1>3 DEF CountsType, BoOrNone
<1>. QED
    BY <1>5, <1>6, <1>7

LEMMA AlightCommitted ==
    ASSUME TypeInv', Defined', NEW rc, NEW width, NEW fb, NEW img, Commit(rc, width, fb, img),
           \A c \in Steady' : LightsNext(fb[c])
    PROVE  Alight'
<1>1. Steady' \subseteq Crtcs
    BY DEF Steady, Active
<1>. QED
    BY <1>1, LightStays, AlightNext

\* Commands, their pixmaps and the bos of the slots stay.
LEMMA LightsKept ==
    ASSUME TypeInv, flip_mode' = flip_mode, scanout' = scanout, Live' = Live,
           \A s \in Slots : scanouts'[s].bo = scanouts[s].bo,
           \A k \in Live : pixBo'[cmd'[k].src] = pixBo[cmd[k].src],
           NEW b, Lights(b)
    PROVE  LightsNext(b)
    BY DEF Lights, LightsNext

LEMMA ServedKept ==
    ASSUME Served, Still, \A s \in Slots : scanouts'[s].rect = scanouts[s].rect
    PROVE  Served'
    BY DEF Served, Still

LEMMA NobodyAnswers ==
    ASSUME Live' = {}
    PROVE  AllAnswer'
    BY DEF AllAnswer

\* No window goes, no command changes but in its count.
LEMMA AnswersKept ==
    ASSUME TypeInv, AllAnswer, Live' = Live, call.op # "close" \/ call'.op = "close",
           \A k \in Live : /\ cmd'[k].win = cmd[k].win /\ cmd'[k].fail = cmd[k].fail
                           /\ win'[cmd[k].win].alive = win[cmd[k].win].alive
    PROVE  AllAnswer'
    BY DEF AllAnswer, Answers

LEMMA QuietLit ==
    ASSUME TypeInv, LitInv, Still, QuietAction
    PROVE  LitInv'
<1>1. /\ UNCHANGED <<flip_mode, scanout, scanouts, crtcFb, pixBo, cmd>>
      /\ \A v \in Windows : win'[v].alive = win[v].alive
    BY QuietFacts, QuietAlive DEF omapVars
<1>2. Live' = Live
    BY <1>1 DEF Live
<1>3. call.op # "close" \/ call'.op = "close"
    BY IdleType DEF QuietAction, Restack, Move, Access, RootWrite, RootRead, RootWriteDirect,
       Unplug, Disable, SetModeMajor, KernelFlip
<1>4. AllAnswer'
    BY <1>1, <1>2, <1>3, LiveWindow, AnswersKept DEF LitInv
<1>5. Served'
    BY <1>1, ServedKept DEF LitInv
<1>6. Alight'
    <2>1. ASSUME call'.op # "close", NEW c \in Steady'
          PROVE  LightsNext(crtcFb'[c])
        <3>1. c \in Steady /\ call.op # "close"
            BY <1>3, <2>1 DEF Still
        <3>2. Lights(crtcFb[c])
            BY <3>1 DEF LitInv, Alight
        <3>. QED
            BY <1>1, <1>2, <3>2, LightsKept
    <2>. QED
        BY <2>1, AlightNext
<1>. QED
    BY <1>4, <1>5, <1>6 DEF LitInv

\* A window that goes waits for no swap, and at the end of a generation it does
\* not matter.
LEMMA DestroyLit ==
    ASSUME Shape, TypeInv', Defined', PendingIsOwed, Undisturbed, LitInv, Still,
           (\E w \in Windows : DestroyWindow(w)) \/ CloseScreen
    PROVE  LitInv'
<1>0. TypeInv /\ pixBo \in PixType
    BY DEF Shape, Inv, TypeInv
<1>1. /\ UNCHANGED <<scanout, scanouts, cmd>>
      /\ pixBo' = DropPixmaps(win', cmd, pixBo)
    BY <1>0, DestroyFacts
<1>2. PICK rc : Commit(rc, bowidth, crtcFb, current)
    BY <1>0, DestroyFacts
<1>3. Live' = Live /\ Served'
    BY <1>1, ServedKept DEF Live, LitInv
<1>4. CASE CloseScreen
    <2>1. call'.op = "close"
        BY <1>4 DEF CloseScreen, Idle
    <2>. QED
        BY <1>3, <2>1 DEF LitInv, AllAnswer, Alight
<1>5. ASSUME NEW w \in Windows, DestroyWindow(w)
      PROVE  LitInv'
    <2>1. /\ win[w].pending = 0 /\ call = Idle /\ call' = call /\ flip_mode' = flip_mode
          /\ win' = [win EXCEPT ![w] = DeadWindow(w)]
        BY <1>5 DEF DestroyWindow, Undisturbed, omapVars
    <2>2. \A k \in Live : Answers(k)
        BY <2>1, IdleType DEF LitInv, AllAnswer
    <2>3. OwedBy(w) = {}
        BY <2>1 DEF PendingIsOwed
    <2>4. \A k \in Live : cmd[k].win # w
        BY <2>2, <2>3 DEF OwedBy
    <2>5. \A k \in Live : win'[cmd[k].win] = win[cmd[k].win]
        BY <1>0, <2>1, <2>4, LiveWindow DEF TypeInv, WinsType
    <2>6. AllAnswer'
        BY <1>0, <1>1, <1>3, <2>1, <2>5, IdleType, AnswersKept DEF LitInv
    <2>7. \A k \in Live : pixBo'[cmd[k].src] = pixBo[cmd[k].src]
        <3>1. \A k \in Live : k \in CmdIds /\ cmd[k].src \in Pixmaps
            BY <1>0, LiveWindow DEF CmdType
        <3>2. \A k \in Live : cmd[k].src \in HeldPixmaps(win', cmd)
            BY <3>1 DEF HeldPixmaps
        <3>. QED
            BY <1>0, <1>1, <3>1, <3>2, DropKeepsHeld
    <2>8. \A c \in Steady' : LightsNext(crtcFb[c])
        <3>1. \A c \in Steady : Lights(crtcFb[c])
            BY <2>1, IdleType DEF LitInv, Alight
        <3>. QED
            BY <1>0, <1>1, <1>3, <2>1, <2>7, <3>1, LightsKept DEF Still
    <2>9. Alight'
        BY <1>2, <2>8, AlightCommitted
    <2>. QED
        BY <1>3, <2>6, <2>9 DEF LitInv
<1>. QED
    BY <1>4, <1>5

LEMMA GetBuffersLit ==
    ASSUME Shape, TypeInv', Defined', LitInv, Still, NEW w \in Windows, GetBuffers(w)
    PROVE  LitInv'
<1>0. TypeInv /\ pixBo \in PixType
    BY DEF Shape, Inv, TypeInv
<1>1. PICK p \in Nth(Pixmaps \ HeldPixmaps(win, cmd), 1), e \in Nth(FreeBos, 1) :
         LET v   == [win EXCEPT ![w] = [@ EXCEPT !.back = p, !.canflip = -1, !.stale = FALSE]]
             pix == [pixBo EXCEPT ![p] = e]
         IN  /\ win' = v
             /\ pixBo' = DropPixmaps(v, cmd, pix)
             /\ Commit(DropRefs([refcnt EXCEPT ![e] = 1], v, cmd, pix),
                       [bowidth EXCEPT ![e] = win[w].rect.w], crtcFb, current)
    BY DEF GetBuffers
<1>. DEFINE pix == [pixBo EXCEPT ![p] = e]
            wid == [bowidth EXCEPT ![e] = win[w].rect.w]
            rc  == DropRefs([refcnt EXCEPT ![e] = 1], win', cmd, pix)
<1>2. /\ p \in Pixmaps /\ p \notin HeldPixmaps(win, cmd) /\ e \in FreeBos /\ e \in Bos
      /\ UNCHANGED <<cmd, scanout, scanouts, flip_mode, call>> /\ call = Idle
    BY <1>1 DEF Nth, FreeBos, GetBuffers, flipVars, omapVars
<1>3. pixBo' = DropPixmaps(win', cmd, pix) /\ Commit(rc, wid, crtcFb, current)
    BY <1>1
<1>4. pix \in PixType /\ \A q \in PixIds \ {p} : pix[q] = pixBo[q]
    BY <1>0, <1>2 DEF PixType, BoOrNone, PixIds
<1>5. \A u \in Windows : win'[u].alive = win[u].alive
    BY <1>0, <1>1 DEF TypeInv, WinsType, WinType
<1>. HIDE DEF pix, wid, rc
<1>6. Live' = Live /\ Served'
    BY <1>2, ServedKept DEF Live, LitInv
<1>7. AllAnswer'
    BY <1>0, <1>2, <1>5, <1>6, LiveWindow, IdleType, AnswersKept DEF LitInv
<1>8. \A k \in Live : pixBo'[cmd[k].src] = pixBo[cmd[k].src]
    <2>1. \A k \in Live : k \in CmdIds /\ cmd[k].src \in Pixmaps
        BY <1>0, LiveWindow DEF CmdType
    <2>2. \A k \in Live : cmd[k].src \in HeldPixmaps(win', cmd) /\ cmd[k].src # p
        BY <1>2, <2>1 DEF HeldPixmaps
    <2>3. \A k \in Live : cmd[k].src \in PixIds \ {p}
        BY <2>1, <2>2 DEF PixIds
    <2>. QED
        BY <1>3, <1>4, <2>1, <2>2, <2>3, DropKeepsHeld
<1>9. \A c \in Steady' : LightsNext(crtcFb[c])
    <2>1. \A c \in Steady : Lights(crtcFb[c])
        BY <1>2, IdleType DEF LitInv, Alight
    <2>. QED
        BY <1>0, <1>2, <1>6, <1>8, <2>1, LightsKept DEF Still
<1>10. Alight'
    BY <1>3, <1>9, AlightCommitted
<1>. QED
    BY <1>6, <1>7, <1>10 DEF LitInv

-----------------------------------------------------------------------------
(* Swaps.                                                                  *)

\* A CRTC that is on finds its slot, and the slot has a bo.
LEMMA ServedFlips ==
    ASSUME Shape, Served, NEW c \in Steady
    PROVE  /\ c \in FlipCrtcs /\ c \in BlitCrtcs
           /\ \E s \in Slots : /\ ScanoutFromSize(scanouts, crtc[c].rect) = s
                               /\ scanouts[s].bo # NoBo
<1>0. TypeInv /\ SlotsFilled
    BY DEF Shape, Inv
<1>1. c \in Crtcs /\ c \in BlitCrtcs
    BY DEF Steady, Active, BlitCrtcs
<1>2. crtc[c].rect \in RectChoices
    BY <1>0, <1>1 DEF TypeInv, CrtcType
<1>3. crtc[c].rect \in Rects /\ crtc[c].rect.w > 0
    BY <1>2, DisplayAssumption
<1>4. ScanoutFromSize(scanouts, crtc[c].rect) # 0
    BY LookupFirst DEF Served
<1>. QED
    BY <1>0, <1>1, <1>3, <1>4, FoundSlot DEF FlipCrtcs, NoBo, Bos

\* What a swap that flips finds on the CRTCs, or puts there.
LEMMA ModeLights ==
    ASSUME Shape, LitInv, Live = {}, call.op # "close", NEW m \in SetFlipMode, m.ret, NEW c \in Steady
    PROVE  m.fb[c] # NoBo /\ \E s \in Slots : m.fb[c] = scanouts[s].bo
<1>1. c \in Crtcs /\ flip_mode \in {"ENABLED", "DISABLED"}
    BY SteadyType DEF Shape, Inv, TypeInv
<1>2. CASE flip_mode = "ENABLED"
    <2>1. m.fb = crtcFb
        BY <1>2 DEF SetFlipMode, AlreadySet, Outcome
    <2>. QED
        BY <1>2, <2>1 DEF LitInv, Alight, Lights
<1>3. CASE flip_mode = "DISABLED"
    <2>1. m.fb = FlipTarget(crtcFb)
        BY <1>3 DEF SetFlipMode, Outcome, ToFlip
    <2>2. PICK s \in Slots : /\ ScanoutFromSize(scanouts, crtc[c].rect) = s
                             /\ scanouts[s].bo # NoBo /\ c \in FlipCrtcs
        BY ServedFlips DEF LitInv
    <2>3. m.fb[c] = scanouts[s].bo
        BY <1>1, <2>1, <2>2 DEF FlipTarget
    <2>. QED
        BY <2>2, <2>3
<1>. QED
    BY <1>1, <1>2, <1>3

LEMMA SwapFlipLit ==
    ASSUME Shape, Shape', Defined', RectsApart, LitInv, Still, Live = {},
           NEW w \in Windows, SwapFlip(w)
    PROVE  LitInv'
<1>. DEFINE s    == ScanoutFromSize(scanouts, win[w].rect)
            rc   == Unreference(Reference(refcnt, scanouts[s].bo), pixBo[Root])
            back == win[w].back
<1>0. TypeInv /\ TypeInv' /\ cmd \in CmdsType /\ pixBo \in PixType
    BY DEF Shape, Inv, TypeInv
<1>1. call' = call /\ call = Idle /\ call.op # "close" /\ flip_mode' = "ENABLED"
    BY IdleType DEF SwapFlip, SwapReady
<1>2. /\ pixBo' = [pixBo EXCEPT ![Root] = scanouts[s].bo]
      /\ \A t \in Slots : scanouts'[t].bo = scanouts[t].bo /\ scanouts'[t].rect = scanouts[t].rect
    BY SwapFlipFacts
<1>3. win[w].alive /\ back \in Pixmaps /\ pixBo[back] \in Bos
      /\ \A v \in Windows : win'[v].alive = win[v].alive
    BY SwapFlipOutcome
<1>4. PICK m, p :
         /\ m \in SetFlipMode /\ m.ret /\ p \in PageFlip(w, Shown(rc, m.fb))
         /\ Commit(rc, bowidth, [c \in Crtcs |-> IF c \in p.flipped THEN pixBo[back]
                                                 ELSE Shown(rc, m.fb)[c]],
                   m.img)
         /\ \/ p.flipped # {} /\ FlipQueued(w, p)
            \/ p.flipped = {} /\ FlipNotQueued(w)
    BY DEF SwapFlip
<1>. DEFINE fb == [c \in Crtcs |-> IF c \in p.flipped THEN pixBo[back] ELSE Shown(rc, m.fb)[c]]
<1>5. /\ Commit(rc, bowidth, fb, m.img)
      /\ \A c \in Crtcs : fb[c] = IF c \in p.flipped THEN pixBo[back] ELSE Shown(rc, m.fb)[c]
    BY <1>4
<1>. HIDE DEF fb, rc, s, back
<1>6. Served'
    BY <1>2, ServedKept DEF LitInv
<1>7. pixBo'[back] = pixBo[back] /\ pixBo[back] # NoBo
    BY <1>0, <1>2, <1>3, PixIdsFinite DEF PixType, NoBo, Bos
<1>8. ASSUME NEW c \in Steady', c \notin p.flipped
      PROVE  LightsNext(fb[c])
    <2>1. c \in Steady /\ c \in Crtcs
        BY <1>8, SteadyType DEF Still
    <2>2. PICK t \in Slots : m.fb[c] = scanouts[t].bo /\ m.fb[c] # NoBo
        BY <1>1, <1>4, <2>1, ModeLights
    <2>3. m.fb[c] = scanouts'[t].bo /\ m.fb[c] \in Bos
        <3>1. scanouts[t].bo \in BoOrNone
            BY <1>0 DEF TypeInv, TableType, SlotType, BoOrNone
        <3>. QED
            BY <1>2, <2>2, <3>1 DEF BoOrNone
    <2>4. refcnt'[m.fb[c]] > 0 /\ refcnt' = rc /\ refcnt'[m.fb[c]] \in Int
        <3>1. refcnt'[m.fb[c]] > 0
            BY <1>0, <2>3, LitHeldNext
        <3>. QED
            BY <1>0, <1>5, <2>3, <3>1 DEF TypeInv, CountsType, Commit
    <2>5. Shown(rc, m.fb)[c] = m.fb[c]
        BY <2>1, <2>4 DEF Shown
    <2>6. fb[c] = m.fb[c]
        BY <1>5, <1>8, <2>1, <2>5
    <2>. QED
        BY <1>1, <2>2, <2>3, <2>6 DEF LightsNext
<1>9. CASE p.flipped = {}
    <2>1. cmd' = cmd
        BY <1>4, <1>9 DEF FlipNotQueued, flipVars
    <2>2. Live' = {}
        BY <2>1 DEF Live
    <2>3. \A c \in Steady' : LightsNext(fb[c])
        BY <1>8, <1>9
    <2>4. Alight'
        BY <1>0, <1>5, <2>3, AlightCommitted
    <2>. QED
        BY <1>6, <2>2, <2>4, NobodyAnswers DEF LitInv
<1>10. CASE p.flipped # {}
    <2>1. p.ret
        BY <1>0, <1>4, <1>10, FlipIsOne
    <2>2. PICK k \in Nth(CmdIds \ Live, 1) : cmd' = [cmd EXCEPT ![k] = NewCmd(w, p)]
        BY <1>4, <1>10 DEF FlipQueued
    <2>3. k \in CmdIds
        BY DEF Nth
    <2>4. cmd'[k] = NewCmd(w, p) /\ \A j \in CmdIds \ {k} : cmd'[j] = cmd[j]
        BY <1>0, <2>2, <2>3 DEF CmdsType
    <2>5. cmd'[k].win = w /\ cmd'[k].src = back /\ cmd'[k].fail = ~p.ret
        BY <2>4 DEF NewCmd, back
    <2>6. cmd'[k] # FreeCmd
        BY <2>5, NoCmdIsNone DEF FreeCmd
    <2>7. Live' = {k}
        BY <2>3, <2>4, <2>6 DEF Live
    <2>8. AllAnswer'
        BY <1>3, <2>1, <2>5, <2>7 DEF AllAnswer, Answers
    <2>9. \A c \in Steady' : c \in p.flipped => LightsNext(fb[c])
        <3>1. \A c \in Steady' : c \in p.flipped => fb[c] = pixBo[back]
            BY <1>5, SteadyType DEF Still
        <3>. QED
            BY <1>1, <1>7, <2>5, <2>7, <3>1 DEF LightsNext
    <2>10. Alight'
        BY <1>0, <1>5, <1>8, <2>9, AlightCommitted
    <2>. QED
        BY <1>6, <2>8, <2>10 DEF LitInv
<1>. QED
    BY <1>9, <1>10

LEMMA SwapFlipFallbackLit ==
    ASSUME Shape, TypeInv', Defined', Undisturbed, LitInv, Still, Live = {},
           NEW w \in Windows, SwapFlipFallback(w)
    PROVE  LitInv'
<1>0. TypeInv /\ flip_mode \in {"ENABLED", "DISABLED"}
    BY DEF Shape, Inv, TypeInv
<1>1. PICK m \in SetFlipMode : ~m.ret /\ BlitToFront(w, refcnt, m)
    BY DEF SwapFlipFallback
<1>2. m.fb = crtcFb /\ flip_mode = "DISABLED"
    <2>1. ToFlip.bad = {}
        BY DEF ToFlip, Undisturbed
    <2>. QED
        BY <1>0, <1>1, <2>1 DEF SetFlipMode, AlreadySet, Outcome
<1>3. PICK rc, img : Commit(rc, bowidth, m.fb, img)
    BY <1>1 DEF BlitToFront
<1>4. call.op # "close" /\ UNCHANGED <<flip_mode, scanout, call, cmd>>
    BY IdleType DEF SwapFlipFallback, SwapReady, flipVars
<1>5. Live' = {}
    BY <1>4 DEF Live
<1>6. Served'
    BY <1>0, <1>1, BlitFacts, ServedKept DEF LitInv
<1>7. \A c \in Steady' : LightsNext(m.fb[c])
    <2>1. \A c \in Steady : crtcFb[c] = scanout
        BY <1>2, <1>4 DEF LitInv, Alight, Lights
    <2>. QED
        BY <1>2, <1>4, <2>1 DEF Still, LightsNext
<1>8. Alight'
    BY <1>3, <1>7, AlightCommitted
<1>. QED
    BY <1>5, <1>6, <1>8, NobodyAnswers DEF LitInv

LEMMA SwapBlitLit ==
    ASSUME Shape, LitInv, Still, Live = {}, NEW w \in Windows, SwapBlit(w)
    PROVE  LitInv'
<1>0. TypeInv
    BY DEF Shape, Inv
<1>1. call.op # "close" /\ UNCHANGED <<flip_mode, scanout, scanouts, crtcFb, cmd>>
    BY IdleType DEF SwapBlit, SwapReady, flipVars, omapVars
<1>2. Live' = {}
    BY <1>1 DEF Live
<1>3. Served'
    BY <1>1, ServedKept DEF LitInv
<1>4. \A c \in Steady' : LightsNext(crtcFb'[c])
    BY <1>0, <1>1, <1>2, LightsKept DEF LitInv, Alight, Still
<1>5. Alight'
    BY <1>4, AlightNext
<1>. QED
    BY <1>2, <1>3, <1>5, NobodyAnswers DEF LitInv

-----------------------------------------------------------------------------
(* The calls that waited.                                                  *)

\* In blit mode, or set to it, a CRTC shows the root bo.
LEMMA BlitLights ==
    ASSUME TypeInv, BlitWorks, LitInv, Live = {}, call.op # "close",
           NEW m \in SetBlitMode, NEW c \in Steady
    PROVE  m.fb[c] = scanout
<1>1. c \in Crtcs /\ c \in BlitCrtcs
    BY DEF Steady, Active, BlitCrtcs
<1>2. CASE flip_mode = "DISABLED"
    <2>1. m.fb = crtcFb
        BY <1>2 DEF SetBlitMode, AlreadySet, Outcome
    <2>. QED
        BY <1>2, <2>1 DEF LitInv, Alight, Lights
<1>3. CASE flip_mode # "DISABLED"
    <2>1. ToBlit.bad = {} /\ ToBlit.ok = BlitTarget(crtcFb) /\ "blit_copy" \notin Faults
        BY DEF ToBlit, BlitWorks
    <2>2. m.fb = BlitTarget(crtcFb)
        BY <1>3, <2>1 DEF SetBlitMode, Outcome
    <2>. QED
        BY <1>1, <2>2 DEF BlitTarget
<1>. QED
    BY <1>2, <1>3

LEMMA SwapBlitReturnLit ==
    ASSUME Shape, TypeInv', Defined', BlitWorks, LitInv, Still, SwapBlitReturn
    PROVE  LitInv'
<1>0. TypeInv /\ Live = {} /\ Live' = {}
    BY WaitedFor DEF Shape, Inv, Return
<1>1. PICK m, rc : m \in SetBlitMode /\ BlitToFront(call.win, rc, m)
    BY BlitSucceeds DEF SwapBlitReturn
<1>2. flip_mode' = "DISABLED" /\ scanout' = scanout /\ call.op # "close"
    BY BlitSucceeds DEF SwapBlitReturn
<1>3. Served'
    BY <1>0, <1>1, BlitFacts, ServedKept DEF LitInv
<1>4. PICK rc2, img : Commit(rc2, bowidth, m.fb, img)
    BY <1>1 DEF BlitToFront
<1>5. \A c \in Steady' : LightsNext(m.fb[c])
    BY <1>0, <1>1, <1>2, BlitLights DEF Still, LightsNext
<1>6. Alight'
    BY <1>4, <1>5, AlightCommitted
<1>. QED
    BY <1>0, <1>3, <1>6, NobodyAnswers DEF LitInv

LEMMA RootWriteReturnLit ==
    ASSUME Shape, TypeInv', Defined', BlitWorks, LitInv, Still,
           NEW x \in RootCols, RootWriteReturn(x)
    PROVE  LitInv'
<1>0. TypeInv /\ Live = {} /\ Live' = {}
    BY WaitedFor DEF Shape, Inv, Return
<1>1. PICK m \in SetBlitMode :
         /\ scanouts' = m.tab /\ flip_mode' = "DISABLED"
         /\ \E rc, img : Commit(rc, bowidth, m.fb, img)
    BY BlitSucceeds DEF RootWriteReturn
<1>2. scanout' = scanout /\ call.op # "close"
    BY DEF RootWriteReturn
<1>3. PICK rc, img : Commit(rc, bowidth, m.fb, img)
    BY <1>1
<1>4. Served'
    BY <1>0, <1>1, BosKept, ServedKept DEF LitInv
<1>5. \A c \in Steady' : LightsNext(m.fb[c])
    BY <1>0, <1>1, <1>2, BlitLights DEF Still, LightsNext
<1>6. Alight'
    BY <1>3, <1>5, AlightCommitted
<1>. QED
    BY <1>0, <1>4, <1>6, NobodyAnswers DEF LitInv

\* In a table made for them the CRTCs have their slots.
LEMMA TableServes ==
    ASSUME NEW tab, NEW act \in SUBSET Crtcs, NEW rects, NEW free, NEW c \in act
    PROVE  \E s \in Slots : UpdatedTable(tab, act, rects, free, NumCrtc)[s].rect = rects[c]
<1>1. Rank(act, c) \in 1..NumCrtc /\ NumCrtc <= MaxScanouts /\ NumCrtc \in Nat /\ MaxScanouts \in Nat
    BY RankOfCrtc, SizeAssumption, DisplayAssumption
<1>. DEFINE s == Rank(act, c)
<1>2. s \in Slots /\ Rank(act, c) = s /\ s <= NumCrtc
    BY <1>1 DEF Slots
<1>. HIDE DEF s
<1>3. UpdatedTable(tab, act, rects, free, NumCrtc)[s] = NewSlot(tab, act, rects, free, c)
    <2>. DEFINE new == UpdatedTable(tab, act, rects, free, NumCrtc)
    <2>1. \A d \in act : Rank(act, d) = s /\ s <= NumCrtc => new[s] = NewSlot(tab, act, rects, free, d)
        BY <1>2, TableSlot
    <2>. HIDE DEF new
    <2>2. new[s] = NewSlot(tab, act, rects, free, c)
        BY <1>2, <2>1
    <2>. QED
        BY <2>2 DEF new
<1>4. NewSlot(tab, act, rects, free, c).rect = rects[c]
    BY DEF NewSlot
<1>. QED
    BY <1>2, <1>3, <1>4

LEMMA ServedNext ==
    ASSUME TypeInv, crtc' = crtc, call' = Idle, NEW tab, NEW free,
           scanouts' = UpdatedTable(tab, Active(crtc), CrtcRects(crtc), free, NumCrtc)
    PROVE  Served'
<1>1. Steady' \subseteq Active(crtc)
    BY DEF Steady, Active
<1>2. Active(crtc) \in SUBSET Crtcs
    BY DEF Active
<1>3. ASSUME NEW c \in Steady'
      PROVE  \E s \in Slots : scanouts'[s].rect = crtc[c].rect
    <2>1. c \in Active(crtc) /\ c \in Crtcs
        BY <1>1, <1>2
    <2>2. CrtcRects(crtc)[c] = crtc[c].rect
        BY <2>1 DEF CrtcRects
    <2>3. \E s \in Slots : UpdatedTable(tab, Active(crtc), CrtcRects(crtc), free, NumCrtc)[s].rect
                              = CrtcRects(crtc)[c]
        BY <1>2, <2>1, TableServes
    <2>. QED
        BY <2>2, <2>3
<1>. QED
    BY <1>3 DEF Served

LEMMA ScreenInitLit ==
    ASSUME Shape, TypeInv', Defined', ScreenInit
    PROVE  LitInv'
<1>0. TypeInv /\ Live' = {}
    BY WaitedFor DEF Shape, Inv, Return
<1>1. PICK new \in FreeBos :
         scanouts' = UpdatedTable(scanouts, Active(crtc), CrtcRects(crtc), FreeBos \ {new}, NumCrtc)
    BY ScreenInitFacts
<1>2. crtc' = crtc /\ call' = Idle /\ flip_mode' = "DISABLED"
    BY DEF ScreenInit
<1>3. Served'
    BY <1>0, <1>1, <1>2, ServedNext
<1>4. PICK rc, width, img :
         Commit(rc, width, [c \in Crtcs |-> IF c \in Active(crtc) THEN scanout' ELSE crtcFb[c]], img)
    BY DEF ScreenInit
<1>. DEFINE fb == [c \in Crtcs |-> IF c \in Active(crtc) THEN scanout' ELSE crtcFb[c]]
<1>5. Commit(rc, width, fb, img) /\ \A c \in Active(crtc) : fb[c] = scanout'
    BY <1>4 DEF Active
<1>. HIDE DEF fb
<1>6. Steady' \subseteq Active(crtc)
    BY <1>2 DEF Steady, Active
<1>7. \A c \in Steady' : LightsNext(fb[c])
    BY <1>2, <1>5, <1>6 DEF LightsNext
<1>8. Alight'
    BY <1>5, <1>7, AlightCommitted
<1>. QED
    BY <1>0, <1>3, <1>8, NobodyAnswers DEF LitInv

LEMMA SetModeMajorLit ==
    ASSUME Shape, TypeInv', Defined', BlitWorks, Uncloned, LitInv, SetModeMajorReturn, crtc' = crtc
    PROVE  LitInv'
<1>. DEFINE act   == Active(crtc)
            rects == CrtcRects(crtc)
            fails == "alloc" \in Faults
<1>0. TypeInv /\ Live = {} /\ Live' = {} /\ crtcFb \in FbType
    BY WaitedFor DEF Shape, Inv, Return, TypeInv
<1>1. PICK m \in (IF flip_mode = "DISABLED" THEN SetOneCrtc(call.crtc) ELSE SetBlitMode) :
         \E u \in UpdateScanouts(m.tab, act, rects, FreeBos, refcnt, fails) :
                scanouts' = u.tab /\ \E rc, width, img : Commit(rc, width, m.fb, img)
    <2>1. \A c : \A m \in SetOneCrtc(c) : m.ret
        BY DEF SetOneCrtc, Outcome, BlitWorks
    <2>. QED
        BY <2>1, BlitSucceeds DEF SetModeMajorReturn
<1>2. PICK u \in UpdateScanouts(m.tab, act, rects, FreeBos, refcnt, fails) :
             scanouts' = u.tab /\ \E rc, width, img : Commit(rc, width, m.fb, img)
    BY <1>1
<1>3. PICK rc, width, img : Commit(rc, width, m.fb, img)
    BY <1>2
<1>4. act \in SUBSET Crtcs /\ NumCrtc <= MaxScanouts /\ ~fails
    BY <1>0, ActiveType, DisplayAssumption DEF Uncloned
<1>. HIDE DEF fails
<1>5. u = UpdateDone(m.tab, act, rects, FreeBos, refcnt)
    BY <1>4, UpdateIsDone
<1>6. scanouts' = UpdatedTable(m.tab, act, rects, FreeBos, NumCrtc)
    BY <1>2, <1>5 DEF UpdateDone
<1>7. call' = Idle /\ scanout' = scanout /\ flip_mode' = "DISABLED" /\ call.op # "close"
    BY SetModeMajorFacts DEF SetModeMajorReturn
<1>8. Served'
    BY <1>0, <1>6, <1>7, ServedNext
<1>9. ASSUME NEW c \in Steady'
      PROVE  m.fb[c] = scanout
    <2>1. c \in Crtcs /\ c \in Active(crtc) /\ (c # call.crtc => c \in Steady)
        BY <1>9 DEF Steady, Active
    <2>2. CASE flip_mode = "DISABLED"
        <3>1. m.fb = [crtcFb EXCEPT ![call.crtc] = scanout]
            BY <1>1, <2>2 DEF SetOneCrtc, Outcome, BlitWorks
        <3>2. c # call.crtc => crtcFb[c] = scanout
            BY <1>7, <2>1, <2>2 DEF LitInv, Alight, Lights
        <3>. QED
            BY <1>0, <2>1, <3>1, <3>2 DEF FbType
    <2>3. CASE flip_mode # "DISABLED"
        <3>1. ToBlit.bad = {} /\ ToBlit.ok = BlitTarget(crtcFb) /\ "blit_copy" \notin Faults
            BY DEF ToBlit, BlitWorks
        <3>2. m.fb = BlitTarget(crtcFb)
            BY <2>3, <3>1 DEF SetBlitMode, Outcome
        <3>. QED
            BY <2>1, <3>2 DEF BlitTarget, BlitCrtcs, Active
    <2>. QED
        BY <2>2, <2>3
<1>10. \A c \in Steady' : LightsNext(m.fb[c])
    BY <1>7, <1>9 DEF LightsNext
<1>11. Alight'
    BY <1>3, <1>10, AlightCommitted
<1>. QED
    BY <1>0, <1>8, <1>11, NobodyAnswers DEF LitInv

\* The flipped bo comes to be that of the slot, and nobody shows the one it replaces.
LEMMA CompleteFlipLit ==
    ASSUME Shape, TypeInv', Defined', Apart, InFlight, OneFlip, Shows, LitInv, Still,
           UNCHANGED <<flip_mode, scanout, call>>,
           NEW k \in Live, Answers(k), CompleteFlip(k)
    PROVE  LitInv'
<1>0. TypeInv /\ Inv
    BY DEF Shape, Inv
<1>1. cmd' = [cmd EXCEPT ![k] = FreeCmd]
    BY DEF CompleteFlip, CompleteCmd
<1>2. Live = {k} /\ Live' = {}
    BY <1>0, <1>1, LastFlip
<1>3. /\ Target(k) \in Slots /\ scanouts[Target(k)].bo = pixBo[Root]
      /\ \A s \in Slots :
           /\ scanouts'[s].bo = IF s = Target(k) THEN pixBo[cmd[k].src] ELSE scanouts[s].bo
           /\ scanouts'[s].rect = scanouts[s].rect
    BY CompleteFlipFacts
<1>4. Served'
    BY <1>3, ServedKept DEF LitInv
<1>5. PICK rc, img : Commit(rc, bowidth, crtcFb, img)
    BY DEF CompleteFlip, CompleteCmd
<1>6. ASSUME call.op # "close", NEW c \in Steady'
      PROVE  LightsNext(crtcFb[c])
    <2>1. c \in Steady /\ Lights(crtcFb[c])
        BY <1>6 DEF Still, LitInv, Alight
    <2>2. crtcFb[c] # pixBo[Root]
        BY <2>1 DEF Shows, Flight
    <2>3. CASE flip_mode = "DISABLED"
        BY <2>1, <2>3 DEF Lights, LightsNext
    <2>4. ASSUME NEW s \in Slots, crtcFb[c] = scanouts[s].bo, flip_mode # "DISABLED"
          PROVE  LightsNext(crtcFb[c])
        <3>1. scanouts'[s].bo = scanouts[s].bo
            BY <1>3, <2>2, <2>4
        <3>. QED
            BY <2>1, <2>4, <3>1 DEF Lights, LightsNext
    <2>5. ASSUME crtcFb[c] = pixBo[cmd[k].src], flip_mode # "DISABLED"
          PROVE  LightsNext(crtcFb[c])
        <3>1. scanouts'[Target(k)].bo = crtcFb[c]
            BY <1>3, <2>5
        <3>. QED
            BY <1>3, <2>1, <2>5, <3>1 DEF Lights, LightsNext
    <2>. QED
        BY <1>2, <2>1, <2>3, <2>4, <2>5 DEF Lights
<1>7. Alight'
    <2>1. CASE call.op # "close"
        BY <1>5, <1>6, <2>1, AlightCommitted
    <2>2. CASE call.op = "close"
        BY <2>2 DEF Alight
    <2>. QED
        BY <2>1, <2>2
<1>. QED
    BY <1>2, <1>4, <1>7, NobodyAnswers DEF LitInv

LEMMA HandleEventLit ==
    ASSUME Shape, TypeInv', Defined', Apart, InFlight, OneFlip, Shows, LitInv, Still, HandleEvent
    PROVE  LitInv'
<1>. DEFINE k == Head(events)[2]
<1>0. TypeInv /\ Inv
    BY DEF Shape, Inv
<1>1. k \in Live /\ UNCHANGED <<flip_mode, scanout, call>>
    BY <1>0, HandledCommand
<1>2. \/ /\ cmd' = [cmd EXCEPT ![k].swapCount = @ - 1]
         /\ UNCHANGED <<scanouts, boVars, pixBo, win>>
      \/ Answers(k) /\ CompleteFlip(k)
      \/ ~Answers(k) /\ DropFlip(k)
    BY DEF HandleEvent
<1>. HIDE DEF k
<1>3. CASE /\ cmd' = [cmd EXCEPT ![k].swapCount = @ - 1]
           /\ UNCHANGED <<scanouts, boVars, pixBo, win>>
    <2>1. /\ Live' = Live
          /\ \A j \in Live : /\ cmd'[j].src = cmd[j].src /\ cmd'[j].win = cmd[j].win
                             /\ cmd'[j].fail = cmd[j].fail
        BY <1>0, <1>1, <1>3, EventCounted
    <2>2. UNCHANGED <<scanouts, crtcFb, pixBo, win>>
        BY <1>3 DEF boVars
    <2>3. Served'
        BY <2>2, ServedKept DEF LitInv
    <2>4. AllAnswer'
        BY <1>0, <1>1, <2>1, <2>2, AnswersKept DEF LitInv
    <2>5. \A c \in Steady : Lights(crtcFb[c]) => LightsNext(crtcFb[c])
        BY <1>0, <1>1, <2>1, <2>2, LightsKept
    <2>6. Alight'
        BY <1>1, <2>2, <2>5, AlightNext DEF LitInv, Alight, Still
    <2>. QED
        BY <2>3, <2>4, <2>6 DEF LitInv
<1>4. CASE Answers(k) /\ CompleteFlip(k)
    BY <1>1, <1>4, CompleteFlipLit
<1>5. CASE ~Answers(k) /\ DropFlip(k)
    <2>1. call'.op = "close"
        BY <1>1, <1>5 DEF LitInv, AllAnswer
    <2>2. scanouts' = scanouts
        BY <1>5 DEF DropFlip
    <2>3. Served'
        BY <2>2, ServedKept DEF LitInv
    <2>. QED
        BY <2>1, <2>3 DEF LitInv, AllAnswer, Alight
<1>. QED
    BY <1>2, <1>3, <1>4, <1>5

-----------------------------------------------------------------------------
LEMMA StepLit ==
    ASSUME Shape, Shape', Defined', Apart, InFlight, OneFlip, RectsApart, CallCrtc, Shows,
           PendingIsOwed, LitInv, BlitWorks, Separate, Uncloned, Undisturbed, Next
    PROVE  LitInv'
<1>0. TypeInv /\ TypeInv' /\ Inv
    BY DEF Shape, Inv
<1>1. CASE SetModeMajorReturn
    <2>1. crtc' = crtc
        BY <1>0, <1>1, SetModeMajorCrtcs
    <2>. QED
        BY <1>0, <1>1, <2>1, SetModeMajorLit
<1>2. CASE ~SetModeMajorReturn
    <2>1. Still
        BY <1>0, <1>2, SteadyKept DEF Still
    <2>2. ASSUME QuietAction
          PROVE  LitInv'
        BY <1>0, <2>1, <2>2, QuietLit
    <2>3. ASSUME NEW w \in Windows, Client(w)
          PROVE  LitInv'
        BY <1>0, <2>1, <2>2, <2>3, GetBuffersLit, DestroyLit DEF Client, QuietAction
    <2>4. ASSUME NEW w \in Windows, Swap(w)
          PROVE  LitInv'
        <3>1. pending_flips = 0
            BY <2>4 DEF Swap, SwapFlip, SwapFlipFallback, SwapBlit, SwapReady, Separate
        <3>2. Live = {}
            BY <1>0, <3>1, NoneLive
        <3>. QED
            BY <1>0, <2>1, <2>4, <3>2, SwapFlipLit, SwapFlipFallbackLit, SwapBlitLit DEF Swap
    <2>5. ASSUME Access
          PROVE  LitInv'
        BY <2>2, <2>5 DEF QuietAction
    <2>6. ASSUME Config
          PROVE  LitInv'
        <3>1. \A d \in Widths : ~Resize(d)
            BY DEF Resize, Undisturbed
        <3>2. CloseScreen => LitInv'
            BY <1>0, <2>1, DestroyLit
        <3>. QED
            BY <2>2, <2>6, <3>1, <3>2 DEF Config, QuietAction
    <2>7. ASSUME Return
          PROVE  LitInv'
        BY <1>0, <1>2, <2>1, <2>7, SwapBlitReturnLit, RootWriteReturnLit, ScreenInitLit DEF Return
    <2>8. ASSUME HandleEvent
          PROVE  LitInv'
        BY <1>0, <2>1, <2>8, HandleEventLit
    <2>9. ASSUME NEW c \in Crtcs, KernelFlip(c)
          PROVE  LitInv'
        BY <2>2, <2>9 DEF QuietAction
    <2>. QED
        BY <2>3, <2>4, <2>5, <2>6, <2>7, <2>8, <2>9 DEF Next
<1>. QED
    BY <1>1, <1>2

LEMMA InitLit == Init => LitInv
<1>. SUFFICES ASSUME Init
              PROVE  LitInv
    OBVIOUS
<1>1. /\ call = Idle /\ scanout = 1 /\ flip_mode = "DISABLED" /\ Live = {}
      /\ \A c \in Crtcs : crtcFb[c] = 1 /\ crtc[c].rect = InitRect[c]
      /\ scanouts = UpdatedTable([s \in Slots |-> EmptySlot], Crtcs, InitRect, Bos \ {1}, NumCrtc)
    BY DEF Init, Live, InitUpdate, UpdateDone
<1>2. Served
    <2>1. ASSUME NEW c \in Crtcs
          PROVE  \E s \in Slots : scanouts[s].rect = InitRect[c]
        BY <1>1, TableServes
    <2>. QED
        BY <1>1, <2>1, SteadyType DEF Served
<1>3. Alight
    BY <1>1, SteadyType DEF Alight, Lights
<1>. QED
    BY <1>1, <1>2, <1>3 DEF LitInv, AllAnswer

LEMMA LitStep ==
    ASSUME BlitWorks, Separate, Uncloned, Undisturbed
    PROVE  ScreenInv /\ LitInv /\ [Next]_vars => ScreenInv' /\ LitInv'
<1>. SUFFICES ASSUME ScreenInv, LitInv, [Next]_vars
              PROVE  ScreenInv' /\ LitInv'
    OBVIOUS
<1>1. ScreenInv'
    BY ScreenStep
<1>2. Defined' /\ Shape'
    <2>1. (RefsInv => Defined)'
        BY RefsDefined, PTL
    <2>. QED
        BY <1>1, <2>1 DEF ScreenInv, FlightInv, FrontInv
<1>3. CASE Next
    BY <1>1, <1>2, <1>3, StepLit DEF ScreenInv, FlightInv, FrontInv
<1>4. CASE UNCHANGED vars
    <2>1. UNCHANGED <<scanout, scanouts, flip_mode, pixBo, cmd, win, crtc, crtcFb, call>>
        BY <1>4 DEF vars, omapVars, flipVars, boVars
    <2>. QED
        BY <1>1, <2>1 DEF LitInv, Served, AllAnswer, Alight, Lights, Live, Steady, Answers
<1>. QED
    BY <1>1, <1>3, <1>4

\* No enabled CRTC is dark between calls.  In blit mode it shows the root bo and in flip
\* mode the bo of a slot or the one that is flipping, through swaps, mode switches,
\* mode sets and server generations, refused page flips and failed copies to the slots,
\* where swaps take turns, no resize replaces the root bo, no window goes in the
\* middle of its flip, no CRTCs are clones, and the calls that point the CRTCs at their
\* bos, the way back to blit mode and the allocation of slots do not fail.
THEOREM CrtcsStayLit ==
    ASSUME BlitWorks, Separate, Uncloned, Undisturbed
    PROVE  Spec => []Lit
<1>1. ScreenInv /\ LitInv => Lit
    <2>. SUFFICES ASSUME ScreenInv, LitInv, call = Idle, NEW c \in Active(crtc)
                  PROVE  crtcFb[c] # NoBo
        BY DEF Lit
    <2>1. scanout # NoBo
        BY DEF ScreenInv, FlightInv, FrontInv, Shape, Inv, TypeInv, NoBo, Bos
    <2>2. Lights(crtcFb[c])
        BY SteadyType, IdleType DEF LitInv, Alight
    <2>. QED
        BY <2>1, <2>2 DEF Lights
<1>2. ScreenInv /\ LitInv /\ [Next]_vars => ScreenInv' /\ LitInv'
    BY LitStep
<1>3. Init => ScreenInv /\ LitInv
    BY InitScreen, InitLit
<1>. QED
    BY <1>1, <1>2, <1>3, PTL DEF Spec

-----------------------------------------------------------------------------
(* The latest image.                                                       *)

\* The CRTCs look at the screen.
RectsFit == \A c \in Active(crtc) : Fits(crtc[c].rect, bowidth[scanout])

\* The slots are parts of the screen, as wide as their bos, and apart.
SlotsFit ==
    \A s \in Slots : scanouts[s].bo # NoBo =>
        Fits(scanouts[s].rect, bowidth[scanout]) /\ bowidth[scanouts[s].bo] = scanouts[s].rect.w
SlotsDisjoint ==
    \A s, t \in Slots : s # t /\ scanouts[s].bo # NoBo /\ scanouts[t].bo # NoBo =>
        ~Overlap(scanouts[s].rect, scanouts[t].rect)

Placed == RectsFit /\ SlotsFit /\ SlotsDisjoint

\* The latest image is in the root bo in blit mode.  In flip mode it is in the
\* slots, and between them in the root bo.
Covered == UNION {Cols(scanouts[s].rect) : s \in Slots}
Images ==
    /\ flip_mode = "DISABLED" => RootCols \subseteq current[scanout]
    /\ flip_mode = "ENABLED" =>
         /\ RootCols \ Covered \subseteq current[scanout]
         /\ \A s \in Slots : scanouts[s].bo # NoBo =>
                Cols(scanouts[s].rect) \subseteq current[scanouts[s].bo]

\* A bo as wide as the screen that backs the screen pixmap has all of it.
FrontLatest ==
    pixBo[Root] # scanout /\ bowidth[pixBo[Root]] = bowidth[scanout]
        => RootCols \subseteq current[pixBo[Root]]

ImageInv == Placed /\ Images /\ FrontLatest

LEMMA FitsInRoot ==
    ASSUME TypeInv, NEW r \in Rects, Fits(r, bowidth[scanout])
    PROVE  /\ Cols(r) \subseteq RootCols
           /\ r.w = bowidth[scanout] => Cols(r) = RootCols
<1>1. r.x \in Nat /\ r.w \in Nat /\ bowidth[scanout] \in Nat /\ r.x + r.w <= bowidth[scanout]
    BY DEF Rects, TypeInv, WidthType, Fits
<1>2. RootCols = 0 .. (0 + bowidth[scanout] - 1)
    BY DEF RootCols, Cols
<1>3. Cols(r) = r.x .. (r.x + r.w - 1)
    BY DEF Cols
<1>. QED
    BY <1>1, <1>2, <1>3

LEMMA SlotRect ==
    ASSUME TypeInv, NEW s \in Slots
    PROVE  scanouts[s].rect \in Rects /\ scanouts[s].bo \in BoOrNone
    BY DEF TypeInv, TableType, SlotType, BoOrNone

\* What the driver holds after a call has the width and the contents it was given.
LEMMA HeldStays ==
    ASSUME TypeInv', Defined', NEW rc, NEW width, NEW fb, NEW img, Commit(rc, width, fb, img),
           NEW b \in Bos,
           scanout' = b \/ (\E s \in Slots : scanouts'[s].bo = b) \/ \E p \in PixIds : pixBo'[p] = b
    PROVE  bowidth'[b] = width[b] /\ current'[b] = img[b]
<1>1. refcnt'[b] > 0
    BY LitHeldNext
<1>2. refcnt' = rc /\ bowidth'[b] = (IF rc[b] <= 0 THEN 0 ELSE width[b])
      /\ current'[b] = IF rc[b] <= 0 THEN {} ELSE img[b]
    BY DEF Commit
<1>3. refcnt'[b] \in Int
    BY DEF TypeInv, CountsType
<1>. QED
    BY <1>1, <1>2, <1>3

\* The same CRTCs, with the same modes, and the same slots on the same screen.
LEMMA PlacedKept ==
    ASSUME Placed, scanout' = scanout, bowidth'[scanout] = bowidth[scanout],
           \A c \in Active(crtc') : c \in Active(crtc) /\ crtc'[c].rect = crtc[c].rect,
           \A s \in Slots : /\ scanouts'[s].bo = scanouts[s].bo /\ scanouts'[s].rect = scanouts[s].rect
                            /\ bowidth'[scanouts[s].bo] = bowidth[scanouts[s].bo]
    PROVE  Placed'
<1>1. RectsFit'
    BY DEF Placed, RectsFit
<1>2. SlotsFit' /\ SlotsDisjoint'
    BY DEF Placed, SlotsFit, SlotsDisjoint
<1>. QED
    BY <1>1, <1>2 DEF Placed

\* The contents after a call, on a screen that stays.
LEMMA ImagesCommitted ==
    ASSUME TypeInv', Defined', Backed', scanout' = scanout,
           NEW rc, NEW width, NEW fb, NEW img, Commit(rc, width, fb, img),
           width[scanout] = bowidth[scanout],
           flip_mode' = "DISABLED" => RootCols \subseteq img[scanout],
           flip_mode' = "ENABLED" =>
               /\ RootCols \ Covered' \subseteq img[scanout]
               /\ \A s \in Slots : scanouts'[s].bo # NoBo =>
                      Cols(scanouts'[s].rect) \subseteq img[scanouts'[s].bo],
           pixBo'[Root] # scanout /\ width[pixBo'[Root]] = bowidth[scanout]
               => RootCols \subseteq img[pixBo'[Root]]
    PROVE  Images' /\ FrontLatest'
<1>1. scanout \in Bos /\ bowidth'[scanout] = bowidth[scanout] /\ current'[scanout] = img[scanout]
    <2>1. scanout' \in Bos
        BY DEF TypeInv
    <2>. QED
        BY <2>1, HeldStays
<1>2. RootCols' = RootCols
    BY <1>1 DEF RootCols
<1>3. \A s \in Slots : scanouts'[s].bo # NoBo => current'[scanouts'[s].bo] = img[scanouts'[s].bo]
    <2>1. \A s \in Slots : scanouts'[s].bo # NoBo => scanouts'[s].bo \in Bos
        BY DEF TypeInv, TableType, SlotType
    <2>. QED
        BY <2>1, HeldStays
<1>4. /\ bowidth'[pixBo'[Root]] = width[pixBo'[Root]]
      /\ current'[pixBo'[Root]] = img[pixBo'[Root]]
    <2>1. Root \in PixIds /\ pixBo'[Root] \in Bos
        BY PixIdsFinite DEF TypeInv, PixType, BoOrNone, Backed, PixIds
    <2>. QED
        BY <2>1, HeldStays
<1>5. Images'
    BY <1>1, <1>2, <1>3 DEF Images
<1>6. FrontLatest'
    BY <1>1, <1>2, <1>4 DEF FrontLatest
<1>. QED
    BY <1>5, <1>6

\* The slots and the screen pixmap keep their bos, and these their contents.
LEMMA ImagesKept ==
    ASSUME TypeInv, TypeInv', Defined', Backed', ImageInv,
           UNCHANGED <<flip_mode, scanout, scanouts, crtc>>, pixBo'[Root] = pixBo[Root],
           NEW rc, NEW width, NEW fb, Commit(rc, width, fb, current),
           width[scanout] = bowidth[scanout], width[pixBo[Root]] = bowidth[pixBo[Root]],
           \A s \in Slots : scanouts[s].bo # NoBo => width[scanouts[s].bo] = bowidth[scanouts[s].bo]
    PROVE  ImageInv'
<1>1. Placed /\ Images /\ FrontLatest
    BY DEF ImageInv
<1>2. bowidth'[scanout] = bowidth[scanout]
    <2>1. scanout' \in Bos
        BY DEF TypeInv
    <2>. QED
        BY <2>1, HeldStays
<1>3. Placed'
    <2>1. RectsFit'
        BY <1>1, <1>2 DEF Placed, RectsFit
    <2>2. SlotsDisjoint'
        BY <1>1 DEF Placed, SlotsDisjoint
    <2>3. ASSUME NEW s \in Slots, scanouts[s].bo # NoBo
          PROVE  bowidth'[scanouts[s].bo] = bowidth[scanouts[s].bo]
        <3>1. scanouts[s].bo \in Bos
            BY <2>3, SlotRect DEF BoOrNone
        <3>. QED
            BY <2>3, <3>1, HeldStays
    <2>4. SlotsFit'
        BY <1>1, <1>2, <2>3 DEF Placed, SlotsFit
    <2>. QED
        BY <2>1, <2>2, <2>4 DEF Placed
<1>4. Covered' = Covered
    BY DEF Covered
<1>5. Images' /\ FrontLatest'
    <2>1. flip_mode' = "DISABLED" => RootCols \subseteq current[scanout]
        BY <1>1 DEF Images
    <2>2. flip_mode' = "ENABLED" =>
               /\ RootCols \ Covered' \subseteq current[scanout]
               /\ \A s \in Slots : scanouts'[s].bo # NoBo =>
                      Cols(scanouts'[s].rect) \subseteq current[scanouts'[s].bo]
        BY <1>1, <1>4 DEF Images
    <2>3. pixBo'[Root] # scanout /\ width[pixBo'[Root]] = bowidth[scanout]
               => RootCols \subseteq current[pixBo'[Root]]
        BY <1>1 DEF FrontLatest
    <2>. QED
        BY <2>1, <2>2, <2>3, ImagesCommitted
<1>. QED
    BY <1>3, <1>5 DEF ImageInv

-----------------------------------------------------------------------------
(* Between the switches.                                                   *)

\* In flip mode the screen pixmap is not backed by the root bo.
LEMMA FrontOffRoot ==
    ASSUME Backed, Apart, FrontIsSlot, call = Idle, pixBo[Root] = scanout
    PROVE  flip_mode # "ENABLED"
<1>1. flip_mode = "ENABLED" => \E s \in Slots : scanouts[s].bo = pixBo[Root]
    BY IdleType DEF FrontIsSlot
<1>. QED
    BY <1>1 DEF Backed, Apart, SlotsApart

\* A copy of slots to the root bo leaves what is in the other bos, and what is in
\* the root bo outside of the slots.
LEMMA CopiedElsewhere ==
    ASSUME TypeInv, NEW n, NEW b \in Bos
    PROVE  /\ b # scanout => CopiedToRoot(n)[b] = current[b]
           /\ n \in Nat /\ n <= MaxScanouts /\ RootCols \ Covered \subseteq current[scanout]
                => RootCols \ Covered \subseteq CopiedToRoot(n)[scanout]
<1>. DEFINE over(x) == {s \in 1..n : Filled(s) /\ scanouts[s].valid /\ x \in Cols(scanouts[s].rect)}
            last(x) == CHOOSE s \in over(x) : \A t \in over(x) : t <= s
            cols == {x \in RootCols : IF over(x) = {} THEN x \in current[scanout]
                                      ELSE x \in current[scanouts[last(x)].bo]}
<1>1. CopiedToRoot(n) = [current EXCEPT ![scanout] = cols]
    BY DEF CopiedToRoot
<1>2. scanout \in Bos /\ DOMAIN current = Bos
    BY DEF TypeInv, ImgType
<1>3. ASSUME n \in Nat, n <= MaxScanouts, NEW x \in RootCols, x \notin Covered
      PROVE  over(x) = {}
    <2>1. 1..n \subseteq Slots
        BY <1>3, SizeAssumption DEF Slots
    <2>. QED
        BY <1>3, <2>1 DEF Covered
<1>4. CopiedToRoot(n)[scanout] = cols /\ (b # scanout => CopiedToRoot(n)[b] = current[b])
    <2>. HIDE DEF cols
    <2>. QED
        BY <1>1, <1>2
<1>5. ASSUME n \in Nat, n <= MaxScanouts, RootCols \ Covered \subseteq current[scanout],
             NEW x \in RootCols \ Covered
      PROVE  x \in cols
    <2>1. over(x) = {} /\ x \in current[scanout] /\ x \in RootCols
        BY <1>3, <1>5
    <2>. HIDE DEF over, last
    <2>. QED
        BY <2>1
<1>. HIDE DEF cols
<1>. QED
    BY <1>4, <1>5

LEMMA AccessImages ==
    ASSUME Shape, Apart, FrontIsSlot, Images, FrontLatest, Access
    PROVE  Images' /\ FrontLatest'
<1>0. TypeInv /\ Backed /\ scanout \in Bos /\ current \in ImgType
    BY DEF Shape, Inv, TypeInv
<1>1. UNCHANGED <<flip_mode, scanout, scanouts, bowidth, pixBo>>
    BY DEF Access, RootWrite, RootRead, RootWriteDirect, omapVars, boVars
<1>2. RootCols' = RootCols /\ Covered' = Covered
    BY <1>1 DEF RootCols, Covered
<1>3. CASE RootWrite
    <2>1. current' = current
        BY <1>3 DEF RootWrite, boVars
    <2>. QED
        BY <1>1, <1>2, <2>1 DEF Images, FrontLatest
<1>4. ASSUME NEW x, RootWriteDirect(x)
      PROVE  Images' /\ FrontLatest'
    <2>1. pixBo[Root] = scanout /\ current' = Drawn(current, scanout, {x}, FALSE) /\ call = Idle
        BY <1>4 DEF RootWriteDirect
    <2>2. flip_mode # "ENABLED"
        BY <1>0, <2>1, FrontOffRoot
    <2>3. current'[scanout] = current[scanout]
        BY <1>0, <2>1 DEF Drawn
    <2>. QED
        BY <1>1, <1>2, <2>1, <2>2, <2>3 DEF Images, FrontLatest
<1>5. CASE RootRead
    <2>1. PICK n : current' = CopiedToRoot(n) /\ n \in Nat /\ n <= MaxScanouts
        BY <1>5, SizeAssumption DEF RootRead, Slots
    <2>2. pixBo[Root] # scanout /\ flip_mode # "DISABLED"
        BY <1>5 DEF RootRead, UpdatesRootBo
    <2>3. \A b \in Bos : b # scanout => current'[b] = current[b]
        BY <1>0, <2>1, CopiedElsewhere
    <2>4. RootCols \ Covered \subseteq current[scanout]
             => RootCols \ Covered \subseteq current'[scanout]
        BY <1>0, <2>1, CopiedElsewhere
    <2>5. \A s \in Slots : scanouts[s].bo # NoBo => current'[scanouts[s].bo] = current[scanouts[s].bo]
        BY <1>0, <2>3, SlotRect DEF Apart, SlotsApart, BoOrNone
    <2>6. current'[pixBo[Root]] = current[pixBo[Root]]
        BY <1>0, <2>2, <2>3, PixBoType, PixIdsFinite DEF Backed, BoOrNone
    <2>. QED
        BY <1>1, <1>2, <2>2, <2>4, <2>5, <2>6 DEF Images, FrontLatest
<1>. QED
    BY <1>3, <1>4, <1>5 DEF Access

LEMMA QuietImages ==
    ASSUME Shape, Apart, FrontIsSlot, ImageInv, QuietAction
    PROVE  ImageInv'
<1>0. TypeInv /\ crtc \in [Crtcs -> CrtcType] /\ Placed /\ Images /\ FrontLatest
    BY DEF Shape, Inv, TypeInv, ImageInv
<1>1. UNCHANGED <<flip_mode, scanout, scanouts, bowidth, pixBo>>
    BY <1>0, QuietFacts DEF omapVars
<1>2. Images' /\ FrontLatest'
    <2>1. CASE current' = current
        <3>1. RootCols' = RootCols /\ Covered' = Covered
            BY <1>1 DEF RootCols, Covered
        <3>. QED
            BY <1>0, <1>1, <2>1, <3>1 DEF Images, FrontLatest
    <2>2. CASE Access
        BY <1>0, <2>2, AccessImages
    <2>. QED
        BY <2>1, <2>2 DEF QuietAction, Restack, Move, Unplug, Disable, SetModeMajor, KernelFlip, boVars
<1>3. SlotsFit' /\ SlotsDisjoint'
    BY <1>0, <1>1 DEF Placed, SlotsFit, SlotsDisjoint
<1>4. RectsFit'
    <2>1. CASE crtc' = crtc
        BY <1>0, <1>1, <2>1 DEF Placed, RectsFit
    <2>2. ASSUME NEW c \in Crtcs, Unplug(c) \/ Disable(c)
          PROVE  RectsFit'
        <3>1. \/ crtc' = [crtc EXCEPT ![c].connected = ~@]
              \/ crtc' = [crtc EXCEPT ![c].enabled = FALSE]
            BY <2>2 DEF Unplug, Disable
        <3>2. \A d \in Crtcs : /\ crtc'[d].rect = crtc[d].rect
                               /\ crtc'[d].enabled => crtc[d].enabled
            BY <1>0, <3>1 DEF CrtcType
        <3>. QED
            BY <1>0, <1>1, <3>2 DEF Placed, RectsFit, Active
    <2>3. ASSUME NEW c \in Crtcs, NEW r \in RectChoices, SetModeMajor(c, r)
          PROVE  RectsFit'
        <3>1. /\ crtc' = [crtc EXCEPT ![c].rect = r, ![c].enabled = TRUE]
              /\ Fits(r, bowidth[scanout])
            BY <2>3 DEF SetModeMajor
        <3>2. crtc'[c].rect = r /\ \A d \in Crtcs \ {c} : crtc'[d] = crtc[d]
            BY <1>0, <3>1 DEF CrtcType
        <3>. QED
            BY <1>0, <1>1, <3>1, <3>2 DEF Placed, RectsFit, Active
    <2>4. (\E w \in Windows : Restack(w) \/ \E r \in RectChoices : Move(w, r)) \/ Access
             \/ (\E c \in Crtcs : KernelFlip(c)) => crtc' = crtc
        BY DEF Access, Restack, Move, RootWrite, RootRead, RootWriteDirect, KernelFlip
    <2>. QED
        BY <2>1, <2>2, <2>3, <2>4 DEF QuietAction
<1>. QED
    BY <1>2, <1>3, <1>4 DEF ImageInv, Placed

LEMMA FrontBo ==
    ASSUME TypeInv, Backed
    PROVE  Root \in PixIds /\ pixBo[Root] \in Bos
    BY PixIdsFinite DEF TypeInv, PixType, BoOrNone, Backed, PixIds

LEMMA DestroyImages ==
    ASSUME Shape, Shape', Defined', ImageInv, NEW w \in Windows, DestroyWindow(w)
    PROVE  ImageInv'
<1>0. TypeInv /\ TypeInv' /\ Backed' /\ pixBo \in PixType
    BY DEF Shape, Inv, TypeInv
<1>1. /\ UNCHANGED <<flip_mode, scanout, scanouts, crtc>>
      /\ pixBo' = DropPixmaps(win', cmd, pixBo)
    BY DEF DestroyWindow, omapVars
<1>2. pixBo'[Root] = pixBo[Root]
    BY <1>0, <1>1, DropKeepsHeld
<1>3. PICK rc : Commit(rc, bowidth, crtcFb, current)
    BY DEF DestroyWindow
<1>. QED
    BY <1>0, <1>1, <1>2, <1>3, ImagesKept

LEMMA GetBuffersImages ==
    ASSUME Shape, Shape', Defined, Defined', ImageInv, NEW w \in Windows, GetBuffers(w)
    PROVE  ImageInv'
<1>0. TypeInv /\ TypeInv' /\ Backed /\ Backed' /\ pixBo \in PixType /\ bowidth \in WidthType
    BY DEF Shape, Inv, TypeInv
<1>1. PICK p \in Nth(Pixmaps \ HeldPixmaps(win, cmd), 1), e \in Nth(FreeBos, 1) :
         LET v   == [win EXCEPT ![w] = [@ EXCEPT !.back = p, !.canflip = -1, !.stale = FALSE]]
             pix == [pixBo EXCEPT ![p] = e]
         IN  /\ win' = v
             /\ pixBo' = DropPixmaps(v, cmd, pix)
             /\ Commit(DropRefs([refcnt EXCEPT ![e] = 1], v, cmd, pix),
                       [bowidth EXCEPT ![e] = win[w].rect.w], crtcFb, current)
    BY DEF GetBuffers
<1>. DEFINE pix == [pixBo EXCEPT ![p] = e]
            wid == [bowidth EXCEPT ![e] = win[w].rect.w]
            rc  == DropRefs([refcnt EXCEPT ![e] = 1], win', cmd, pix)
<1>2. /\ p \in Pixmaps /\ e \in FreeBos /\ e \in Bos
      /\ UNCHANGED <<flip_mode, scanout, scanouts, crtc>>
    BY <1>1 DEF Nth, FreeBos, GetBuffers, omapVars
<1>3. pixBo' = DropPixmaps(win', cmd, pix) /\ Commit(rc, wid, crtcFb, current)
    BY <1>1
<1>4. pix \in PixType /\ pix[Root] = pixBo[Root]
    BY <1>0, <1>2, PixIdsFinite DEF PixType, BoOrNone
<1>5. \A b \in Bos \ {e} : wid[b] = bowidth[b]
    BY <1>0, <1>2 DEF WidthType
<1>6. e # scanout /\ e # pixBo[Root] /\ \A s \in Slots : scanouts[s].bo # e
    BY <1>0, <1>2, FreeIsNowhere, FrontBo
<1>. HIDE DEF pix, wid, rc
<1>7. pixBo'[Root] = pixBo[Root]
    BY <1>3, <1>4, DropKeepsHeld
<1>8. wid[scanout] = bowidth[scanout] /\ wid[pixBo[Root]] = bowidth[pixBo[Root]]
    BY <1>0, <1>5, <1>6, FrontBo DEF TypeInv
<1>9. \A s \in Slots : scanouts[s].bo # NoBo => wid[scanouts[s].bo] = bowidth[scanouts[s].bo]
    BY <1>0, <1>5, <1>6, SlotRect DEF BoOrNone
<1>. QED
    BY <1>0, <1>2, <1>3, <1>7, <1>8, <1>9, ImagesKept

\* The slots and their bos stay, the contents do not.
LEMMA PlacedCommitted ==
    ASSUME TypeInv, TypeInv', Defined', Placed, scanout' = scanout, crtc' = crtc,
           \A s \in Slots : scanouts'[s].bo = scanouts[s].bo /\ scanouts'[s].rect = scanouts[s].rect,
           NEW rc, NEW fb, NEW img, Commit(rc, bowidth, fb, img)
    PROVE  Placed' /\ Covered' = Covered
<1>1. bowidth'[scanout] = bowidth[scanout]
    <2>1. scanout' \in Bos
        BY DEF TypeInv
    <2>. QED
        BY <2>1, HeldStays
<1>2. ASSUME NEW s \in Slots, scanouts[s].bo # NoBo
      PROVE  bowidth'[scanouts[s].bo] = bowidth[scanouts[s].bo]
    <2>1. scanouts[s].bo \in Bos
        BY <1>2, SlotRect DEF BoOrNone
    <2>. QED
        BY <2>1, HeldStays
<1>3. RectsFit'
    BY <1>1 DEF Placed, RectsFit
<1>4. SlotsFit' /\ SlotsDisjoint'
    BY <1>1, <1>2 DEF Placed, SlotsFit, SlotsDisjoint
<1>5. Covered' = Covered
    BY DEF Covered
<1>. QED
    BY <1>3, <1>4, <1>5 DEF Placed

-----------------------------------------------------------------------------
(* The switches.                                                           *)

\* Each slot gets its part of the root bo.
LEMMA SlotsCopied ==
    ASSUME Shape, Apart, Placed, Images, DisabledInvalid, NEW m \in SetFlipMode, m.ret
    PROVE  /\ RootCols \ Covered \subseteq m.img[scanout]
           /\ \A s \in Slots : scanouts[s].bo # NoBo =>
                  Cols(scanouts[s].rect) \subseteq m.img[scanouts[s].bo]
<1>0. TypeInv /\ scanout \in Bos /\ flip_mode \in {"ENABLED", "DISABLED"}
    BY DEF Shape, Inv, TypeInv
<1>1. CASE flip_mode = "ENABLED"
    <2>1. m.img = current
        BY <1>1 DEF SetFlipMode, AlreadySet, Outcome
    <2>. QED
        BY <1>1, <2>1 DEF Images
<1>2. CASE flip_mode = "DISABLED"
    <2>1. m.img = CopiedToSlots(MaxScanouts) /\ 1..MaxScanouts = Slots
        BY <1>2 DEF SetFlipMode, Outcome, Slots
    <2>. DEFINE into(b) == {s \in Slots : Filled(s) /\ ~scanouts[s].valid /\ scanouts[s].bo = b}
    <2>2. \A b \in Bos : m.img[b] = IF into(b) = {} THEN current[b]
                  ELSE current[scanout] \cap UNION {Cols(scanouts[s].rect) : s \in into(b)}
        BY <2>1 DEF CopiedToSlots
    <2>3. RootCols \subseteq current[scanout]
        BY <1>2 DEF Images
    <2>4. m.img[scanout] = current[scanout]
        <3>1. into(scanout) = {}
            BY DEF Filled, Apart, SlotsApart
        <3>. QED
            BY <1>0, <2>2, <3>1
    <2>5. ASSUME NEW s \in Slots, scanouts[s].bo # NoBo
          PROVE  Cols(scanouts[s].rect) \subseteq m.img[scanouts[s].bo]
        <3>1. s \in into(scanouts[s].bo)
            BY <1>2, <2>5 DEF Filled, DisabledInvalid
        <3>2. scanouts[s].bo \in Bos /\ scanouts[s].rect \in Rects
            BY <1>0, <2>5, SlotRect DEF BoOrNone
        <3>3. Cols(scanouts[s].rect) \subseteq RootCols
            BY <1>0, <2>5, <3>2, FitsInRoot DEF Placed, SlotsFit
        <3>. HIDE DEF into
        <3>4. m.img[scanouts[s].bo] =
                 current[scanout] \cap UNION {Cols(scanouts[t].rect) : t \in into(scanouts[s].bo)}
            BY <2>2, <3>1, <3>2
        <3>. QED
            BY <2>3, <3>1, <3>3, <3>4
    <2>. QED
        BY <2>3, <2>4, <2>5
<1>. QED
    BY <1>0, <1>1, <1>2

\* The root bo gets the parts of all slots.
LEMMA AllCopied ==
    ASSUME Shape, Placed, Images, EnabledValid, flip_mode = "ENABLED"
    PROVE  RootCols \subseteq CopiedToRoot(MaxScanouts)[scanout]
<1>. DEFINE over(x) == {s \in 1..MaxScanouts :
                            Filled(s) /\ scanouts[s].valid /\ x \in Cols(scanouts[s].rect)}
            last(x) == CHOOSE s \in over(x) : \A t \in over(x) : t <= s
            cols == {x \in RootCols : IF over(x) = {} THEN x \in current[scanout]
                                      ELSE x \in current[scanouts[last(x)].bo]}
<1>0. TypeInv /\ SlotsFilled /\ 1..MaxScanouts = Slots /\ Slots \subseteq Nat
    BY SizeAssumption DEF Shape, Inv, Slots
<1>1. CopiedToRoot(MaxScanouts)[scanout] = cols
    <2>1. CopiedToRoot(MaxScanouts) = [current EXCEPT ![scanout] = cols]
        BY DEF CopiedToRoot
    <2>2. scanout \in Bos /\ DOMAIN current = Bos
        BY <1>0 DEF TypeInv, ImgType
    <2>. HIDE DEF cols
    <2>. QED
        BY <2>1, <2>2
<1>2. ASSUME NEW x \in RootCols
      PROVE  x \in cols
    <2>1. CASE over(x) = {}
        <3>1. ASSUME NEW s \in Slots, x \in Cols(scanouts[s].rect)
              PROVE  FALSE
            <4>1. ~Filled(s) \/ ~scanouts[s].valid
                BY <1>0, <2>1, <3>1
            <4>2. scanouts[s].bo = NoBo
                BY <4>1 DEF EnabledValid, Filled
            <4>3. scanouts[s].rect = NoRect
                BY <1>0, <4>2 DEF SlotsFilled
            <4>4. Cols(NoRect) = {}
                BY DEF Cols, NoRect
            <4>. QED
                BY <3>1, <4>3, <4>4
        <3>2. x \notin Covered
            BY <3>1 DEF Covered
        <3>3. x \in current[scanout]
            BY <1>2, <3>2 DEF Images
        <3>. HIDE DEF over, last
        <3>. QED
            BY <2>1, <3>3
    <2>2. CASE over(x) # {}
        <3>1. PICK s \in over(x) : TRUE
            BY <2>2
        <3>2. s \in Slots /\ scanouts[s].bo # NoBo /\ x \in Cols(scanouts[s].rect)
            BY <1>0, <3>1 DEF Filled
        <3>3. \A t \in over(x) : t = s
            <4>1. \A t \in over(x) : t \in Slots /\ scanouts[t].bo # NoBo /\ x \in Cols(scanouts[t].rect)
                BY <1>0 DEF Filled
            <4>. HIDE DEF over
            <4>. QED
                BY <3>2, <4>1 DEF Placed, SlotsDisjoint, Overlap
        <3>4. s <= s
            BY <1>0, <3>2
        <3>5. x \in current[scanouts[s].bo]
            BY <3>2 DEF Images
        <3>. HIDE DEF over
        <3>6. last(x) = s
            BY <3>1, <3>3, <3>4
        <3>. HIDE DEF last
        <3>. QED
            BY <2>2, <3>5, <3>6
    <2>. QED
        BY <2>1, <2>2
<1>. HIDE DEF cols
<1>. QED
    BY <1>1, <1>2

\* In blit mode, or set to it, the root bo has the latest image, and the other bos
\* have what they had.
LEMMA RootCopied ==
    ASSUME Shape, Apart, Placed, Images, EnabledValid, BlitWorks, NEW m \in SetBlitMode
    PROVE  /\ RootCols \subseteq m.img[scanout]
           /\ \A b \in Bos : b # scanout => m.img[b] = current[b]
<1>0. TypeInv /\ flip_mode \in {"ENABLED", "DISABLED"}
    BY DEF Shape, Inv, TypeInv
<1>1. CASE flip_mode = "DISABLED"
    <2>1. m.img = current
        BY <1>1 DEF SetBlitMode, AlreadySet, Outcome
    <2>. QED
        BY <1>1, <2>1 DEF Images
<1>2. CASE flip_mode = "ENABLED"
    <2>1. ToBlit.bad = {} /\ "blit_copy" \notin Faults
        BY DEF ToBlit, BlitWorks
    <2>2. m.img = CopiedToRoot(MaxScanouts)
        BY <1>2, <2>1 DEF SetBlitMode, Outcome
    <2>. QED
        BY <1>0, <1>2, <2>2, AllCopied, CopiedElsewhere
<1>. QED
    BY <1>0, <1>1, <1>2

\* A slot as wide as the screen is the screen.
LEMMA WholeScreen ==
    ASSUME TypeInv, Placed, NEW s \in Slots, scanouts[s].bo # NoBo
    PROVE  /\ Cols(scanouts[s].rect) \subseteq RootCols
           /\ bowidth[scanouts[s].bo] = bowidth[scanout] => Cols(scanouts[s].rect) = RootCols
<1>1. Fits(scanouts[s].rect, bowidth[scanout]) /\ bowidth[scanouts[s].bo] = scanouts[s].rect.w
    BY DEF Placed, SlotsFit
<1>. QED
    BY <1>1, SlotRect, FitsInRoot

LEMMA SwapFlipImages ==
    ASSUME Shape, Shape', Defined', Apart, ImageInv, DisabledInvalid, NEW w \in Windows, SwapFlip(w)
    PROVE  ImageInv'
<1>0. TypeInv /\ TypeInv' /\ Backed' /\ pixBo \in PixType /\ Placed /\ Images
    BY DEF Shape, Inv, TypeInv, ImageInv
<1>. DEFINE s == ScanoutFromSize(scanouts, win[w].rect)
<1>1. /\ s \in Slots /\ scanouts[s].bo \in Bos
      /\ pixBo' = [pixBo EXCEPT ![Root] = scanouts[s].bo]
      /\ scanout' = scanout
      /\ \A t \in Slots : scanouts'[t].bo = scanouts[t].bo /\ scanouts'[t].rect = scanouts[t].rect
    BY SwapFlipFacts
<1>2. PICK m \in SetFlipMode : m.ret /\ \E rc, fb : Commit(rc, bowidth, fb, m.img)
    BY DEF SwapFlip
<1>3. PICK rc, fb : Commit(rc, bowidth, fb, m.img)
    BY <1>2
<1>4. flip_mode' = "ENABLED" /\ crtc' = crtc
    BY DEF SwapFlip
<1>. HIDE DEF s
<1>5. Placed' /\ Covered' = Covered
    BY <1>0, <1>1, <1>3, <1>4, PlacedCommitted
<1>6. /\ RootCols \ Covered \subseteq m.img[scanout]
      /\ \A t \in Slots : scanouts[t].bo # NoBo => Cols(scanouts[t].rect) \subseteq m.img[scanouts[t].bo]
    BY <1>0, <1>2, SlotsCopied
<1>7. pixBo'[Root] = scanouts[s].bo /\ scanouts[s].bo # NoBo
    BY <1>0, <1>1, FrontBo, PixIdsFinite DEF PixType, PixIds, NoBo, Bos
<1>8. bowidth[pixBo'[Root]] = bowidth[scanout] => RootCols \subseteq m.img[pixBo'[Root]]
    BY <1>0, <1>1, <1>6, <1>7, WholeScreen
<1>9. Images' /\ FrontLatest'
    BY <1>0, <1>1, <1>3, <1>4, <1>5, <1>6, <1>8, ImagesCommitted
<1>. QED
    BY <1>5, <1>9 DEF ImageInv

\* What is drawn into the root bo is the latest image there, if the rest was.
LEMMA DrawnStays ==
    ASSUME NEW img, NEW b \in Bos, NEW cols, NEW covers, NEW all, all \subseteq img[b]
    PROVE  all \subseteq Drawn(img, b, cols, covers)[b]
    BY DEF Drawn

\* A blit in blit mode, with the screen pixmap backed by the root bo.
LEMMA BlitImages ==
    ASSUME TypeInv, TypeInv', Defined', Backed', Placed, crtc' = crtc, scanout' = scanout,
           NEW w, NEW cnt, NEW m \in SetBlitMode \cup SetFlipMode, BlitToFront(w, cnt, m),
           RootCols \subseteq m.img[scanout], flip_mode' # "ENABLED"
    PROVE  ImageInv'
<1>1. /\ pixBo' = [pixBo EXCEPT ![Root] = scanout]
      /\ \A s \in Slots : scanouts'[s].bo = scanouts[s].bo /\ scanouts'[s].rect = scanouts[s].rect
    BY BlitFacts
<1>2. PICK rc : Commit(rc, bowidth, m.fb, RegionCopied(w, m.img))
    BY DEF BlitToFront
<1>3. Placed'
    BY <1>1, <1>2, PlacedCommitted
<1>4. RootCols \subseteq RegionCopied(w, m.img)[scanout]
    <2>1. scanout \in Bos
        BY DEF TypeInv
    <2>. QED
        BY <2>1, DrawnStays DEF RegionCopied
<1>5. pixBo'[Root] = scanout
    BY <1>1, FrontBo DEF TypeInv, PixType
<1>6. Images' /\ FrontLatest'
    BY <1>2, <1>4, <1>5, ImagesCommitted
<1>. QED
    BY <1>3, <1>6 DEF ImageInv

LEMMA SwapFlipFallbackImages ==
    ASSUME Shape, Shape', Defined', Apart, ImageInv, NEW w \in Windows, SwapFlipFallback(w)
    PROVE  ImageInv'
<1>0. /\ TypeInv /\ TypeInv' /\ Backed' /\ Placed /\ Images
      /\ scanout \in Bos /\ flip_mode \in {"ENABLED", "DISABLED"}
    BY DEF Shape, Inv, TypeInv, ImageInv
<1>1. PICK m \in SetFlipMode : ~m.ret /\ BlitToFront(w, refcnt, m)
    BY DEF SwapFlipFallback
<1>2. UNCHANGED <<flip_mode, scanout, crtc>>
    BY DEF SwapFlipFallback
<1>3. flip_mode = "DISABLED"
    BY <1>0, <1>1 DEF SetFlipMode, AlreadySet, Outcome
<1>4. m.img[scanout] = current[scanout]
    <2>1. PICK n : m.img = CopiedToSlots(n) /\ 1..n \subseteq Slots
        <3>1. PICK n \in {MaxScanouts} \cup {s - 1 : s \in Slots} : m.img = CopiedToSlots(n)
            BY <1>3 DEF SetFlipMode, Outcome
        <3>2. 1..n \subseteq Slots
            BY <3>1, SizeAssumption DEF Slots
        <3>. QED
            BY <3>1, <3>2
    <2>2. {s \in 1..n : Filled(s) /\ ~scanouts[s].valid /\ scanouts[s].bo = scanout} = {}
        BY <2>1 DEF Apart, SlotsApart, Filled
    <2>. QED
        BY <1>0, <2>1, <2>2 DEF CopiedToSlots
<1>5. RootCols \subseteq m.img[scanout]
    BY <1>0, <1>3, <1>4 DEF Images
<1>. QED
    BY <1>0, <1>1, <1>2, <1>3, <1>5, BlitImages

LEMMA SwapBlitImages ==
    ASSUME Shape, ImageInv, NEW w \in Windows, SwapBlit(w)
    PROVE  ImageInv'
<1>0. TypeInv /\ pixBo \in PixType /\ Placed /\ Images
    BY DEF Shape, Inv, TypeInv, ImageInv
<1>1. /\ UNCHANGED <<flip_mode, scanout, scanouts, bowidth, crtc, current>>
      /\ pixBo' = [pixBo EXCEPT ![Root] = scanout]
    BY DEF SwapBlit, omapVars
<1>2. pixBo'[Root] = scanout
    BY <1>0, <1>1 DEF PixType
<1>3. Placed'
    BY <1>0, <1>1, PlacedKept
<1>4. Images' /\ FrontLatest'
    <2>1. RootCols' = RootCols /\ Covered' = Covered
        BY <1>1 DEF RootCols, Covered
    <2>. QED
        BY <1>0, <1>1, <1>2, <2>1 DEF Images, FrontLatest
<1>. QED
    BY <1>3, <1>4 DEF ImageInv

LEMMA SwapBlitReturnImages ==
    ASSUME Shape, Shape', Defined', Apart, ImageInv, EnabledValid, BlitWorks, SwapBlitReturn
    PROVE  ImageInv'
<1>0. TypeInv /\ TypeInv' /\ Backed' /\ Placed /\ Images
    BY DEF Shape, Inv, ImageInv
<1>1. PICK m, rc : m \in SetBlitMode /\ BlitToFront(call.win, rc, m)
    BY BlitSucceeds DEF SwapBlitReturn
<1>2. flip_mode' = "DISABLED" /\ scanout' = scanout /\ crtc' = crtc
    BY BlitSucceeds DEF SwapBlitReturn
<1>3. RootCols \subseteq m.img[scanout]
    BY <1>0, <1>1, RootCopied
<1>. QED
    BY <1>0, <1>1, <1>2, <1>3, BlitImages

LEMMA RootWriteReturnImages ==
    ASSUME Shape, Shape', Defined', Apart, ImageInv, EnabledValid, BlitWorks,
           NEW x, RootWriteReturn(x)
    PROVE  ImageInv'
<1>0. TypeInv /\ TypeInv' /\ Backed' /\ Placed /\ Images /\ scanout \in Bos /\ pixBo \in PixType
    BY DEF Shape, Inv, TypeInv, ImageInv
<1>1. PICK m \in SetBlitMode :
         /\ scanouts' = m.tab /\ flip_mode' = "DISABLED"
         /\ pixBo' = [pixBo EXCEPT ![Root] = scanout]
         /\ \E rc : Commit(rc, bowidth, m.fb, Drawn(m.img, scanout, {x}, FALSE))
    BY BlitSucceeds DEF RootWriteReturn
<1>2. PICK rc : Commit(rc, bowidth, m.fb, Drawn(m.img, scanout, {x}, FALSE))
    BY <1>1
<1>3. scanout' = scanout /\ crtc' = crtc
    BY DEF RootWriteReturn
<1>4. \A s \in Slots : scanouts'[s].bo = scanouts[s].bo /\ scanouts'[s].rect = scanouts[s].rect
    BY <1>0, <1>1, BosKept
<1>5. Placed'
    BY <1>0, <1>2, <1>3, <1>4, PlacedCommitted
<1>6. RootCols \subseteq Drawn(m.img, scanout, {x}, FALSE)[scanout]
    <2>1. RootCols \subseteq m.img[scanout]
        BY <1>0, RootCopied
    <2>. QED
        BY <1>0, <2>1, DrawnStays
<1>7. pixBo'[Root] = scanout
    BY <1>0, <1>1 DEF PixType
<1>8. Images' /\ FrontLatest'
    BY <1>0, <1>1, <1>2, <1>3, <1>6, <1>7, ImagesCommitted
<1>. QED
    BY <1>5, <1>8 DEF ImageInv

\* A slot that a table makes is that of a CRTC.
LEMMA TableRect ==
    ASSUME NEW tab, NEW act \in SUBSET Crtcs, NEW rects, NEW free, NEW n,
           NEW s \in Slots, UpdatedTable(tab, act, rects, free, n)[s].bo # NoBo
    PROVE  LET slot == UpdatedTable(tab, act, rects, free, n)[s]
           IN  \E c \in act : /\ Rank(act, c) = s /\ slot.rect = rects[c]
                              /\ slot = NewSlot(tab, act, rects, free, c)
<1>. DEFINE slot == UpdatedTable(tab, act, rects, free, n)[s]
<1>1. slot # EmptySlot
    BY DEF EmptySlot
<1>2. PICK c \in act : Rank(act, c) = s /\ slot = NewSlot(tab, act, rects, free, c)
    BY <1>1, TableSlot
<1>. HIDE DEF slot
<1>3. slot.rect = rects[c]
    BY <1>2 DEF NewSlot
<1>. QED
    BY <1>2, <1>3 DEF slot

\* Two slots of a table made for CRTCs that are apart are apart.
LEMMA TableDisjoint ==
    ASSUME NEW tab, NEW act \in SUBSET Crtcs, NEW rects, NEW free, NEW n,
           \A c, d \in act : c # d => ~Overlap(rects[c], rects[d])
    PROVE  LET new == UpdatedTable(tab, act, rects, free, n)
           IN  \A s, t \in Slots : s # t /\ new[s].bo # NoBo /\ new[t].bo # NoBo =>
                  ~Overlap(new[s].rect, new[t].rect)
<1>. DEFINE new == UpdatedTable(tab, act, rects, free, n)
<1>1. ASSUME NEW s \in Slots, new[s].bo # NoBo
      PROVE  \E c \in act : Rank(act, c) = s /\ new[s].rect = rects[c]
    BY <1>1, TableRect
<1>. HIDE DEF new
<1>2. ASSUME NEW s \in Slots, NEW t \in Slots, s # t, new[s].bo # NoBo, new[t].bo # NoBo
      PROVE  ~Overlap(new[s].rect, new[t].rect)
    BY <1>1, <1>2
<1>. QED
    BY <1>2 DEF new

\* Only a bo that was free gets a width.
LEMMA SlotWidth ==
    ASSUME TypeInv, NEW b \in Bos, NEW tab
    PROVE  /\ refcnt[b] > 0 => SlotWidths(bowidth, tab)[b] = bowidth[b]
           /\ \A s \in Slots :
                b \in FreeBos /\ tab[s].bo = b /\ (\A t \in Slots : tab[t].bo = b => t = s)
                  => SlotWidths(bowidth, tab)[b] = tab[s].rect.w
<1>. DEFINE at == {s \in Slots : refcnt[b] = 0 /\ tab[s].bo = b}
<1>1. SlotWidths(bowidth, tab)[b] = IF at = {} THEN bowidth[b] ELSE tab[The(at)].rect.w
    BY DEF SlotWidths
<1>2. refcnt[b] > 0 => at = {}
    OBVIOUS
<1>3. ASSUME NEW s \in Slots, b \in FreeBos, tab[s].bo = b, \A t \in Slots : tab[t].bo = b => t = s
      PROVE  tab[The(at)].rect.w = tab[s].rect.w /\ at # {}
    <2>1. at = {s}
        BY <1>3 DEF FreeBos
    <2>. HIDE DEF at
    <2>2. The(at) = s
        BY <2>1 DEF The
    <2>. QED
        BY <2>1, <2>2
<1>. HIDE DEF at
<1>. QED
    BY <1>1, <1>2, <1>3

LEMMA SetModeMajorImages ==
    ASSUME Shape, Shape', Defined, Defined', Apart, Apart', RectsApart, ImageInv, EnabledValid,
           BlitWorks, SetModeMajorReturn, crtc' = crtc
    PROVE  ImageInv'
<1>. DEFINE act   == Active(crtc)
            rects == CrtcRects(crtc)
            width == SlotWidths(bowidth, scanouts')
<1>0. /\ TypeInv /\ TypeInv' /\ Backed /\ Backed' /\ SlotsFilled /\ scanout \in Bos
      /\ Placed /\ Images /\ FrontLatest
    BY DEF Shape, Inv, TypeInv, ImageInv
<1>1. /\ flip_mode' = "DISABLED" /\ scanout' = scanout /\ pixBo' = pixBo
      /\ \E tab \in TableType, n \in Nat :
            /\ \A s \in Slots : tab[s].bo = scanouts[s].bo /\ tab[s].rect = scanouts[s].rect
            /\ Cardinality(Starved(tab, act, rects)) <= Cardinality(FreeBos)
            /\ scanouts' = UpdatedTable(tab, act, rects, FreeBos, n)
    BY SetModeMajorFacts
<1>2. PICK tab \in TableType, n \in Nat :
         /\ \A s \in Slots : tab[s].bo = scanouts[s].bo /\ tab[s].rect = scanouts[s].rect
         /\ Cardinality(Starved(tab, act, rects)) <= Cardinality(FreeBos)
         /\ scanouts' = UpdatedTable(tab, act, rects, FreeBos, n)
    BY <1>1
<1>3. PICK m \in (IF flip_mode = "DISABLED" THEN SetOneCrtc(call.crtc) ELSE SetBlitMode) :
         \E rc : Commit(rc, width, m.fb, m.img)
    <2>1. \A c : \A m \in SetOneCrtc(c) : m.ret
        BY DEF SetOneCrtc, Outcome, BlitWorks
    <2>2. PICK m \in (IF flip_mode = "DISABLED" THEN SetOneCrtc(call.crtc) ELSE SetBlitMode) :
             \E u : scanouts' = u.tab /\ Commit(u.rc, SlotWidths(bowidth, u.tab), m.fb, m.img)
        BY <2>1, BlitSucceeds DEF SetModeMajorReturn
    <2>3. PICK u : scanouts' = u.tab /\ Commit(u.rc, SlotWidths(bowidth, u.tab), m.fb, m.img)
        BY <2>2
    <2>. QED
        BY <2>3
<1>4. PICK rc : Commit(rc, width, m.fb, m.img)
    BY <1>3
<1>5. RootCols \subseteq m.img[scanout] /\ \A b \in Bos : b # scanout => m.img[b] = current[b]
    <2>1. CASE flip_mode = "DISABLED"
        <3>1. m.img = current
            BY <1>3, <2>1 DEF SetOneCrtc, Outcome, BlitWorks
        <3>. QED
            BY <1>0, <2>1, <3>1 DEF Images
    <2>2. CASE flip_mode # "DISABLED"
        BY <1>0, <1>3, <2>2, RootCopied
    <2>. QED
        BY <2>1, <2>2
<1>6. /\ \A c \in act : rects[c] # NoRect
      /\ act \in SUBSET Crtcs /\ FreeBos \in SUBSET Bos
      /\ \A t \in Slots : tab[t].bo = NoBo => tab[t].rect = NoRect
    <2>1. \A c \in act : rects[c] # NoRect
        BY <1>0, DisplayAssumption DEF Active, CrtcRects, TypeInv, CrtcType, NoRect
    <2>. QED
        BY <1>0, <1>2, <2>1, ActiveType, FreeBosType DEF SlotsFilled
<1>7. SlotsDisjoint' /\ \A s \in Slots : scanouts'[s].bo # NoBo =>
                            \E c \in act : scanouts'[s].rect = crtc[c].rect
    <2>1. \A c \in act : c \in Crtcs /\ rects[c] = crtc[c].rect
        BY DEF Active, CrtcRects
    <2>2. \A c, d \in act : c # d => ~Overlap(rects[c], rects[d])
        BY <2>1 DEF RectsApart
    <2>. DEFINE new == UpdatedTable(tab, act, rects, FreeBos, n)
    <2>. HIDE DEF act, rects
    <2>3. act \in SUBSET Crtcs
        BY <1>6
    <2>4. \A s, t \in Slots : s # t /\ new[s].bo # NoBo /\ new[t].bo # NoBo =>
                ~Overlap(new[s].rect, new[t].rect)
        BY <2>2, <2>3, TableDisjoint
    <2>5. ASSUME NEW s \in Slots, new[s].bo # NoBo
          PROVE  \E c \in act : new[s].rect = rects[c]
        BY <2>3, <2>5, TableRect
    <2>6. scanouts' = new
        BY <1>2
    <2>. HIDE DEF new
    <2>. QED
        BY <2>1, <2>4, <2>5, <2>6 DEF SlotsDisjoint
<1>8. ASSUME NEW b \in Bos, b = scanout \/ (\E s \in Slots : scanouts[s].bo = b) \/ b = pixBo[Root]
      PROVE  width[b] = bowidth[b]
    <2>1. refcnt[b] > 0
        BY <1>0, <1>8, LitHeld, PixIdsFinite
    <2>. QED
        BY <1>0, <2>1, SlotWidth
<1>9. width[scanout] = bowidth[scanout] /\ width[pixBo[Root]] = bowidth[pixBo[Root]]
    BY <1>0, <1>8, FrontBo
<1>10. ASSUME NEW s \in Slots, scanouts'[s].bo # NoBo
       PROVE  scanouts'[s].bo \in Bos /\ width[scanouts'[s].bo] = scanouts'[s].rect.w
    <2>. DEFINE new == UpdatedTable(tab, act, rects, FreeBos, n)
    <2>. HIDE DEF act, rects, width
    <2>1. \/ new[s] = EmptySlot
          \/ /\ new[s].bo \in Bos
             /\ \/ new[s].bo \in FreeBos
                \/ \E t \in Slots : tab[t].bo = new[s].bo /\ tab[t].rect = new[s].rect
        BY <1>2, <1>6, UpdatedSlot
    <2>. HIDE DEF new
    <2>2. new = scanouts'
        BY <1>2 DEF new
    <2>3. scanouts'[s].bo \in Bos
        BY <1>10, <2>1, <2>2 DEF EmptySlot
    <2>4. CASE scanouts'[s].bo \in FreeBos
        <3>1. \A t \in Slots : scanouts'[t].bo = scanouts'[s].bo => t = s
            BY <1>10 DEF Apart, SlotsApart
        <3>. QED
            BY <1>0, <2>3, <2>4, <3>1, SlotWidth DEF width
    <2>5. ASSUME NEW t \in Slots, tab[t].bo = scanouts'[s].bo, tab[t].rect = scanouts'[s].rect
          PROVE  width[scanouts'[s].bo] = scanouts'[s].rect.w
        <3>1. scanouts[t].bo = scanouts'[s].bo /\ scanouts[t].rect = scanouts'[s].rect
            BY <1>2, <2>5
        <3>2. bowidth[scanouts[t].bo] = scanouts[t].rect.w
            BY <1>0, <1>10, <3>1 DEF Placed, SlotsFit
        <3>. QED
            BY <1>8, <2>3, <3>1, <3>2
    <2>. QED
        BY <1>10, <2>1, <2>2, <2>3, <2>4, <2>5 DEF EmptySlot
<1>. HIDE DEF width
<1>11. bowidth'[scanout] = bowidth[scanout]
    BY <1>0, <1>1, <1>4, <1>9, HeldStays
<1>12. RectsFit'
    BY <1>0, <1>1, <1>11 DEF Placed, RectsFit
<1>13. SlotsFit'
    <2>1. ASSUME NEW s \in Slots, scanouts'[s].bo # NoBo
          PROVE  /\ Fits(scanouts'[s].rect, bowidth'[scanout])
                 /\ bowidth'[scanouts'[s].bo] = scanouts'[s].rect.w
        <3>1. Fits(scanouts'[s].rect, bowidth[scanout])
            BY <1>0, <1>7, <2>1 DEF Placed, RectsFit
        <3>2. bowidth'[scanouts'[s].bo] = width[scanouts'[s].bo]
            BY <1>0, <1>4, <1>10, <2>1, HeldStays
        <3>. QED
            BY <1>10, <1>11, <2>1, <3>1, <3>2
    <2>. QED
        BY <1>1, <2>1 DEF SlotsFit
<1>14. pixBo'[Root] # scanout /\ width[pixBo'[Root]] = bowidth[scanout]
          => RootCols \subseteq m.img[pixBo'[Root]]
    BY <1>0, <1>1, <1>5, <1>9, FrontBo DEF FrontLatest
<1>15. Images' /\ FrontLatest'
    BY <1>0, <1>1, <1>4, <1>5, <1>9, <1>14, ImagesCommitted
<1>. QED
    BY <1>7, <1>12, <1>13, <1>15 DEF ImageInv, Placed

\* The flipped bo has the latest image of its place, where the slots apart from
\* its own have none.
LEMMA CompleteFlipImages ==
    ASSUME Shape, Shape', Defined', Apart, InFlight, ImageInv,
           UNCHANGED <<flip_mode, scanout, crtc>>, flip_mode = "ENABLED",
           NEW k \in Live, Answers(k), CompleteFlip(k)
    PROVE  ImageInv'
<1>. DEFINE new == pixBo[cmd[k].src]
            at  == Place(k)
            img == Drawn(current, new, Cols(at), TRUE)
            T   == Target(k)
<1>0. /\ TypeInv /\ TypeInv' /\ Backed /\ Backed' /\ scanout \in Bos /\ scanout' \in Bos
      /\ Placed /\ Images
    BY DEF Shape, Inv, TypeInv, ImageInv
<1>1. /\ cmd[k].src \in Pixmaps /\ new \in Bos /\ T \in Slots /\ scanouts[T].bo = pixBo[Root]
      /\ \A s \in Slots :
            /\ scanouts'[s].bo = IF s = T THEN new ELSE scanouts[s].bo
            /\ scanouts'[s].rect = scanouts[s].rect
      /\ pixBo'[Root] = new
    BY CompleteFlipFacts
<1>2. scanouts[T].bo # NoBo
    BY <1>0, <1>1 DEF Backed
<1>3. scanouts[T].rect = at /\ at.w = bowidth[new]
    <2>1. T # 0
        BY DEF InFlight
    <2>2. scanouts[T].rect = at
        BY <2>1, LookupFirst DEF Target
    <2>. QED
        BY <2>2 DEF Place
<1>4. new # scanout /\ \A s \in Slots : scanouts[s].bo # new
    <2>1. new # NoBo
        BY <1>1 DEF NoBo, Bos
    <2>. QED
        BY <1>1, <2>1 DEF Apart, BacksApart
<1>5. PICK rc : Commit(rc, bowidth, crtcFb, img)
    BY DEF CompleteFlip, CompleteCmd, Place
<1>. HIDE DEF at, T, new
<1>6. /\ img[new] = current[new] \cup Cols(at)
      /\ \A b \in Bos : b # new => img[b] = current[b] \ Cols(at)
    BY <1>1 DEF Drawn
<1>. HIDE DEF img
<1>7. bowidth'[scanout] = bowidth[scanout] /\ bowidth'[new] = bowidth[new]
    <2>1. scanout' = scanout
        OBVIOUS
    <2>2. bowidth'[scanout] = bowidth[scanout]
        BY <1>0, <1>5, <2>1, HeldStays
    <2>3. bowidth'[new] = bowidth[new]
        BY <1>0, <1>1, <1>5, HeldStays
    <2>. QED
        BY <2>2, <2>3
<1>8. ASSUME NEW s \in Slots, scanouts'[s].bo # NoBo
      PROVE  /\ scanouts[s].bo # NoBo
             /\ bowidth'[scanouts'[s].bo] = scanouts'[s].rect.w
             /\ Cols(scanouts'[s].rect) \subseteq img[scanouts'[s].bo]
    <2>1. CASE s = T
        BY <1>1, <1>2, <1>3, <1>6, <1>7, <2>1
    <2>2. CASE s # T
        <3>1. scanouts'[s].bo = scanouts[s].bo /\ scanouts[s].bo # NoBo /\ scanouts[s].bo # new
            BY <1>1, <1>4, <1>8, <2>2
        <3>2. scanouts[s].bo \in Bos
            BY <1>0, <3>1, SlotRect DEF BoOrNone
        <3>3. bowidth'[scanouts[s].bo] = bowidth[scanouts[s].bo]
            BY <1>0, <1>5, <3>1, <3>2, HeldStays
        <3>4. bowidth[scanouts[s].bo] = scanouts[s].rect.w
            BY <1>0, <3>1 DEF Placed, SlotsFit
        <3>5. ~Overlap(scanouts[s].rect, at)
            BY <1>0, <1>1, <1>2, <1>3, <2>2, <3>1 DEF Placed, SlotsDisjoint
        <3>6. Cols(scanouts[s].rect) \subseteq current[scanouts[s].bo]
            BY <1>0, <3>1 DEF Images
        <3>7. Cols(scanouts[s].rect) \subseteq img[scanouts[s].bo]
            BY <1>6, <3>1, <3>2, <3>5, <3>6 DEF Overlap
        <3>. QED
            BY <1>1, <3>1, <3>3, <3>4, <3>7
    <2>. QED
        BY <2>1, <2>2
<1>9. Covered' = Covered
    BY <1>1 DEF Covered
<1>10. Cols(at) \subseteq Covered
    BY <1>1, <1>3 DEF Covered
<1>11. RootCols \ Covered' \subseteq img[scanout]
    <2>1. RootCols \ Covered \subseteq current[scanout]
        BY <1>0 DEF Images
    <2>. QED
        BY <1>0, <1>4, <1>6, <1>9, <1>10, <2>1
<1>12. Placed'
    <2>1. RectsFit'
        BY <1>0, <1>7 DEF Placed, RectsFit
    <2>2. SlotsFit'
        <3>1. \A s \in Slots : scanouts'[s].bo # NoBo => Fits(scanouts'[s].rect, bowidth'[scanout'])
            BY <1>0, <1>1, <1>7, <1>8 DEF Placed, SlotsFit
        <3>. QED
            BY <1>8, <3>1 DEF SlotsFit
    <2>3. SlotsDisjoint'
        BY <1>0, <1>1, <1>8 DEF Placed, SlotsDisjoint
    <2>. QED
        BY <2>1, <2>2, <2>3 DEF Placed
<1>13. bowidth[pixBo'[Root]] = bowidth[scanout] => RootCols \subseteq img[pixBo'[Root]]
    <2>1. Fits(at, bowidth[scanout]) /\ at \in Rects
        BY <1>0, <1>1, <1>2, <1>3, SlotRect DEF Placed, SlotsFit
    <2>2. bowidth[new] = bowidth[scanout] => Cols(at) = RootCols
        BY <1>0, <1>3, <2>1, FitsInRoot
    <2>. QED
        BY <1>1, <1>6, <2>2
<1>14. Images' /\ FrontLatest'
    BY <1>0, <1>5, <1>8, <1>11, <1>13, ImagesCommitted
<1>. QED
    BY <1>12, <1>14 DEF ImageInv

LEMMA HandleEventImages ==
    ASSUME Shape, Shape', Defined', Apart, InFlight, LitInv, call.op # "close", ImageInv, HandleEvent
    PROVE  ImageInv'
<1>. DEFINE k == Head(events)[2]
<1>0. Inv
    BY DEF Shape
<1>1. k \in Live /\ flip_mode = "ENABLED" /\ UNCHANGED <<flip_mode, scanout, crtc>>
    BY <1>0, HandledCommand
<1>2. \/ UNCHANGED <<scanouts, boVars, pixBo>>
      \/ Answers(k) /\ CompleteFlip(k)
      \/ ~Answers(k) /\ DropFlip(k)
    BY DEF HandleEvent
<1>. HIDE DEF k
<1>3. CASE UNCHANGED <<scanouts, boVars, pixBo>>
    <2>1. UNCHANGED <<scanouts, bowidth, current, pixBo, flip_mode, scanout, crtc>>
        BY <1>1, <1>3 DEF boVars
    <2>. QED
        BY <2>1 DEF ImageInv, Placed, RectsFit, SlotsFit, SlotsDisjoint, Images, FrontLatest,
                    RootCols, Covered
<1>4. CASE Answers(k) /\ CompleteFlip(k)
    BY <1>1, <1>4, CompleteFlipImages
<1>5. CASE ~Answers(k) /\ DropFlip(k)
    BY <1>1, <1>5 DEF LitInv, AllAnswer
<1>. QED
    BY <1>2, <1>3, <1>4, <1>5

LEMMA StepImages ==
    ASSUME Shape, Shape', Defined', Apart, Apart', InFlight, FrontIsSlot, RectsApart, LitInv,
           EnabledValid, DisabledInvalid, call.op # "close", ImageInv, BlitWorks, Uncloned,
           Undisturbed, "regenerate" \notin Env, Next
    PROVE  ImageInv'
<1>0. TypeInv /\ Defined
    BY DEF Shape, Inv, Next
<1>1. ASSUME QuietAction
      PROVE  ImageInv'
    BY <1>1, QuietImages
<1>2. ASSUME NEW w \in Windows, Client(w)
      PROVE  ImageInv'
    BY <1>0, <1>1, <1>2, GetBuffersImages, DestroyImages DEF Client, QuietAction
<1>3. ASSUME NEW w \in Windows, Swap(w)
      PROVE  ImageInv'
    BY <1>3, SwapFlipImages, SwapFlipFallbackImages, SwapBlitImages DEF Swap
<1>4. ASSUME Access
      PROVE  ImageInv'
    BY <1>1, <1>4 DEF QuietAction
<1>5. ASSUME Config
      PROVE  ImageInv'
    <2>1. ~CloseScreen /\ \A d \in Widths : ~Resize(d)
        BY DEF CloseScreen, Resize, Undisturbed
    <2>. QED
        BY <1>1, <1>5, <2>1 DEF Config, QuietAction
<1>6. ASSUME Return
      PROVE  ImageInv'
    <2>1. CASE SetModeMajorReturn
        <3>1. crtc' = crtc
            BY <1>0, <2>1, SetModeMajorCrtcs
        <3>. QED
            BY <1>0, <2>1, <3>1, SetModeMajorImages
    <2>2. ~ScreenInit
        BY DEF ScreenInit
    <2>. QED
        BY <1>6, <2>1, <2>2, SwapBlitReturnImages, RootWriteReturnImages DEF Return
<1>7. ASSUME HandleEvent
      PROVE  ImageInv'
    BY <1>7, HandleEventImages
<1>8. ASSUME NEW c \in Crtcs, KernelFlip(c)
      PROVE  ImageInv'
    BY <1>1, <1>8 DEF QuietAction
<1>. QED
    BY <1>2, <1>3, <1>4, <1>5, <1>6, <1>7, <1>8 DEF Next

LEMMA ImageStep ==
    ASSUME BlitWorks, Separate, Uncloned, Undisturbed, "regenerate" \notin Env
    PROVE  ScreenInv /\ LitInv /\ ModeInv /\ DisabledInvalid /\ call.op # "close" /\ ImageInv /\ [Next]_vars
             => ImageInv'
<1>. SUFFICES ASSUME ScreenInv, LitInv, ModeInv, DisabledInvalid, call.op # "close", ImageInv,
                     [Next]_vars
              PROVE  ImageInv'
    OBVIOUS
<1>1. ScreenInv'
    BY ScreenStep
<1>2. Defined' /\ Shape' /\ Apart'
    <2>1. (RefsInv => Defined)'
        BY RefsDefined, PTL
    <2>. QED
        BY <1>1, <2>1 DEF ScreenInv, FlightInv, FrontInv
<1>3. CASE Next
    BY <1>2, <1>3, StepImages DEF ScreenInv, FlightInv, FrontInv, ModeInv
<1>4. CASE UNCHANGED vars
    <2>1. UNCHANGED <<flip_mode, scanout, scanouts, bowidth, current, pixBo, crtc>>
        BY <1>4 DEF vars, omapVars, boVars
    <2>. QED
        BY <2>1 DEF ImageInv, Placed, RectsFit, SlotsFit, SlotsDisjoint, Images, FrontLatest,
                    RootCols, Covered
<1>. QED
    BY <1>3, <1>4

LEMMA InitImages ==
    ASSUME Uncloned
    PROVE  Init => ImageInv
<1>. SUFFICES ASSUME Init
              PROVE  ImageInv
    OBVIOUS
<1>. DEFINE tab   == [s \in Slots |-> EmptySlot]
            table == UpdatedTable(tab, Crtcs, InitRect, Bos \ {1}, NumCrtc)
            right == [c \in Crtcs |-> InitRect[c].x + InitRect[c].w]
            last  == CHOOSE c \in Crtcs : \A d \in Crtcs : right[d] <= right[c]
<1>1. /\ scanouts = table /\ scanout = 1 /\ flip_mode = "DISABLED"
      /\ \A c \in Crtcs : crtc[c].rect = InitRect[c]
    BY DEF Init, InitUpdate, UpdateDone
<1>2. pixBo[Root] = 1
    BY PixIdsFinite DEF Init
<1>3. /\ 1 \in Bos /\ \A c \in Crtcs : c + 1 \in Bos
      /\ bowidth[1] = InitWidth /\ current[1] = RootCols
      /\ \A c \in Crtcs : bowidth[c + 1] = InitRect[c].w
    <2>1. 1 \in Bos /\ \A c \in Crtcs : c + 1 \in Bos /\ c + 1 # 1 /\ c + 1 <= NumCrtc + 1 /\ (c + 1) - 1 = c
        BY SizeAssumption, DisplayAssumption DEF Bos, Crtcs
    <2>2. bowidth[1] = InitWidth /\ current[1] = RootCols
        BY <2>1 DEF Init
    <2>3. ASSUME NEW c \in Crtcs
          PROVE  bowidth[c + 1] = InitRect[c].w
        BY <2>1 DEF Init
    <2>. QED
        BY <2>1, <2>2, <2>3
<1>4. \A c \in Crtcs : InitRect[c].x \in Nat /\ InitRect[c].w \in Nat /\ InitRect[c] # NoRect
    BY DisplayAssumption DEF Rects, NoRect
<1>5. ASSUME NEW c \in Crtcs
      PROVE  Fits(InitRect[c], InitWidth)
    <2>1. right \in [Crtcs -> Nat]
        BY <1>4
    <2>2. right[c] = InitRect[c].x + InitRect[c].w
        OBVIOUS
    <2>. HIDE DEF right
    <2>3. last \in Crtcs /\ right[c] <= right[last]
        BY <2>1, LargestExists
    <2>4. InitWidth = right[last]
        BY DEF InitWidth, right
    <2>. QED
        BY <2>2, <2>3, <2>4 DEF Fits
<1>. HIDE DEF right, last
<1>6. RectsFit
    BY <1>1, <1>3, <1>5 DEF RectsFit, Active
<1>7. \A s \in Slots : tab[s].rect = NoRect
    BY DEF EmptySlot
<1>8. Starved(tab, Crtcs, InitRect) = Crtcs /\ Cardinality(Crtcs) <= Cardinality(Bos \ {1})
      /\ \A c \in Crtcs : Taken(tab, Crtcs, InitRect, c) = {}
    <2>1. ASSUME NEW c \in Crtcs
          PROVE  Taken(tab, Crtcs, InitRect, c) = {}
        <3>1. {s \in Slots : tab[s].rect = InitRect[c]} = {}
            BY <1>4, <1>7
        <3>. QED
            BY <3>1 DEF Taken, Nth
    <2>2. Starved(tab, Crtcs, InitRect) = Crtcs
        BY <2>1 DEF Starved
    <2>. QED
        BY <2>1, <2>2, InitStarved
<1>. HIDE DEF tab
<1>9. ASSUME NEW c \in Crtcs
      PROVE  NewSlot(tab, Crtcs, InitRect, Bos \ {1}, c).bo = c + 1
    <2>1. Rank(Crtcs, c) = c
        <3>1. {d \in Crtcs : d <= c} = 1..c
            BY SizeAssumption DEF Crtcs
        <3>2. Cardinality(1..c) = c
            BY SizeAssumption, FS_Interval DEF Crtcs
        <3>. QED
            BY <3>1, <3>2 DEF Rank
    <2>2. NewBo(tab, Crtcs, InitRect, Bos \ {1}, c) = c + 1
        BY <1>8, <2>1, InitNewBo
    <2>. QED
        BY <1>8, <2>2 DEF NewSlot
<1>10. /\ SlotsDisjoint
       /\ \A s \in Slots : scanouts[s].bo # NoBo =>
            \E c \in Crtcs : scanouts[s].bo = c + 1 /\ scanouts[s].rect = InitRect[c]
    <2>1. \A c, d \in Crtcs : c # d => ~Overlap(InitRect[c], InitRect[d])
        BY DEF Uncloned
    <2>2. Crtcs \in SUBSET Crtcs
        OBVIOUS
    <2>3. \A s, t \in Slots : s # t /\ table[s].bo # NoBo /\ table[t].bo # NoBo =>
                ~Overlap(table[s].rect, table[t].rect)
        BY <2>1, <2>2, TableDisjoint
    <2>4. ASSUME NEW s \in Slots, table[s].bo # NoBo
          PROVE  \E c \in Crtcs : /\ table[s] = NewSlot(tab, Crtcs, InitRect, Bos \ {1}, c)
                                  /\ table[s].rect = InitRect[c]
        BY <2>2, <2>4, TableRect
    <2>. HIDE DEF table
    <2>. QED
        BY <1>1, <1>9, <2>3, <2>4 DEF SlotsDisjoint
<1>11. SlotsFit
    BY <1>1, <1>3, <1>5, <1>10 DEF SlotsFit
<1>. QED
    BY <1>1, <1>2, <1>3, <1>6, <1>10, <1>11 DEF ImageInv, Placed, Images, FrontLatest

LatestInv == /\ ScreenInv /\ LitInv /\ ModeInv /\ DisabledInvalid /\ ImageInv
             /\ call.op # "close"

LEMMA LatestInvariant ==
    ASSUME BlitWorks, Separate, Uncloned, Undisturbed, "regenerate" \notin Env
    PROVE  (Init => LatestInv) /\ (LatestInv /\ [Next]_vars => LatestInv')
<1>1. Init => LatestInv
    BY InitScreen, InitLit, InitMode, InitImages, IdleType DEF Init, LatestInv
<1>2. LatestInv /\ [Next]_vars => LatestInv'
    <2>. SUFFICES ASSUME LatestInv, [Next]_vars
                  PROVE  LatestInv'
        OBVIOUS
    <2>1. ScreenInv' /\ LitInv' /\ ModeInv' /\ DisabledInvalid'
        BY LitStep, ModeStep DEF LatestInv
    <2>2. ImageInv' /\ call'.op # "close"
        BY ImageStep, StaysOpen DEF LatestInv
    <2>. QED
        BY <2>1, <2>2 DEF LatestInv
<1>. QED
    BY <1>1, <1>2

LEMMA RectOnScreen ==
    ASSUME TypeInv, Placed, NEW c \in Active(crtc)
    PROVE  Cols(crtc[c].rect) \subseteq RootCols
<1>1. c \in Crtcs /\ crtc[c].rect \in Rects
    BY DisplayAssumption DEF TypeInv, CrtcType, Active
<1>2. Fits(crtc[c].rect, bowidth[scanout])
    BY DEF Placed, RectsFit
<1>. QED
    BY <1>1, <1>2, FitsInRoot

\* Once the flips are done every enabled CRTC shows the latest image of its part of
\* the screen, whether it scans out the root bo or a slot: through any mixture of
\* drawing by the CPU, swaps that flip or blit, mode switches and mode sets, refused
\* page flips and failed copies to the slots.  Besides what keeps the CRTCs lit, no
\* new server generation begins: that loses the image.
THEOREM ScreenShowsLatest ==
    ASSUME BlitWorks, Separate, Uncloned, Undisturbed, "regenerate" \notin Env
    PROVE  Spec => []ShowsLatest
<1>1. LatestInv => ShowsLatest
    <2>. SUFFICES ASSUME LatestInv, call = Idle, pending_flips = 0, NEW c \in Active(crtc),
                         crtcFb[c] # NoBo
                  PROVE  Cols(crtc[c].rect) \subseteq current[crtcFb[c]]
        BY DEF ShowsLatest
    <2>1. /\ Inv /\ TypeInv /\ Placed /\ Images
          /\ c \in Steady
        BY SteadyType DEF LatestInv, ScreenInv, FlightInv, FrontInv, Shape, Inv, ImageInv
    <2>2. Live = {}
        BY <2>1, NoneLive
    <2>3. Lights(crtcFb[c])
        BY <2>1 DEF LatestInv, LitInv, Alight
    <2>4. CASE flip_mode = "DISABLED"
        BY <2>1, <2>3, <2>4, RectOnScreen DEF Lights, Images
    <2>5. CASE flip_mode # "DISABLED"
        <3>1. flip_mode = "ENABLED" /\ \E s \in Slots : crtcFb[c] = scanouts[s].bo
            BY <2>2, <2>3, <2>5 DEF Lights
        <3>2. PICK s \in Slots : crtcFb[c] = scanouts[s].bo
            BY <3>1
        <3>3. crtc[c].rect = scanouts[s].rect
            BY <2>1, <3>2 DEF LatestInv, ScreenInv, Shows, Facing
        <3>. QED
            BY <2>1, <3>1, <3>2, <3>3 DEF Images
    <2>. QED
        BY <2>4, <2>5
<1>2. Init => LatestInv
    BY LatestInvariant
<1>3. LatestInv /\ [Next]_vars => LatestInv'
    BY LatestInvariant
<1>. QED
    BY <1>1, <1>2, <1>3, PTL DEF Spec

\* A CPU read of the screen pixmap sees the latest image of what the CRTCs show, from
\* whichever bo PrepareAccess hands out: the root bo after a copy of all slots, the
\* root bo as it is, or the bo that backs the screen pixmap.
THEOREM ReadsGetLatest ==
    ASSUME BlitWorks, Separate, Uncloned, Undisturbed, "regenerate" \notin Env
    PROVE  Spec => []ReadsLatest
<1>1. LatestInv => ReadsLatest
    <2>. DEFINE from == IF UpdatesRootBo THEN CopiedToRoot(MaxScanouts)[scanout]
                        ELSE current[IF ReadsRootBo THEN scanout ELSE pixBo[Root]]
    <2>. SUFFICES ASSUME LatestInv, call = Idle
                  PROVE  Visible \subseteq from
        BY DEF ReadsLatest
    <2>1. /\ Shape /\ TypeInv /\ Backed /\ Apart /\ FrontIsSlot /\ Placed /\ Images /\ FrontLatest
          /\ EnabledValid /\ flip_mode \in {"ENABLED", "DISABLED"}
        BY DEF LatestInv, ScreenInv, FlightInv, FrontInv, Shape, Inv, TypeInv, ImageInv, ModeInv
    <2>2. Visible \subseteq RootCols
        BY <2>1, RectOnScreen DEF Visible
    <2>3. RootCols \subseteq from
        <3>1. CASE UpdatesRootBo
            <4>1. flip_mode = "ENABLED"
                BY <2>1, <3>1 DEF UpdatesRootBo
            <4>2. RootCols \subseteq CopiedToRoot(MaxScanouts)[scanout]
                BY <2>1, <4>1, AllCopied
            <4>. QED
                BY <3>1, <4>2
        <3>2. CASE ~UpdatesRootBo /\ ReadsRootBo
            <4>1. flip_mode = "DISABLED"
                BY <2>1, <3>2, FrontOffRoot DEF UpdatesRootBo, ReadsRootBo
            <4>2. RootCols \subseteq current[scanout]
                BY <2>1, <4>1 DEF Images
            <4>. QED
                BY <3>2, <4>2
        <3>3. CASE ~UpdatesRootBo /\ ~ReadsRootBo
            <4>1. RootCols \subseteq current[pixBo[Root]]
                BY <2>1, <3>3 DEF ReadsRootBo, FullSize, FrontLatest
            <4>. QED
                BY <3>3, <4>1
        <3>. QED
            BY <3>1, <3>2, <3>3
    <2>. HIDE DEF from
    <2>. QED
        BY <2>2, <2>3
<1>2. Init => LatestInv
    BY LatestInvariant
<1>3. LatestInv /\ [Next]_vars => LatestInv'
    BY LatestInvariant
<1>. QED
    BY <1>1, <1>2, <1>3, PTL DEF Spec
=============================================================================
