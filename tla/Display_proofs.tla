--------------------------- MODULE Display_proofs ---------------------------
(***************************************************************************)
(* Type correctness of Display and the accounting of flips: for every      *)
(* number of CRTCs, slots, windows, commands and buffers, in every         *)
(* environment and under every fault, the variables have their types, the  *)
(* events that are under way, swapCount and pending_flips agree, and every *)
(* step is one that the DRI2 contract allows.  And, where no switch to     *)
(* blit mode fails, the reference counts of the bos, what the driver holds *)
(* and the valid flags of the slots.  DisplayScreen_proofs goes on from    *)
(* here to what is on the screen.                                          *)
(***************************************************************************)
EXTENDS DisplayProperties, Scanouts_proofs, SequenceTheorems

BoOrNone  == Bos \cup {NoBo}
CountsType  == [Bos -> Int]
WidthType == [Bos -> Nat]
FbType    == [Crtcs -> BoOrNone]
ImgType   == [Bos -> SUBSET Int]
PixType   == [Pixmaps \cup {Root} -> BoOrNone]
WinsType  == [Windows -> WinType]
CmdsType  == [CmdIds -> CmdType \cup {FreeCmd}]

\* TypeOK in these names; and a mode set under way remembers a mode of the CRTC,
\* without which TypeOK is not inductive.
TypeInv ==
    /\ flip_mode \in {"ENABLED", "DISABLED"}
    /\ scanout \in Bos
    /\ scanouts \in TableType
    /\ pending_flips \in Int
    /\ has_resized \in BOOLEAN
    /\ refcnt \in CountsType /\ bowidth \in WidthType
    /\ crtcFb \in FbType /\ current \in ImgType
    /\ pixBo \in PixType
    /\ win \in WinsType
    /\ cmd \in CmdsType
    /\ crtc \in [Crtcs -> CrtcType]
    /\ kflip \in [Crtcs -> CmdIds \cup {NoCmd}]
    /\ events \in Seq(Crtcs \X CmdIds)
    /\ call \in CallType /\ (call.op = "modeset" => call.rect \in RectChoices)

LEMMA TypeInvImpliesTypeOK == TypeInv => TypeOK
    BY DEF TypeInv, TypeOK, BoOrNone, CountsType, WidthType, FbType, ImgType, PixType,
           WinsType, CmdsType

-----------------------------------------------------------------------------
(* The operators of DisplayState yield values of their types.              *)

LEMMA RectType == RectChoices \subseteq Rects
    BY DisplayAssumption

LEMMA ColsType ==
    ASSUME NEW r
    PROVE  Cols(r) \subseteq Int
    BY DEF Cols

LEMMA ShownType ==
    ASSUME NEW rc, NEW fb \in FbType
    PROVE  Shown(rc, fb) \in FbType
    BY DEF Shown, FbType, BoOrNone

LEMMA CommitType ==
    ASSUME NEW rc \in CountsType, NEW width \in WidthType, NEW fb \in FbType,
           NEW img \in ImgType, Commit(rc, width, fb, img)
    PROVE  /\ refcnt' \in CountsType /\ bowidth' \in WidthType
           /\ crtcFb' \in FbType /\ current' \in ImgType
<1>1. crtcFb' \in FbType
    BY ShownType DEF Commit
<1>2. refcnt' \in CountsType /\ bowidth' \in WidthType
    BY DEF Commit, CountsType, WidthType
<1>3. current' \in ImgType
    BY DEF Commit, ImgType
<1>. QED
    BY <1>1, <1>2, <1>3

LEMMA DrawnType ==
    ASSUME NEW img \in ImgType, NEW b, NEW cols \in SUBSET Int, NEW covers
    PROVE  Drawn(img, b, cols, covers) \in ImgType
    BY DEF Drawn, ImgType

LEMMA PixmapsFinite == IsFiniteSet(Pixmaps)
    BY DisplayAssumption, FS_Interval DEF Pixmaps

LEMMA DropType ==
    ASSUME NEW w, NEW c, NEW pix \in PixType, NEW rc \in CountsType
    PROVE  DropPixmaps(w, c, pix) \in PixType /\ DropRefs(rc, w, c, pix) \in CountsType
<1>1. DropPixmaps(w, c, pix) \in PixType
    BY DEF DropPixmaps, PixType, BoOrNone
<1>2. ASSUME NEW b \in Bos
      PROVE  Cardinality({p \in Freed(w, c, pix) : pix[p] = b}) \in Int
    <2>1. {p \in Freed(w, c, pix) : pix[p] = b} \in SUBSET Pixmaps
        BY DEF Freed
    <2>. QED
        BY <2>1, PixmapsFinite, FS_Subset, FS_CardinalityType
<1>3. DropRefs(rc, w, c, pix) \in CountsType
    BY <1>2 DEF DropRefs, CountsType
<1>. QED
    BY <1>1, <1>3

LEMMA RememberType ==
    ASSUME win \in WinsType, NEW w, NEW flip \in BOOLEAN, NEW pending \in {0, 1}
    PROVE  Remember(w, flip, pending) \in WinsType
<1>. DEFINE now  == IF flip THEN 1 ELSE 0
            bump == has_resized \/ win[w].canflip \notin {-1, now}
<1>1. now \in {-1, 0, 1}
    OBVIOUS
<1>2. bump \in BOOLEAN
    OBVIOUS
<1>3. ASSUME NEW v \in Windows
      PROVE  /\ [win[v] EXCEPT !.stale = @ \/ bump, !.canflip = now, !.pending = pending] \in WinType
             /\ [win[v] EXCEPT !.stale = @ \/ (bump /\ win[v].back # NoPix)] \in WinType
    <2>. HIDE DEF bump, now
    <2>1. win[v] \in WinType /\ win[v].stale \in BOOLEAN
        BY DEF WinsType, WinType
    <2>2. (win[v].stale \/ bump) \in BOOLEAN /\ (win[v].stale \/ (bump /\ win[v].back # NoPix)) \in BOOLEAN
        BY <2>1, <1>2
    <2>. QED
        BY <1>1, <2>1, <2>2 DEF WinType
<1>. QED
    BY <1>3 DEF Remember, WinsType

-----------------------------------------------------------------------------
(* The outcomes of the two mode switches.                                  *)

OutcomeOK(m) == /\ m.ret \in BOOLEAN
                /\ m.tab \in TableType /\ m.img \in ImgType /\ m.fb \in FbType

LEMMA OutcomeType ==
    ASSUME NEW ret \in BOOLEAN, NEW tab \in TableType, NEW img \in ImgType, NEW fb \in FbType
    PROVE  OutcomeOK(Outcome(ret, tab, img, fb))
    BY DEF OutcomeOK, Outcome

LEMMA CopiedToRootType ==
    ASSUME current \in ImgType, NEW n
    PROVE  CopiedToRoot(n) \in ImgType
<1>1. RootCols \subseteq Int
    BY ColsType DEF RootCols
<1>. QED
    BY <1>1 DEF CopiedToRoot, ImgType

LEMMA CopiedToSlotsType ==
    ASSUME current \in ImgType, scanout \in Bos, NEW n
    PROVE  CopiedToSlots(n) \in ImgType
<1>1. current[scanout] \subseteq Int
    BY DEF ImgType
<1>. QED
    BY <1>1 DEF CopiedToSlots, ImgType

LEMMA MarkedType ==
    ASSUME scanouts \in TableType, NEW n
    PROVE  Invalidated(n) \in TableType /\ Validated(n) \in TableType
<1>1. \A s \in Slots : /\ scanouts[s] \in SlotType
                       /\ [scanouts[s] EXCEPT !.valid = FALSE] \in SlotType
                       /\ [scanouts[s] EXCEPT !.valid = TRUE] \in SlotType
    BY DEF TableType, SlotType
<1>. QED
    BY <1>1 DEF Invalidated, Validated, TableType

LEMMA TargetType ==
    ASSUME scanout \in Bos, scanouts \in TableType, NEW fb \in FbType
    PROVE  BlitTarget(fb) \in FbType /\ FlipTarget(fb) \in FbType
<1>1. BlitTarget(fb) \in FbType
    BY DEF BlitTarget, FbType, BoOrNone
<1>2. ASSUME NEW c \in FlipCrtcs
      PROVE  scanouts[ScanoutFromSize(scanouts, crtc[c].rect)].bo \in BoOrNone
    <2>1. ScanoutFromSize(scanouts, crtc[c].rect) \in Slots
        BY LookupType DEF FlipCrtcs
    <2>. QED
        BY <2>1 DEF TableType, SlotType, BoOrNone
<1>3. FlipTarget(fb) \in FbType
    BY <1>2 DEF FlipTarget, FbType
<1>. QED
    BY <1>1, <1>3

LEMMA ToBlitType ==
    ASSUME scanout \in Bos, scanouts \in TableType, crtcFb \in FbType
    PROVE  ToBlit.ok \in FbType /\ ToBlit.bad \subseteq FbType
    BY TargetType DEF ToBlit, Unwound, FbType, BoOrNone

LEMMA ToFlipType ==
    ASSUME scanout \in Bos, scanouts \in TableType, crtcFb \in FbType
    PROVE  ToFlip.ok \in FbType /\ ToFlip.bad \subseteq FbType
    BY TargetType DEF ToFlip, Unwound, FbType, BoOrNone

LEMMA AlreadySetType ==
    ASSUME TypeInv, NEW m \in AlreadySet
    PROVE  OutcomeOK(m)
    BY OutcomeType DEF TypeInv, AlreadySet

LEMMA SetBlitModeType ==
    ASSUME TypeInv, NEW m \in SetBlitMode
    PROVE  OutcomeOK(m)
<1>. DEFINE tab == Invalidated(MaxScanouts)
            img == CopiedToRoot(MaxScanouts)
<1>1. CASE m \in AlreadySet
    BY <1>1, AlreadySetType
<1>2. CASE \E s \in Slots : m = Outcome(FALSE, Invalidated(s - 1), CopiedToRoot(s - 1), crtcFb)
    BY <1>2, OutcomeType, MarkedType, CopiedToRootType DEF TypeInv
<1>3. CASE \E fb \in ToBlit.bad : m = Outcome(FALSE, tab, img, fb)
    BY <1>3, OutcomeType, MarkedType, CopiedToRootType, ToBlitType DEF TypeInv
<1>4. CASE m = Outcome(TRUE, tab, img, ToBlit.ok)
    BY <1>4, OutcomeType, MarkedType, CopiedToRootType, ToBlitType DEF TypeInv
<1>. QED
    BY <1>1, <1>2, <1>3, <1>4 DEF SetBlitMode

LEMMA SetFlipModeType ==
    ASSUME TypeInv, NEW m \in SetFlipMode
    PROVE  OutcomeOK(m)
<1>. DEFINE tab == Validated(MaxScanouts)
            img == CopiedToSlots(MaxScanouts)
<1>1. CASE m \in AlreadySet
    BY <1>1, AlreadySetType
<1>2. CASE \E s \in Slots : m = Outcome(FALSE, Validated(s - 1), CopiedToSlots(s - 1), crtcFb)
    BY <1>2, OutcomeType, MarkedType, CopiedToSlotsType DEF TypeInv
<1>3. CASE \E fb \in ToFlip.bad : m = Outcome(FALSE, tab, img, fb)
    BY <1>3, OutcomeType, MarkedType, CopiedToSlotsType, ToFlipType DEF TypeInv
<1>4. CASE m = Outcome(TRUE, tab, img, ToFlip.ok)
    BY <1>4, OutcomeType, MarkedType, CopiedToSlotsType, ToFlipType DEF TypeInv
<1>. QED
    BY <1>1, <1>2, <1>3, <1>4 DEF SetFlipMode

LEMMA SetOneCrtcType ==
    ASSUME TypeInv, NEW c, NEW m \in SetOneCrtc(c)
    PROVE  OutcomeOK(m)
<1>1. [crtcFb EXCEPT ![c] = scanout] \in FbType
    BY DEF TypeInv, FbType, BoOrNone
<1>. QED
    BY <1>1, OutcomeType DEF TypeInv, SetOneCrtc

-----------------------------------------------------------------------------
(* Every action preserves TypeInv.                                         *)

LEMMA WindowType ==
    ASSUME TypeInv, NEW w \in Windows
    PROVE  /\ win[w] \in WinType /\ win[w].rect \in RectChoices
           /\ win[w].rect.x \in Nat /\ win[w].rect.w \in Nat
           /\ win[w].back \in Pixmaps \cup {NoPix}
           /\ win[w].alive \in BOOLEAN /\ win[w].clipped \in BOOLEAN
    BY RectType DEF TypeInv, WinsType, WinType, Rects

LEMMA PixBoType ==
    ASSUME TypeInv
    PROVE  pixBo[Root] \in BoOrNone /\ \A p \in Pixmaps : pixBo[p] \in BoOrNone
    BY DEF TypeInv, PixType

LEMMA GetBuffersType ==
    ASSUME TypeInv, NEW w \in Windows, GetBuffers(w)
    PROVE  TypeInv'
<1>1. PICK p \in Nth(Pixmaps \ HeldPixmaps(win, cmd), 1), b \in Nth(FreeBos, 1) :
         LET v   == [win EXCEPT ![w] = [@ EXCEPT !.back = p, !.canflip = -1, !.stale = FALSE]]
             pix == [pixBo EXCEPT ![p] = b]
         IN  /\ win' = v
             /\ pixBo' = DropPixmaps(v, cmd, pix)
             /\ Commit(DropRefs([refcnt EXCEPT ![b] = 1], v, cmd, pix),
                       [bowidth EXCEPT ![b] = win[w].rect.w], crtcFb, current)
    BY DEF GetBuffers
<1>. DEFINE v   == [win EXCEPT ![w] = [@ EXCEPT !.back = p, !.canflip = -1, !.stale = FALSE]]
            pix == [pixBo EXCEPT ![p] = b]
            rc  == [refcnt EXCEPT ![b] = 1]
            wid == [bowidth EXCEPT ![b] = win[w].rect.w]
<1>2. p \in Pixmaps /\ b \in Bos
    BY DEF Nth, FreeBos
<1>3. v \in WinsType
    <2>1. [win[w] EXCEPT !.back = p, !.canflip = -1, !.stale = FALSE] \in WinType
        BY <1>2, WindowType DEF WinType
    <2>. QED
        BY <2>1 DEF TypeInv, WinsType
<1>4. pix \in PixType
    BY <1>2 DEF TypeInv, PixType, BoOrNone
<1>5. rc \in CountsType /\ wid \in WidthType
    BY <1>2, WindowType DEF TypeInv, CountsType, WidthType
<1>6. /\ win' = v /\ pixBo' = DropPixmaps(v, cmd, pix)
      /\ Commit(DropRefs(rc, v, cmd, pix), wid, crtcFb, current)
    BY <1>1
<1>. HIDE DEF v, pix, rc, wid
<1>7. pixBo' \in PixType /\ DropRefs(rc, v, cmd, pix) \in CountsType
    BY <1>4, <1>5, <1>6, DropType
<1>8. /\ refcnt' \in CountsType /\ bowidth' \in WidthType
      /\ crtcFb' \in FbType /\ current' \in ImgType
    BY <1>5, <1>6, <1>7, CommitType DEF TypeInv
<1>. QED
    BY <1>3, <1>6, <1>7, <1>8 DEF GetBuffers, TypeInv, omapVars, flipVars

LEMMA OnTopType ==
    ASSUME TypeInv, NEW w, NEW r \in RectChoices
    PROVE  OnTop(w, r) \in WinsType
<1>1. \A v \in Windows : /\ win[v] \in WinType
                         /\ [win[v] EXCEPT !.rect = r, !.clipped = FALSE] \in WinType
                         /\ [win[v] EXCEPT !.clipped = TRUE] \in WinType
    BY DEF TypeInv, WinsType, WinType
<1>. QED
    BY <1>1 DEF OnTop, WinsType

LEMMA RestackType ==
    ASSUME TypeInv, NEW w \in Windows, Restack(w)
    PROVE  TypeInv'
<1>1. win' \in WinsType
    <2>1. CASE win' = OnTop(w, win[w].rect)
        BY <2>1, OnTopType, WindowType
    <2>2. CASE win' = [win EXCEPT ![w].clipped = TRUE]
        BY <2>2 DEF TypeInv, WinsType, WinType
    <2>. QED
        BY <2>1, <2>2 DEF Restack
<1>. QED
    BY <1>1 DEF Restack, TypeInv, omapVars, flipVars, boVars

LEMMA MoveType ==
    ASSUME TypeInv, NEW w \in Windows, NEW r \in RectChoices, Move(w, r)
    PROVE  TypeInv'
    BY OnTopType DEF Move, TypeInv, omapVars, flipVars, boVars

LEMMA DeadWindowType ==
    ASSUME TypeInv, NEW w \in Windows
    PROVE  DeadWindow(w) \in WinType
    BY DEF TypeInv, DeadWindow, WinsType, WinType

LEMMA DestroyWindowType ==
    ASSUME TypeInv, NEW w \in Windows, DestroyWindow(w)
    PROVE  TypeInv'
<1>. DEFINE v == [win EXCEPT ![w] = DeadWindow(w)]
<1>1. v \in WinsType
    BY DeadWindowType DEF TypeInv, WinsType
<1>2. /\ win' = v /\ pixBo' = DropPixmaps(v, cmd, pixBo)
      /\ Commit(DropRefs(refcnt, v, cmd, pixBo), bowidth, crtcFb, current)
    BY DEF DestroyWindow
<1>. HIDE DEF v
<1>3. pixBo' \in PixType /\ DropRefs(refcnt, v, cmd, pixBo) \in CountsType
    BY <1>2, DropType DEF TypeInv
<1>4. /\ refcnt' \in CountsType /\ bowidth' \in WidthType
      /\ crtcFb' \in FbType /\ current' \in ImgType
    BY <1>2, <1>3, CommitType DEF TypeInv
<1>. QED
    BY <1>1, <1>2, <1>3, <1>4 DEF DestroyWindow, TypeInv, omapVars, flipVars

-----------------------------------------------------------------------------
LEMMA PageFlipType ==
    ASSUME NEW w, NEW fb, NEW p \in PageFlip(w, fb)
    PROVE  /\ p.ret \in BOOLEAN /\ p.flipped \in SUBSET Crtcs
           /\ \A c \in p.flipped : kflip[c] = NoCmd
<1>. DEFINE busy      == {c \in Matching(w) : kflip[c] # NoCmd \/ fb[c] = NoBo}
            before(c) == {d \in Matching(w) : d < c}
<1>1. Matching(w) \subseteq Crtcs
    BY DEF Matching
<1>2. CASE \E c : before(c) \cap busy = {} /\ p = [ret |-> FALSE, flipped |-> before(c)]
    <2>1. PICK c : before(c) \cap busy = {} /\ p = [ret |-> FALSE, flipped |-> before(c)]
        BY <1>2
    <2>2. p.ret = FALSE /\ p.flipped = before(c)
        BY <2>1
    <2>. QED
        BY <1>1, <2>1, <2>2
<1>3. CASE busy = {} /\ p = [ret |-> TRUE, flipped |-> Matching(w)]
    BY <1>1, <1>3
<1>. QED
    BY <1>2, <1>3 DEF PageFlip

LEMMA ValidateBoType ==
    ASSUME NEW tab \in TableType, NEW b
    PROVE  ValidateBo(tab, b) \in TableType
<1>1. \A s \in Slots : tab[s] \in SlotType /\ [tab[s] EXCEPT !.valid = TRUE] \in SlotType
    BY DEF TableType, SlotType
<1>. QED
    BY <1>1 DEF ValidateBo, TableType

LEMMA FlipQueuedType ==
    ASSUME TypeInv, NEW w \in Windows, win[w].back # NoPix,
           NEW p, p.ret \in BOOLEAN, p.flipped \in SUBSET Crtcs, FlipQueued(w, p)
    PROVE  /\ pending_flips' \in Int /\ cmd' \in CmdsType
           /\ kflip' \in [Crtcs -> CmdIds \cup {NoCmd}] /\ win' \in WinsType
           /\ events' \in Seq(Crtcs \X CmdIds)
<1>1. PICK k \in Nth(CmdIds \ Live, 1) :
        /\ pending_flips' = pending_flips + 1
        /\ cmd' = [cmd EXCEPT ![k] = NewCmd(w, p)]
        /\ kflip' = [c \in Crtcs |-> IF c \in p.flipped THEN k ELSE kflip[c]]
        /\ win' = Remember(w, TRUE, IF p.ret THEN 1 ELSE 0)
        /\ UNCHANGED events
    BY DEF FlipQueued
<1>2. k \in CmdIds
    BY DEF Nth
<1>3. Cardinality(p.flipped) \in Nat
    BY CrtcsFinite, FS_Subset, FS_CardinalityType
<1>4. cmd' \in CmdsType
    <2>1. NewCmd(w, p) \in CmdType
        BY <1>3, WindowType DEF NewCmd, CmdType
    <2>. QED
        BY <1>1, <1>2, <2>1 DEF TypeInv, CmdsType
<1>5. win' \in WinsType
    BY <1>1, RememberType DEF TypeInv
<1>6. kflip' \in [Crtcs -> CmdIds \cup {NoCmd}]
    BY <1>1, <1>2 DEF TypeInv
<1>7. pending_flips' \in Int /\ events' \in Seq(Crtcs \X CmdIds)
    BY <1>1 DEF TypeInv
<1>. QED
    BY <1>4, <1>5, <1>6, <1>7

LEMMA BlitToFrontType ==
    ASSUME TypeInv, NEW w, NEW rc \in CountsType, NEW m, OutcomeOK(m), BlitToFront(w, rc, m)
    PROVE  /\ pixBo' \in PixType /\ scanouts' \in TableType /\ has_resized' \in BOOLEAN
           /\ refcnt' \in CountsType /\ bowidth' \in WidthType
           /\ crtcFb' \in FbType /\ current' \in ImgType
<1>. DEFINE old  == pixBo[Root]
            cnt  == IF old = scanout THEN rc ELSE Unreference(Reference(rc, scanout), old)
            cols == Cols(win[w].rect) \cap RootCols
            img  == Drawn(m.img, scanout, cols, ~win[w].clipped)
<1>1. cnt \in CountsType
    BY RefsType DEF CountsType
<1>2. cols \in SUBSET Int
    BY ColsType
<1>3. m.img \in ImgType /\ m.tab \in TableType /\ m.fb \in FbType
    BY DEF OutcomeOK
<1>4. Commit(cnt, bowidth, m.fb, img)
    BY DEF BlitToFront, RegionCopied
<1>. HIDE DEF cnt, cols
<1>5. img \in ImgType
    BY <1>2, <1>3, DrawnType
<1>. HIDE DEF img
<1>6. /\ refcnt' \in CountsType /\ bowidth' \in WidthType
      /\ crtcFb' \in FbType /\ current' \in ImgType
    BY <1>1, <1>3, <1>4, <1>5, CommitType DEF TypeInv
<1>7. pixBo' \in PixType
    BY DEF BlitToFront, TypeInv, PixType, BoOrNone
<1>8. scanouts' \in TableType /\ has_resized' \in BOOLEAN
    BY <1>3 DEF BlitToFront, TableType, SlotType
<1>. QED
    BY <1>6, <1>7, <1>8

LEMMA SwapFlipType ==
    ASSUME TypeInv, NEW w \in Windows, SwapFlip(w)
    PROVE  TypeInv'
<1>. DEFINE b  == scanouts[ScanoutFromSize(scanouts, win[w].rect)].bo
            rc == Unreference(Reference(refcnt, b), pixBo[Root])
<1>1. PICK m \in SetFlipMode :
         /\ m.ret
         /\ \E p \in PageFlip(w, Shown(rc, m.fb)) :
              /\ Commit(rc, bowidth,
                        [c \in Crtcs |-> IF c \in p.flipped THEN pixBo[win[w].back]
                                         ELSE Shown(rc, m.fb)[c]], m.img)
              /\ scanouts' = IF p.ret /\ p.flipped = {} THEN ValidateBo(m.tab, b) ELSE m.tab
              /\ \/ p.flipped # {} /\ FlipQueued(w, p)
                 \/ p.flipped = {} /\ FlipNotQueued(w)
         /\ pixBo' = [pixBo EXCEPT ![Root] = b]
         /\ flip_mode' = "ENABLED"
    BY DEF SwapFlip
<1>. DEFINE fb == Shown(rc, m.fb)
<1>2. PICK p \in PageFlip(w, fb) :
         /\ Commit(rc, bowidth, [c \in Crtcs |-> IF c \in p.flipped THEN pixBo[win[w].back]
                                                 ELSE fb[c]], m.img)
         /\ scanouts' = IF p.ret /\ p.flipped = {} THEN ValidateBo(m.tab, b) ELSE m.tab
         /\ \/ p.flipped # {} /\ FlipQueued(w, p)
            \/ p.flipped = {} /\ FlipNotQueued(w)
    BY <1>1
<1>3. b \in BoOrNone
    BY LookupType DEF SwapFlip, CanFlip, TypeInv, TableType, SlotType, BoOrNone
<1>4. m.tab \in TableType /\ m.img \in ImgType /\ m.fb \in FbType
    BY SetFlipModeType DEF OutcomeOK
<1>5. rc \in CountsType
    BY RefsType DEF TypeInv, CountsType
<1>. HIDE DEF b, rc
<1>6. fb \in FbType
    BY <1>4, ShownType
<1>. HIDE DEF fb
<1>7. p.ret \in BOOLEAN /\ p.flipped \in SUBSET Crtcs
    BY <1>2, PageFlipType
<1>8. win[w].back \in Pixmaps /\ win[w].back # NoPix /\ pixBo[win[w].back] \in BoOrNone
    BY WindowType, PixBoType DEF SwapFlip, SwapReady
<1>9. /\ refcnt' \in CountsType /\ bowidth' \in WidthType
      /\ crtcFb' \in FbType /\ current' \in ImgType
    <2>1. [c \in Crtcs |-> IF c \in p.flipped THEN pixBo[win[w].back] ELSE fb[c]] \in FbType
        BY <1>6, <1>8 DEF FbType
    <2>. QED
        BY <2>1, <1>2, <1>4, <1>5, CommitType DEF TypeInv
<1>10. scanouts' \in TableType
    BY <1>2, <1>4, ValidateBoType
<1>11. pixBo' \in PixType
    BY <1>1, <1>3 DEF TypeInv, PixType
<1>12. /\ pending_flips' \in Int /\ cmd' \in CmdsType
       /\ kflip' \in [Crtcs -> CmdIds \cup {NoCmd}] /\ win' \in WinsType
       /\ events' \in Seq(Crtcs \X CmdIds)
    <2>1. CASE FlipQueued(w, p)
        BY <2>1, <1>7, <1>8, FlipQueuedType
    <2>2. CASE FlipNotQueued(w)
        BY <2>2, RememberType DEF FlipNotQueued, TypeInv, flipVars
    <2>. QED
        BY <1>2, <2>1, <2>2
<1>. QED
    BY <1>1, <1>9, <1>10, <1>11, <1>12 DEF SwapFlip, TypeInv

LEMMA SwapFlipFallbackType ==
    ASSUME TypeInv, NEW w \in Windows, SwapFlipFallback(w)
    PROVE  TypeInv'
<1>1. PICK m \in SetFlipMode : ~m.ret /\ BlitToFront(w, refcnt, m)
    BY DEF SwapFlipFallback
<1>2. OutcomeOK(m)
    BY SetFlipModeType
<1>3. /\ pixBo' \in PixType /\ scanouts' \in TableType /\ has_resized' \in BOOLEAN
      /\ refcnt' \in CountsType /\ bowidth' \in WidthType
      /\ crtcFb' \in FbType /\ current' \in ImgType
    BY <1>1, <1>2, BlitToFrontType DEF TypeInv
<1>4. win' \in WinsType
    BY RememberType DEF SwapFlipFallback, TypeInv
<1>. QED
    BY <1>3, <1>4 DEF SwapFlipFallback, TypeInv, flipVars

LEMMA CanFlipType ==
    ASSUME TypeInv, NEW w \in Windows
    PROVE  CanFlip(w) \in BOOLEAN
    BY DEF CanFlip

LEMMA SwapBlitType ==
    ASSUME TypeInv, NEW w \in Windows, SwapBlit(w)
    PROVE  TypeInv'
<1>1. pixBo' \in PixType
    BY DEF SwapBlit, TypeInv, PixType, BoOrNone
<1>2. refcnt' \in CountsType
    BY RefsType DEF SwapBlit, TypeInv, CountsType
<1>3. call' \in CallType /\ call'.op = "swap"
    <2>1. [Idle EXCEPT !.op = "swap", !.win = w, !.old = pixBo[Root], !.canflip = CanFlip(w)] \in CallType
        BY PixBoType, CanFlipType DEF Idle, CallType, BoOrNone, NoRect, Rects
    <2>. QED
        BY <2>1 DEF SwapBlit, Idle
<1>. QED
    BY <1>1, <1>2, <1>3 DEF SwapBlit, TypeInv, omapVars, flipVars

LEMMA IdleType == Idle \in CallType /\ Idle.op = "idle"
    BY DEF Idle, CallType, NoRect, Rects

LEMMA SwapBlitReturnType ==
    ASSUME TypeInv, SwapBlitReturn
    PROVE  TypeInv'
<1>1. PICK m \in SetBlitMode :
         \/ /\ m.ret
            /\ BlitToFront(call.win, Unreference(refcnt, call.old), m)
            /\ flip_mode' = "DISABLED"
            /\ win' = Remember(call.win, call.canflip, 0)
         \/ /\ ~m.ret
            /\ Commit(Unreference(refcnt, scanout), bowidth, m.fb, m.img)
            /\ scanouts' = m.tab
            /\ UNCHANGED <<flip_mode, has_resized, pixBo, win>>
    BY DEF SwapBlitReturn
<1>2. OutcomeOK(m)
    BY SetBlitModeType
<1>3. call' = Idle /\ UNCHANGED <<scanout, flipVars, crtc>>
    BY DEF SwapBlitReturn
<1>4. CASE m.ret
    <2>1. Unreference(refcnt, call.old) \in CountsType
        BY RefsType DEF TypeInv, CountsType
    <2>2. /\ pixBo' \in PixType /\ scanouts' \in TableType /\ has_resized' \in BOOLEAN
          /\ refcnt' \in CountsType /\ bowidth' \in WidthType
          /\ crtcFb' \in FbType /\ current' \in ImgType
        BY <1>1, <1>2, <1>4, <2>1, BlitToFrontType
    <2>3. win' \in WinsType
        BY <1>1, <1>4, RememberType DEF TypeInv, CallType
    <2>. QED
        BY <1>1, <1>3, <1>4, <2>2, <2>3, IdleType DEF TypeInv, flipVars
<1>5. CASE ~m.ret
    <2>1. Unreference(refcnt, scanout) \in CountsType
        BY RefsType DEF TypeInv, CountsType
    <2>2. /\ refcnt' \in CountsType /\ bowidth' \in WidthType
          /\ crtcFb' \in FbType /\ current' \in ImgType
        BY <1>1, <1>2, <1>5, <2>1, CommitType DEF TypeInv, OutcomeOK
    <2>. QED
        BY <1>1, <1>2, <1>3, <1>5, <2>2, IdleType DEF TypeInv, flipVars, OutcomeOK
<1>. QED
    BY <1>2, <1>4, <1>5 DEF OutcomeOK

-----------------------------------------------------------------------------
LEMMA KernelFlipType ==
    ASSUME TypeInv, NEW c \in Crtcs, KernelFlip(c)
    PROVE  TypeInv'
<1>1. kflip[c] \in CmdIds
    BY DEF KernelFlip, TypeInv
<1>2. events' \in Seq(Crtcs \X CmdIds)
    BY <1>1 DEF KernelFlip, TypeInv
<1>3. kflip' \in [Crtcs -> CmdIds \cup {NoCmd}]
    BY DEF KernelFlip, TypeInv
<1>. QED
    BY <1>2, <1>3 DEF KernelFlip, TypeInv, omapVars, boVars

LEMMA CompleteCmdType ==
    ASSUME TypeInv, NEW k \in CmdIds, NEW pix \in PixType, NEW rc \in CountsType,
           NEW img \in ImgType, CompleteCmd(k, pix, rc, img)
    PROVE  /\ cmd' \in CmdsType /\ pending_flips' \in Int /\ pixBo' \in PixType
           /\ refcnt' \in CountsType /\ bowidth' \in WidthType
           /\ crtcFb' \in FbType /\ current' \in ImgType
<1>. DEFINE c == [cmd EXCEPT ![k] = FreeCmd]
<1>1. /\ cmd' = c /\ pending_flips' = pending_flips - 1
      /\ pixBo' = DropPixmaps(win, c, pix)
      /\ Commit(DropRefs(rc, win, c, pix), bowidth, crtcFb, img)
    BY DEF CompleteCmd
<1>2. c \in CmdsType
    BY DEF TypeInv, CmdsType
<1>. HIDE DEF c
<1>3. pixBo' \in PixType /\ DropRefs(rc, win, c, pix) \in CountsType
    BY <1>1, DropType
<1>4. /\ refcnt' \in CountsType /\ bowidth' \in WidthType
      /\ crtcFb' \in FbType /\ current' \in ImgType
    BY <1>1, <1>3, CommitType DEF TypeInv
<1>. QED
    BY <1>1, <1>2, <1>3, <1>4 DEF TypeInv

\* What HandleEvent may change.
HandledType ==
    /\ cmd' \in CmdsType /\ pending_flips' \in Int /\ pixBo' \in PixType
    /\ refcnt' \in CountsType /\ bowidth' \in WidthType
    /\ crtcFb' \in FbType /\ current' \in ImgType
    /\ scanouts' \in TableType /\ win' \in WinsType

LEMMA CompleteFlipType ==
    ASSUME TypeInv, NEW k \in CmdIds, cmd[k] \in CmdType, CompleteFlip(k)
    PROVE  HandledType
<1>. DEFINE new == pixBo[cmd[k].src]
            pix == Exchanged(pixBo, cmd[k].src)
            at  == [x |-> cmd[k].x, w |-> bowidth[new]]
            tab == ValidateBo(scanouts, new)
            rc  == ScanoutSetRefs(refcnt, tab, at, new)
            img == Drawn(current, new, Cols(at), TRUE)
<1>1. new \in BoOrNone
    BY PixBoType DEF CmdType
<1>2. pix \in PixType
    BY <1>1, PixBoType DEF TypeInv, PixType, Exchanged
<1>3. tab \in TableType
    BY ValidateBoType DEF TypeInv
<1>4. /\ scanouts' = ScanoutSet(tab, at, new)
      /\ win' = [win EXCEPT ![cmd[k].win].pending = 0]
      /\ CompleteCmd(k, pix, rc, img)
    BY DEF CompleteFlip
<1>. HIDE DEF new, pix, tab, at
<1>5. scanouts' \in TableType /\ rc \in CountsType
    BY <1>1, <1>3, <1>4, ScanoutSetType DEF TypeInv, CountsType, BoOrNone
<1>6. img \in ImgType
    BY ColsType, DrawnType DEF TypeInv
<1>. HIDE DEF rc, img
<1>7. win' \in WinsType
    <2>1. \A v \in Windows : [win[v] EXCEPT !.pending = 0] \in WinType
        BY DEF TypeInv, WinsType, WinType
    <2>2. win' = [win EXCEPT ![cmd[k].win] = [win[cmd[k].win] EXCEPT !.pending = 0]]
        BY <1>4
    <2>. QED
        BY <2>1, <2>2 DEF TypeInv, WinsType, CmdType
<1>. QED
    BY <1>2, <1>4, <1>5, <1>6, <1>7, CompleteCmdType DEF HandledType

LEMMA HandleEventType ==
    ASSUME TypeInv, \A i \in DOMAIN events : cmd[events[i][2]] # FreeCmd, HandleEvent
    PROVE  TypeInv'
<1>. DEFINE k == Head(events)[2]
<1>1. /\ Head(events) \in Crtcs \X CmdIds /\ Tail(events) \in Seq(Crtcs \X CmdIds)
      /\ Head(events) = events[1] /\ 1 \in DOMAIN events
    BY DEF HandleEvent, TypeInv
<1>2. k \in CmdIds /\ cmd[k] \in CmdType
    BY <1>1 DEF TypeInv, CmdsType
<1>3. /\ events' = Tail(events)
      /\ UNCHANGED <<flip_mode, scanout, has_resized, kflip, crtc, call>>
      /\ \/ /\ cmd[k].swapCount > 1
            /\ cmd' = [cmd EXCEPT ![k].swapCount = @ - 1]
            /\ UNCHANGED <<scanouts, boVars, pending_flips, pixBo, win>>
         \/ CompleteFlip(k)
         \/ DropFlip(k)
    BY DEF HandleEvent
<1>. HIDE DEF k
<1>4. HandledType
    <2>1. CASE /\ cmd[k].swapCount > 1
               /\ cmd' = [cmd EXCEPT ![k].swapCount = @ - 1]
               /\ UNCHANGED <<scanouts, boVars, pending_flips, pixBo, win>>
        <3>1. [cmd[k] EXCEPT !.swapCount = @ - 1] \in CmdType
            BY <1>2, <2>1 DEF CmdType
        <3>2. cmd' \in CmdsType
            BY <1>2, <2>1, <3>1 DEF TypeInv, CmdsType
        <3>. QED
            BY <2>1, <3>2 DEF TypeInv, HandledType, boVars
    <2>2. CASE CompleteFlip(k)
        BY <1>2, <2>2, CompleteFlipType
    <2>3. CASE DropFlip(k)
        BY <1>2, <2>3, CompleteCmdType DEF DropFlip, HandledType, TypeInv
    <2>. QED
        BY <1>3, <2>1, <2>2, <2>3
<1>. QED
    BY <1>1, <1>3, <1>4 DEF HandledType, TypeInv

-----------------------------------------------------------------------------
LEMMA RootWriteDirectType ==
    ASSUME TypeInv, NEW x \in Int, RootWriteDirect(x)
    PROVE  TypeInv'
<1>1. current' \in ImgType
    BY DrawnType DEF RootWriteDirect, TypeInv
<1>. QED
    BY <1>1 DEF RootWriteDirect, TypeInv, omapVars, flipVars

LEMMA RootWriteType ==
    ASSUME TypeInv, RootWrite
    PROVE  TypeInv'
<1>1. [Idle EXCEPT !.op = "write"] \in CallType /\ [Idle EXCEPT !.op = "write"].op = "write"
    BY DEF Idle, CallType, NoRect, Rects
<1>. QED
    BY <1>1 DEF RootWrite, TypeInv, omapVars, flipVars, boVars

LEMMA RootWriteReturnType ==
    ASSUME TypeInv, NEW x \in Int, RootWriteReturn(x)
    PROVE  TypeInv'
<1>1. PICK m \in SetBlitMode :
         /\ scanouts' = m.tab
         /\ \/ /\ m.ret
               /\ flip_mode' = "DISABLED"
               /\ pixBo' = [pixBo EXCEPT ![Root] = scanout]
               /\ Commit(Unreference(Reference(refcnt, scanout), pixBo[Root]), bowidth, m.fb,
                         Drawn(m.img, scanout, {x}, FALSE))
            \/ /\ ~m.ret
               /\ Commit(refcnt, bowidth, m.fb, m.img)
               /\ UNCHANGED <<flip_mode, pixBo>>
    BY DEF RootWriteReturn
<1>2. m.tab \in TableType /\ m.img \in ImgType /\ m.fb \in FbType
    BY SetBlitModeType DEF OutcomeOK
<1>3. /\ refcnt' \in CountsType /\ bowidth' \in WidthType
      /\ crtcFb' \in FbType /\ current' \in ImgType
    <2>1. Unreference(Reference(refcnt, scanout), pixBo[Root]) \in CountsType
        BY RefsType DEF TypeInv, CountsType
    <2>2. Drawn(m.img, scanout, {x}, FALSE) \in ImgType
        BY <1>2, DrawnType
    <2>. QED
        BY <1>1, <1>2, <2>1, <2>2, CommitType DEF TypeInv
<1>4. pixBo' \in PixType /\ flip_mode' \in {"ENABLED", "DISABLED"}
    BY <1>1 DEF TypeInv, PixType, BoOrNone
<1>. QED
    BY <1>1, <1>2, <1>3, <1>4, IdleType DEF RootWriteReturn, TypeInv, flipVars

LEMMA RootReadType ==
    ASSUME TypeInv, RootRead
    PROVE  TypeInv'
<1>1. current' \in ImgType
    BY CopiedToRootType DEF RootRead, TypeInv
<1>. QED
    BY <1>1 DEF RootRead, TypeInv, omapVars, flipVars

-----------------------------------------------------------------------------
LEMMA UnplugType ==
    ASSUME TypeInv, NEW c \in Crtcs, Unplug(c)
    PROVE  TypeInv'
<1>1. crtc' \in [Crtcs -> CrtcType]
    <2>1. [crtc[c] EXCEPT !.connected = ~@] \in CrtcType
        BY DEF TypeInv, CrtcType
    <2>2. crtc' = [crtc EXCEPT ![c] = [crtc[c] EXCEPT !.connected = ~@]]
        BY DEF Unplug
    <2>. QED
        BY <2>1, <2>2 DEF TypeInv
<1>. QED
    BY <1>1 DEF Unplug, TypeInv, omapVars, flipVars, boVars

LEMMA DisableType ==
    ASSUME TypeInv, NEW c \in Crtcs, Disable(c)
    PROVE  TypeInv'
<1>1. crtc' \in [Crtcs -> CrtcType]
    BY DEF Disable, TypeInv, CrtcType
<1>. QED
    BY <1>1 DEF Disable, TypeInv, omapVars, flipVars, boVars

LEMMA SetModeMajorType ==
    ASSUME TypeInv, NEW c \in Crtcs, NEW r \in RectChoices, SetModeMajor(c, r)
    PROVE  TypeInv'
<1>1. crtc[c] \in CrtcType /\ crtc[c].rect \in RectChoices
    BY DEF TypeInv, CrtcType
<1>2. crtc' \in [Crtcs -> CrtcType]
    BY <1>1 DEF SetModeMajor, TypeInv, CrtcType
<1>3. call' \in CallType /\ call'.rect \in RectChoices
    <2>1. [Idle EXCEPT !.op = "modeset", !.crtc = c, !.rect = crtc[c].rect] \in CallType
        BY <1>1, RectType DEF Idle, CallType, NoRect, Rects
    <2>. QED
        BY <1>1, <2>1 DEF SetModeMajor, Idle
<1>. QED
    BY <1>2, <1>3 DEF SetModeMajor, TypeInv, omapVars, flipVars, boVars

LEMMA SlotWidthsType ==
    ASSUME NEW width \in WidthType, NEW tab \in TableType
    PROVE  SlotWidths(width, tab) \in WidthType
<1>1. ASSUME NEW b \in Bos
      PROVE  SlotWidths(width, tab)[b] \in Nat
    <2>. DEFINE at == {s \in Slots : refcnt[b] = 0 /\ tab[s].bo = b}
    <2>1. CASE at = {}
        BY <2>1 DEF SlotWidths, WidthType
    <2>2. CASE at # {}
        <3>1. The(at) \in Slots
            BY <2>2, TheMember
        <3>2. tab[The(at)].rect.w \in Nat
            BY <3>1 DEF TableType, SlotType, Rects
        <3>. QED
            BY <2>2, <3>2 DEF SlotWidths
    <2>. QED
        BY <2>1, <2>2
<1>. QED
    BY <1>1 DEF SlotWidths, WidthType

LEMMA ActiveType ==
    ASSUME TypeInv
    PROVE  Active(crtc) \in SUBSET Crtcs /\ CrtcRects(crtc) \in [Crtcs -> Rects]
    BY RectType DEF TypeInv, CrtcType, Active, CrtcRects

LEMMA FreeBosType == FreeBos \in SUBSET Bos /\ IsFiniteSet(FreeBos) /\ Cardinality(FreeBos) \in Nat
<1>1. FreeBos \in SUBSET Bos
    BY DEF FreeBos
<1>. QED
    BY <1>1, BosFinite, FS_Subset, FS_CardinalityType

\* Neither way to blit mode changes a rectangle of the table.
LEMMA RectsKept ==
    ASSUME TypeInv, NEW c, NEW m \in SetBlitMode \cup SetOneCrtc(c), NEW s \in Slots
    PROVE  m.tab[s].rect = scanouts[s].rect
<1>1. scanouts[s] \in SlotType
    BY DEF TypeInv, TableType
<1>2. \A n : Invalidated(n)[s].rect = scanouts[s].rect
    BY <1>1 DEF Invalidated, SlotType
<1>3. m.tab = scanouts \/ \E n : m.tab = Invalidated(n)
    BY DEF SetBlitMode, SetOneCrtc, AlreadySet, Outcome
<1>. QED
    BY <1>2, <1>3

LEMMA SetModeMajorReturnType ==
    ASSUME TypeInv, SetModeMajorReturn
    PROVE  TypeInv'
<1>. DEFINE restored == [crtc EXCEPT ![call.crtc].rect = call.rect]
            act      == Active(crtc)
            rects    == CrtcRects(crtc)
<1>1. PICK m \in (IF flip_mode = "DISABLED" THEN SetOneCrtc(call.crtc) ELSE SetBlitMode) :
         \/ /\ ~m.ret
            /\ crtc' = restored
            /\ scanouts' = m.tab
            /\ Commit(refcnt, bowidth, m.fb, m.img)
            /\ UNCHANGED <<flip_mode, has_resized>>
         \/ /\ m.ret
            /\ flip_mode' = "DISABLED"
            /\ \E u \in UpdateScanouts(m.tab, act, rects, FreeBos, refcnt, "alloc" \in Faults) :
                 /\ scanouts' = u.tab
                 /\ has_resized' = (has_resized \/ u.resized)
                 /\ Commit(u.rc, SlotWidths(bowidth, u.tab), m.fb, m.img)
                 /\ crtc' = IF u.ret THEN crtc ELSE restored
    BY DEF SetModeMajorReturn
<1>2. /\ m.tab \in TableType /\ m.img \in ImgType /\ m.fb \in FbType
    BY SetBlitModeType, SetOneCrtcType DEF OutcomeOK
<1>3. restored \in [Crtcs -> CrtcType]
    <2>1. call.rect \in RectChoices
        BY DEF SetModeMajorReturn, TypeInv
    <2>. QED
        BY <2>1 DEF TypeInv, CrtcType
<1>4. call' = Idle /\ UNCHANGED <<scanout, flipVars, pixBo, win>>
    BY DEF SetModeMajorReturn
<1>5. CASE /\ ~m.ret
           /\ crtc' = restored
           /\ scanouts' = m.tab
           /\ Commit(refcnt, bowidth, m.fb, m.img)
           /\ UNCHANGED <<flip_mode, has_resized>>
    <2>1. /\ refcnt' \in CountsType /\ bowidth' \in WidthType
          /\ crtcFb' \in FbType /\ current' \in ImgType
        BY <1>2, <1>5, CommitType DEF TypeInv
    <2>. QED
        BY <1>2, <1>3, <1>4, <1>5, <2>1, IdleType DEF TypeInv, flipVars
<1>6. CASE /\ flip_mode' = "DISABLED"
           /\ \E u \in UpdateScanouts(m.tab, act, rects, FreeBos, refcnt, "alloc" \in Faults) :
                /\ scanouts' = u.tab
                /\ has_resized' = (has_resized \/ u.resized)
                /\ Commit(u.rc, SlotWidths(bowidth, u.tab), m.fb, m.img)
                /\ crtc' = IF u.ret THEN crtc ELSE restored
    <2>1. PICK u \in UpdateScanouts(m.tab, act, rects, FreeBos, refcnt, "alloc" \in Faults) :
                /\ scanouts' = u.tab
                /\ has_resized' = (has_resized \/ u.resized)
                /\ Commit(u.rc, SlotWidths(bowidth, u.tab), m.fb, m.img)
                /\ crtc' = IF u.ret THEN crtc ELSE restored
        BY <1>6
    <2>2. /\ act \in SUBSET Crtcs /\ rects \in [Crtcs -> Rects] /\ FreeBos \in SUBSET Bos
          /\ ("alloc" \in Faults) \in BOOLEAN
        BY ActiveType, FreeBosType
    <2>3. Cardinality(Starved(scanouts, act, rects)) <= Cardinality(FreeBos)
        BY DEF SetModeMajorReturn
    <2>. HIDE DEF act, rects
    <2>4. \A s \in Slots : m.tab[s].rect = scanouts[s].rect
        BY RectsKept
    <2>5. Starved(m.tab, act, rects) = Starved(scanouts, act, rects)
        <3>1. ASSUME NEW c
              PROVE  {s \in Slots : m.tab[s].rect = rects[c]} = {s \in Slots : scanouts[s].rect = rects[c]}
            BY <2>4
        <3>. QED
            BY <3>1 DEF Starved, Taken
    <2>6. refcnt \in [Bos -> Int]
        BY DEF TypeInv, CountsType
    <2>7. /\ u.ret \in BOOLEAN /\ u.resized \in BOOLEAN
          /\ u.tab \in TableType /\ u.rc \in CountsType
        BY <1>2, <2>2, <2>3, <2>5, <2>6, UpdateType DEF CountsType
    <2>8. SlotWidths(bowidth, u.tab) \in WidthType
        BY <2>7, SlotWidthsType DEF TypeInv
    <2>9. /\ refcnt' \in CountsType /\ bowidth' \in WidthType
          /\ crtcFb' \in FbType /\ current' \in ImgType
        BY <1>2, <2>1, <2>7, <2>8, CommitType
    <2>10. crtc' \in [Crtcs -> CrtcType] /\ has_resized' \in BOOLEAN
        BY <1>3, <2>1, <2>7 DEF TypeInv
    <2>. QED
        BY <1>4, <1>6, <2>1, <2>7, <2>9, <2>10, IdleType DEF TypeInv, flipVars
<1>. QED
    BY <1>1, <1>5, <1>6

LEMMA ResizeType ==
    ASSUME TypeInv, NEW d \in Widths, Resize(d)
    PROVE  TypeInv'
<1>. DEFINE same == d = bowidth[scanout]
<1>1. PICK new \in (IF same THEN {scanout} ELSE Nth(FreeBos, 1)) :
         LET rc == IF same THEN refcnt
                   ELSE Unreference([refcnt EXCEPT ![new] = 1], scanout)
         IN  /\ scanout' = new
             /\ pixBo' = [pixBo EXCEPT ![Root] = new]
             /\ Commit(Unreference(Reference(rc, new), pixBo[Root]), [bowidth EXCEPT ![new] = d],
                       crtcFb, [b \in Bos |-> IF b = new THEN 0..(d - 1) ELSE {}])
    BY DEF Resize, RootBacked
<1>. DEFINE rc  == IF same THEN refcnt ELSE Unreference([refcnt EXCEPT ![new] = 1], scanout)
            cnt == Unreference(Reference(rc, new), pixBo[Root])
            wid == [bowidth EXCEPT ![new] = d]
            img == [b \in Bos |-> IF b = new THEN 0..(d - 1) ELSE {}]
<1>2. new \in Bos
    BY DEF TypeInv, Nth, FreeBos
<1>3. rc \in CountsType
    <2>1. refcnt \in [Bos -> Int] /\ [refcnt EXCEPT ![new] = 1] \in [Bos -> Int]
        BY <1>2 DEF TypeInv, CountsType
    <2>. QED
        BY <2>1, RefsType DEF CountsType
<1>. HIDE DEF rc
<1>4. cnt \in CountsType
    BY <1>3, RefsType DEF CountsType
<1>5. wid \in WidthType
    BY <1>2, DisplayAssumption DEF TypeInv, WidthType
<1>6. img \in ImgType
    BY DEF ImgType
<1>7. scanout' = new /\ pixBo' = [pixBo EXCEPT ![Root] = new] /\ Commit(cnt, wid, crtcFb, img)
    BY <1>1 DEF rc
<1>. HIDE DEF cnt, wid, img
<1>8. /\ refcnt' \in CountsType /\ bowidth' \in WidthType
      /\ crtcFb' \in FbType /\ current' \in ImgType
    BY <1>4, <1>5, <1>6, <1>7, CommitType DEF TypeInv
<1>9. pixBo' \in PixType
    BY <1>2, <1>7 DEF TypeInv, PixType, BoOrNone
<1>10. has_resized' \in BOOLEAN
    BY DEF Resize, TypeInv
<1>. QED
    BY <1>2, <1>7, <1>8, <1>9, <1>10 DEF Resize, TypeInv, flipVars

LEMMA CloseScreenType ==
    ASSUME TypeInv, CloseScreen
    PROVE  TypeInv'
<1>. DEFINE v == [w \in Windows |-> DeadWindow(w)]
<1>1. v \in WinsType
    BY DeadWindowType DEF WinsType
<1>2. /\ win' = v /\ pixBo' = DropPixmaps(v, cmd, pixBo)
      /\ Commit(DropRefs(refcnt, v, cmd, pixBo), bowidth, crtcFb, current)
      /\ call' = [Idle EXCEPT !.op = "close"]
    BY DEF CloseScreen
<1>. HIDE DEF v
<1>3. pixBo' \in PixType /\ DropRefs(refcnt, v, cmd, pixBo) \in CountsType
    BY <1>2, DropType DEF TypeInv
<1>4. /\ refcnt' \in CountsType /\ bowidth' \in WidthType
      /\ crtcFb' \in FbType /\ current' \in ImgType
    BY <1>2, <1>3, CommitType DEF TypeInv
<1>5. call' \in CallType /\ call'.op = "close"
    BY <1>2 DEF Idle, CallType, NoRect, Rects
<1>. QED
    BY <1>1, <1>2, <1>3, <1>4, <1>5 DEF CloseScreen, TypeInv, omapVars, flipVars

LEMMA ScreenInitType ==
    ASSUME TypeInv, ScreenInit
    PROVE  TypeInv'
<1>. DEFINE act   == Active(crtc)
            rects == CrtcRects(crtc)
<1>1. PICK new \in Nth(FreeBos, 1) :
         LET rc == Unreference(Unreference([refcnt EXCEPT ![new] = 2], scanout), pixBo[Root])
             u  == UpdateDone(scanouts, act, rects, FreeBos \ {new}, rc)
         IN  /\ scanout' = new
             /\ pixBo' = [pixBo EXCEPT ![Root] = new]
             /\ scanouts' = u.tab
             /\ has_resized' = (has_resized \/ u.resized)
             /\ Commit(u.rc, SlotWidths([bowidth EXCEPT ![new] = bowidth[scanout]], u.tab),
                       [c \in Crtcs |-> IF c \in act THEN new ELSE crtcFb[c]],
                       [b \in Bos |-> IF b = new THEN RootCols ELSE {}])
    BY DEF ScreenInit, RootReplaced
<1>. DEFINE rc  == Unreference(Unreference([refcnt EXCEPT ![new] = 2], scanout), pixBo[Root])
            u   == UpdateDone(scanouts, act, rects, FreeBos \ {new}, rc)
            wid == [bowidth EXCEPT ![new] = bowidth[scanout]]
            fb  == [c \in Crtcs |-> IF c \in act THEN new ELSE crtcFb[c]]
            img == [b \in Bos |-> IF b = new THEN RootCols ELSE {}]
<1>2. new \in FreeBos /\ new \in Bos
    BY DEF Nth, FreeBos
<1>3. rc \in CountsType
    <2>1. refcnt \in [Bos -> Int] /\ [refcnt EXCEPT ![new] = 2] \in [Bos -> Int]
        BY <1>2 DEF TypeInv, CountsType
    <2>. QED
        BY <2>1, RefsType DEF CountsType
<1>4. /\ act \in SUBSET Crtcs /\ rects \in [Crtcs -> Rects]
      /\ (FreeBos \ {new}) \in SUBSET Bos
    BY ActiveType, FreeBosType
<1>5. Cardinality(Starved(scanouts, act, rects)) <= Cardinality(FreeBos \ {new})
    <2>1. Cardinality(FreeBos \ {new}) = Cardinality(FreeBos) - 1
        BY <1>2, FreeBosType, FS_RemoveElement
    <2>2. Cardinality(Starved(scanouts, act, rects)) < Cardinality(FreeBos)
        BY DEF ScreenInit
    <2>3. Cardinality(Starved(scanouts, act, rects)) \in Nat
        <3>1. Starved(scanouts, act, rects) \in SUBSET Crtcs
            BY <1>4 DEF Starved
        <3>. QED
            BY <3>1, CrtcsFinite, FS_Subset, FS_CardinalityType
    <2>. QED
        BY <2>1, <2>2, <2>3, FreeBosType
<1>6. wid \in WidthType
    BY DEF TypeInv, WidthType
<1>7. fb \in FbType
    BY <1>2 DEF TypeInv, FbType, BoOrNone
<1>8. img \in ImgType
    BY ColsType DEF ImgType, RootCols
<1>9. /\ scanout' = new /\ pixBo' = [pixBo EXCEPT ![Root] = new] /\ scanouts' = u.tab
      /\ has_resized' = (has_resized \/ u.resized)
      /\ Commit(u.rc, SlotWidths(wid, u.tab), fb, img)
    BY <1>1
<1>. HIDE DEF act, rects, rc, wid, fb, img
<1>10. u.resized \in BOOLEAN /\ u.tab \in TableType /\ u.rc \in CountsType
    BY <1>3, <1>4, <1>5, UpdateDoneType DEF TypeInv, CountsType
<1>. HIDE DEF u
<1>11. /\ refcnt' \in CountsType /\ bowidth' \in WidthType
       /\ crtcFb' \in FbType /\ current' \in ImgType
    BY <1>6, <1>7, <1>8, <1>9, <1>10, SlotWidthsType, CommitType
<1>12. pixBo' \in PixType /\ has_resized' \in BOOLEAN
    BY <1>2, <1>9, <1>10 DEF TypeInv, PixType, BoOrNone
<1>13. win' \in WinsType
    BY DEF ScreenInit, TypeInv, WinsType, WinType
<1>. QED
    BY <1>2, <1>9, <1>10, <1>11, <1>12, <1>13, IdleType DEF ScreenInit, TypeInv, flipVars

-----------------------------------------------------------------------------
(* The accounting of flips.                                                *)

\* A command that has not been freed still expects an event.
LiveExpects == \A k \in Live : cmd[k].swapCount > 0

\* The invariant that is inductive.  Type correctness is a part of it, as only
\* the accounting says that an event refers to a command that is in use.
Inv == /\ TypeInv
       /\ EventsMatchSwapCount
       /\ LiveExpects
       /\ PendingFlipsCounts
       /\ FlipsOnlyInFlipMode

LEMMA EventsType ==
    ASSUME TypeInv
    PROVE  /\ Len(events) \in Nat /\ DOMAIN events = 1..Len(events)
           /\ \A i \in DOMAIN events : events[i] \in Crtcs \X CmdIds
    BY LenProperties, ElementOfSeq DEF TypeInv

LEMMA CommandType ==
    ASSUME TypeInv, NEW k \in CmdIds
    PROVE  /\ cmd[k].swapCount \in Nat
           /\ cmd[k] # FreeCmd => cmd[k] \in CmdType
           /\ cmd[k] = FreeCmd => cmd[k].swapCount = 0
    BY DEF TypeInv, CmdsType, CmdType, FreeCmd

LEMMA OutstandingFinite ==
    ASSUME NEW k
    PROVE  IsFiniteSet(Outstanding(k)) /\ Cardinality(Outstanding(k)) \in Nat
<1>1. Outstanding(k) \in SUBSET Crtcs
    BY DEF Outstanding, Flipping, Queued
<1>. QED
    BY <1>1, CrtcsFinite, FS_Subset, FS_CardinalityType

LEMMA LiveFinite == IsFiniteSet(Live) /\ Cardinality(Live) \in Nat
<1>1. IsFiniteSet(CmdIds)
    BY DisplayAssumption, FS_Interval DEF CmdIds
<1>2. Live \in SUBSET CmdIds
    BY DEF Live
<1>. QED
    BY <1>1, <1>2, FS_Subset, FS_CardinalityType

LEMMA NoCmdIsNone == NoCmd \notin CmdIds /\ 0 \notin Windows
    BY DisplayAssumption DEF NoCmd, CmdIds, Windows

-----------------------------------------------------------------------------
\* A step that leaves commands, flips and events alone, and does not leave flip
\* mode under a flip.
LEMMA AccountingKept ==
    ASSUME Inv, UNCHANGED flipVars,
           flip_mode' = flip_mode \/ flip_mode' = "ENABLED" \/ pending_flips <= 0
    PROVE  /\ EventsMatchSwapCount' /\ LiveExpects'
           /\ PendingFlipsCounts' /\ FlipsOnlyInFlipMode'
<1>1. UNCHANGED <<pending_flips, cmd, kflip, events>>
    BY DEF flipVars
<1>2. EventsMatchSwapCount'
    BY <1>1 DEF Inv, EventsMatchSwapCount, Outstanding, Flipping, Queued
<1>3. LiveExpects' /\ PendingFlipsCounts'
    BY <1>1 DEF Inv, LiveExpects, PendingFlipsCounts, Live
<1>4. FlipsOnlyInFlipMode'
    BY <1>1 DEF Inv, TypeInv, FlipsOnlyInFlipMode
<1>. QED
    BY <1>2, <1>3, <1>4

\* A new command: the CRTCs that flip are those it expects events of.
LEMMA FlipQueuedAccounting ==
    ASSUME Inv, NEW w \in Windows, NEW p, p.ret \in BOOLEAN, p.flipped \in SUBSET Crtcs,
           p.flipped # {}, \A c \in p.flipped : kflip[c] = NoCmd,
           FlipQueued(w, p), flip_mode' = "ENABLED"
    PROVE  /\ EventsMatchSwapCount' /\ LiveExpects'
           /\ PendingFlipsCounts' /\ FlipsOnlyInFlipMode'
<1>1. PICK k \in Nth(CmdIds \ Live, 1) :
        /\ pending_flips' = pending_flips + 1
        /\ cmd' = [cmd EXCEPT ![k] = NewCmd(w, p)]
        /\ kflip' = [c \in Crtcs |-> IF c \in p.flipped THEN k ELSE kflip[c]]
        /\ UNCHANGED events
    BY DEF FlipQueued
<1>2. k \in CmdIds /\ k \notin Live /\ cmd[k] = FreeCmd
    BY DEF Nth, Live
<1>3. Outstanding(k) = {}
    BY <1>2, CommandType, OutstandingFinite, FS_EmptySet DEF Inv, EventsMatchSwapCount
<1>4. /\ cmd'[k].swapCount = Cardinality(p.flipped) /\ cmd'[k].win = w
      /\ \A j \in CmdIds \ {k} : cmd'[j] = cmd[j]
    BY <1>1, <1>2 DEF Inv, TypeInv, CmdsType, NewCmd
<1>5. cmd'[k] # FreeCmd
    BY <1>4, NoCmdIsNone DEF FreeCmd
<1>6. /\ Flipping(k)' = p.flipped /\ Queued(k)' = {}
    BY <1>1, <1>3 DEF Flipping, Queued, Outstanding
<1>7. ASSUME NEW j \in CmdIds \ {k}
      PROVE  Flipping(j)' = Flipping(j) /\ Queued(j)' = Queued(j)
    BY <1>1, NoCmdIsNone DEF Flipping, Queued
<1>8. EventsMatchSwapCount'
    <2>1. \A j \in CmdIds : cmd'[j].swapCount = Cardinality(Outstanding(j)')
        BY <1>4, <1>6, <1>7 DEF Inv, EventsMatchSwapCount, Outstanding
    <2>2. \A j \in CmdIds : Flipping(j)' \cap Queued(j)' = {}
        BY <1>6, <1>7 DEF Inv, EventsMatchSwapCount
    <2>3. \A i, j \in DOMAIN events' : events'[i] = events'[j] => i = j
        BY <1>1 DEF Inv, EventsMatchSwapCount
    <2>. QED
        BY <2>1, <2>2, <2>3 DEF EventsMatchSwapCount
<1>9. Live' = Live \cup {k}
    BY <1>2, <1>4, <1>5 DEF Live
<1>10. LiveExpects'
    <2>1. Cardinality(p.flipped) > 0
        BY CrtcsFinite, FS_Subset, FS_EmptySet, FS_CardinalityType
    <2>. QED
        BY <1>2, <1>4, <1>9, <2>1 DEF Inv, LiveExpects, Live
<1>11. PendingFlipsCounts'
    BY <1>1, <1>2, <1>9, LiveFinite, FS_AddElement DEF Inv, PendingFlipsCounts
<1>. QED
    BY <1>8, <1>10, <1>11 DEF FlipsOnlyInFlipMode

\* The kernel turns a flip into an event.
LEMMA KernelFlipAccounting ==
    ASSUME Inv, NEW c \in Crtcs, KernelFlip(c)
    PROVE  /\ EventsMatchSwapCount' /\ LiveExpects'
           /\ PendingFlipsCounts' /\ FlipsOnlyInFlipMode'
<1>1. PICK k \in CmdIds : k = kflip[c] /\ k # NoCmd
    BY NoCmdIsNone DEF KernelFlip, Inv, TypeInv
<1>2. /\ events' = Append(events, <<c, k>>) /\ kflip' = [kflip EXCEPT ![c] = NoCmd]
      /\ UNCHANGED <<flip_mode, pending_flips, cmd>>
    BY <1>1 DEF KernelFlip, omapVars
<1>3. PICK n \in Nat : n = Len(events) /\ DOMAIN events = 1..n
    BY EventsType DEF Inv
<1>4. /\ DOMAIN events' = 1..(n + 1) /\ events'[n + 1] = <<c, k>>
      /\ \A i \in 1..n : events'[i] = events[i]
    BY <1>2, <1>3 DEF Inv, TypeInv
<1>5. c \in Flipping(k) /\ c \notin Queued(k)
    BY <1>1 DEF Flipping, Inv, EventsMatchSwapCount
<1>6. Flipping(k)' = Flipping(k) \ {c} /\ Queued(k)' = Queued(k) \cup {c}
    <2>1. Flipping(k)' = Flipping(k) \ {c}
        BY <1>1, <1>2, NoCmdIsNone DEF Flipping, Inv, TypeInv
    <2>2. Queued(k)' = Queued(k) \cup {c}
        BY <1>1, <1>3, <1>4 DEF Queued
    <2>. QED
        BY <2>1, <2>2
<1>7. ASSUME NEW j \in CmdIds \ {k}
      PROVE  Flipping(j)' = Flipping(j) /\ Queued(j)' = Queued(j)
    <2>1. Flipping(j)' = Flipping(j)
        BY <1>1, <1>2, NoCmdIsNone DEF Flipping, Inv, TypeInv
    <2>2. Queued(j)' = Queued(j)
        BY <1>3, <1>4 DEF Queued
    <2>. QED
        BY <2>1, <2>2
<1>8. EventsMatchSwapCount'
    <2>1. \A j \in CmdIds : Outstanding(j)' = Outstanding(j)
        BY <1>5, <1>6, <1>7 DEF Outstanding
    <2>2. \A j \in CmdIds : cmd'[j].swapCount = Cardinality(Outstanding(j)')
        BY <1>2, <2>1 DEF Inv, EventsMatchSwapCount
    <2>3. \A j \in CmdIds : Flipping(j)' \cap Queued(j)' = {}
        BY <1>6, <1>7 DEF Inv, EventsMatchSwapCount
    <2>4. \A i \in 1..n : events[i] # <<c, k>>
        BY <1>3, <1>5 DEF Queued
    <2>5. \A i, j \in DOMAIN events' : events'[i] = events'[j] => i = j
        BY <1>3, <1>4, <2>4 DEF Inv, EventsMatchSwapCount
    <2>. QED
        BY <2>2, <2>3, <2>5 DEF EventsMatchSwapCount
<1>9. LiveExpects' /\ PendingFlipsCounts' /\ FlipsOnlyInFlipMode'
    BY <1>2 DEF Inv, LiveExpects, PendingFlipsCounts, FlipsOnlyInFlipMode, Live
<1>. QED
    BY <1>8, <1>9

\* The handled event was one of its command; the last one frees the command.
LEMMA HandleEventAccounting ==
    ASSUME Inv, HandleEvent
    PROVE  /\ EventsMatchSwapCount' /\ LiveExpects'
           /\ PendingFlipsCounts' /\ FlipsOnlyInFlipMode'
<1>1. PICK n \in Nat : n = Len(events) /\ DOMAIN events = 1..n /\ n > 0
    <2>1. events \in Seq(Crtcs \X CmdIds) /\ events # <<>>
        BY DEF HandleEvent, Inv, TypeInv
    <2>. QED
        BY <2>1, LenProperties, EmptySeq
<1>2. PICK c \in Crtcs, k \in CmdIds : events[1] = <<c, k>> /\ Head(events) = <<c, k>>
    BY <1>1, EventsType DEF HandleEvent, Inv, TypeInv
<1>3. /\ DOMAIN events' = 1..(n - 1)
      /\ \A i \in 1..(n - 1) : events'[i] = events[i + 1]
    BY <1>1 DEF HandleEvent, Inv, TypeInv
<1>4. /\ kflip' = kflip /\ flip_mode' = flip_mode
      /\ \/ /\ cmd[k].swapCount > 1
            /\ cmd' = [cmd EXCEPT ![k].swapCount = @ - 1]
            /\ pending_flips' = pending_flips
         \/ /\ cmd[k].swapCount <= 1
            /\ cmd' = [cmd EXCEPT ![k] = FreeCmd]
            /\ pending_flips' = pending_flips - 1
    <2>1. /\ kflip' = kflip /\ flip_mode' = flip_mode
          /\ \/ /\ cmd[k].swapCount > 1
                /\ cmd' = [cmd EXCEPT ![k].swapCount = @ - 1]
                /\ pending_flips' = pending_flips
             \/ cmd[k].swapCount <= 1 /\ (CompleteFlip(k) \/ DropFlip(k))
        BY <1>2 DEF HandleEvent
    <2>2. CompleteFlip(k) \/ DropFlip(k) =>
             /\ cmd' = [cmd EXCEPT ![k] = FreeCmd]
             /\ pending_flips' = pending_flips - 1
        BY DEF CompleteFlip, DropFlip, CompleteCmd
    <2>. QED
        BY <2>1, <2>2
<1>5. c \in Queued(k) /\ c \notin Flipping(k)
    BY <1>1, <1>2 DEF Queued, Inv, EventsMatchSwapCount
<1>6. \A i \in 2..n : events[i] # <<c, k>>
    BY <1>1, <1>2 DEF Inv, EventsMatchSwapCount
<1>7. ASSUME NEW d \in Crtcs, NEW j \in CmdIds, <<d, j>> # <<c, k>>
      PROVE  d \in Queued(j)' <=> d \in Queued(j)
    <2>1. ASSUME NEW i \in 1..n, events[i] = <<d, j>>
          PROVE  \E h \in 1..(n - 1) : events'[h] = <<d, j>>
        <3>1. i # 1 /\ i - 1 \in 1..(n - 1) /\ (i - 1) + 1 = i
            BY <1>1, <1>2, <1>7, <2>1
        <3>. QED
            BY <1>3, <2>1, <3>1
    <2>2. ASSUME NEW h \in 1..(n - 1), events'[h] = <<d, j>>
          PROVE  \E i \in 1..n : events[i] = <<d, j>>
        <3>1. h + 1 \in 1..n
            BY <1>1
        <3>. QED
            BY <1>3, <2>2, <3>1
    <2>. QED
        BY <1>1, <1>3, <2>1, <2>2 DEF Queued
<1>8. c \notin Queued(k)'
    <2>1. ASSUME NEW h \in 1..(n - 1), events'[h] = <<c, k>>
          PROVE  FALSE
        <3>1. h + 1 \in 2..n
            BY <1>1
        <3>. QED
            BY <1>3, <1>6, <2>1, <3>1
    <2>. QED
        BY <1>3, <2>1 DEF Queued
<1>9. /\ Queued(k)' = Queued(k) \ {c}
      /\ \A j \in CmdIds \ {k} : Queued(j)' = Queued(j)
      /\ \A j : Flipping(j)' = Flipping(j)
    <2>1. Queued(k)' = Queued(k) \ {c}
        BY <1>2, <1>7, <1>8 DEF Queued
    <2>2. ASSUME NEW j \in CmdIds \ {k}
          PROVE  Queued(j)' = Queued(j)
        BY <1>7 DEF Queued
    <2>. QED
        BY <1>4, <2>1, <2>2 DEF Flipping
<1>10. /\ Outstanding(k)' = Outstanding(k) \ {c} /\ c \in Outstanding(k)
       /\ \A j \in CmdIds \ {k} : Outstanding(j)' = Outstanding(j)
    BY <1>5, <1>9 DEF Outstanding
<1>11. /\ Cardinality(Outstanding(k)') = Cardinality(Outstanding(k)) - 1
       /\ Cardinality(Outstanding(k)) = cmd[k].swapCount
    BY <1>2, <1>10, OutstandingFinite, FS_RemoveElement DEF Inv, EventsMatchSwapCount
<1>12. cmd[k].swapCount \in Nat /\ cmd[k].swapCount > 0 /\ cmd[k] \in CmdType /\ k \in Live
    <2>1. Cardinality(Outstanding(k)) # 0 /\ Cardinality(Outstanding(k)) \in Nat
        BY <1>10, OutstandingFinite, FS_EmptySet
    <2>. QED
        BY <1>2, <1>11, <2>1, CommandType DEF Inv, Live
<1>13. /\ cmd'[k].swapCount = cmd[k].swapCount - 1
       /\ \A j \in CmdIds \ {k} : cmd'[j] = cmd[j]
    BY <1>2, <1>4, <1>12 DEF Inv, TypeInv, CmdsType, CmdType, FreeCmd
<1>14. EventsMatchSwapCount'
    <2>1. \A j \in CmdIds : cmd'[j].swapCount = Cardinality(Outstanding(j)')
        BY <1>10, <1>11, <1>13 DEF Inv, EventsMatchSwapCount
    <2>2. \A j \in CmdIds : Flipping(j)' \cap Queued(j)' = {}
        BY <1>9 DEF Inv, EventsMatchSwapCount
    <2>3. ASSUME NEW i \in 1..(n - 1), NEW j \in 1..(n - 1), events'[i] = events'[j]
          PROVE  i = j
        <3>1. /\ i + 1 \in 1..n /\ j + 1 \in 1..n
              /\ events[i + 1] = events[j + 1]
            BY <1>1, <1>3, <2>3
        <3>2. i + 1 = j + 1
            BY <1>1, <3>1 DEF Inv, EventsMatchSwapCount
        <3>. QED
            BY <1>1, <3>2
    <2>. QED
        BY <1>3, <2>1, <2>2, <2>3 DEF EventsMatchSwapCount
<1>15. CASE cmd[k].swapCount > 1
    <2>1. cmd'[k] = [cmd[k] EXCEPT !.swapCount = @ - 1] /\ pending_flips' = pending_flips
        BY <1>2, <1>4, <1>12, <1>15 DEF Inv, TypeInv, CmdsType
    <2>2. cmd'[k] # FreeCmd
        BY <1>12, <2>1, NoCmdIsNone DEF CmdType, FreeCmd
    <2>3. Live' = Live
        BY <1>12, <1>13, <2>2 DEF Live
    <2>4. LiveExpects'
        <3>1. cmd'[k].swapCount > 0
            BY <1>12, <1>13, <1>15
        <3>. QED
            BY <1>13, <2>3, <3>1 DEF Inv, LiveExpects, Live
    <2>5. PendingFlipsCounts' /\ FlipsOnlyInFlipMode'
        BY <1>4, <2>1, <2>3 DEF Inv, PendingFlipsCounts, FlipsOnlyInFlipMode
    <2>. QED
        BY <1>14, <2>4, <2>5
<1>16. CASE cmd[k].swapCount <= 1
    <2>1. cmd'[k] = FreeCmd /\ pending_flips' = pending_flips - 1
        BY <1>2, <1>4, <1>12, <1>16 DEF Inv, TypeInv, CmdsType
    <2>2. Live' = Live \ {k}
        BY <1>12, <1>13, <2>1 DEF Live
    <2>3. PendingFlipsCounts'
        BY <1>12, <2>1, <2>2, LiveFinite, FS_RemoveElement DEF Inv, PendingFlipsCounts
    <2>4. LiveExpects'
        BY <1>13, <2>2 DEF Inv, LiveExpects, Live
    <2>5. FlipsOnlyInFlipMode'
        BY <1>4, <2>1 DEF Inv, TypeInv, FlipsOnlyInFlipMode
    <2>. QED
        BY <1>14, <2>3, <2>4, <2>5
<1>. QED
    BY <1>12, <1>15, <1>16

-----------------------------------------------------------------------------
\* ScheduleSwap in flip mode: it queues the flips or leaves them alone.
LEMMA SwapFlipAccounting ==
    ASSUME Inv, NEW w \in Windows, SwapFlip(w)
    PROVE  /\ EventsMatchSwapCount' /\ LiveExpects'
           /\ PendingFlipsCounts' /\ FlipsOnlyInFlipMode'
<1>1. PICK fb, p :
         /\ p \in PageFlip(w, fb)
         /\ \/ p.flipped # {} /\ FlipQueued(w, p)
            \/ p.flipped = {} /\ FlipNotQueued(w)
         /\ flip_mode' = "ENABLED"
    BY DEF SwapFlip
<1>2. /\ p.ret \in BOOLEAN /\ p.flipped \in SUBSET Crtcs
      /\ \A c \in p.flipped : kflip[c] = NoCmd
    BY <1>1, PageFlipType
<1>3. CASE p.flipped # {} /\ FlipQueued(w, p)
    BY <1>1, <1>2, <1>3, FlipQueuedAccounting
<1>4. CASE p.flipped = {} /\ FlipNotQueued(w)
    BY <1>1, <1>4, AccountingKept DEF FlipNotQueued
<1>. QED
    BY <1>1, <1>3, <1>4

\* A handler goes on after its wait: no flip is pending, whatever it was that
\* ended the wait.
LEMMA NothingPending ==
    ASSUME Inv, WaitOver
    PROVE  pending_flips <= 0
    BY DEF Inv, TypeInv, WaitOver, FlipsOnlyInFlipMode

LEMMA ReturnAccounting ==
    ASSUME Inv, Return
    PROVE  /\ EventsMatchSwapCount' /\ LiveExpects'
           /\ PendingFlipsCounts' /\ FlipsOnlyInFlipMode'
<1>1. WaitOver /\ UNCHANGED flipVars
    BY DEF Return, SwapBlitReturn, SetModeMajorReturn, ScreenInit, RootWriteReturn
<1>. QED
    BY <1>1, NothingPending, AccountingKept

\* Everything else leaves commands, events and the mode alone.
LEMMA OthersAccounting ==
    ASSUME Inv,
           \/ \E w \in Windows : Client(w) \/ SwapFlipFallback(w) \/ SwapBlit(w)
           \/ Access \/ Config
    PROVE  /\ EventsMatchSwapCount' /\ LiveExpects'
           /\ PendingFlipsCounts' /\ FlipsOnlyInFlipMode'
<1>1. (\E w \in Windows : Client(w)) => UNCHANGED flipVars /\ flip_mode' = flip_mode
    BY DEF Client, GetBuffers, Restack, DestroyWindow, Move, omapVars
<1>2. (\E w \in Windows : SwapFlipFallback(w) \/ SwapBlit(w))
        => UNCHANGED flipVars /\ flip_mode' = flip_mode
    BY DEF SwapFlipFallback, SwapBlit, omapVars
<1>3. Access => UNCHANGED flipVars /\ flip_mode' = flip_mode
    BY DEF Access, RootWrite, RootRead, RootWriteDirect, omapVars
<1>4. Config => UNCHANGED flipVars /\ flip_mode' = flip_mode
    <2>1. ASSUME NEW c \in Crtcs, Unplug(c) \/ Disable(c)
          PROVE  UNCHANGED flipVars /\ flip_mode' = flip_mode
        BY <2>1 DEF Unplug, Disable, omapVars
    <2>2. ASSUME NEW c \in Crtcs, NEW r \in RectChoices, SetModeMajor(c, r)
          PROVE  UNCHANGED flipVars /\ flip_mode' = flip_mode
        BY <2>2 DEF SetModeMajor, omapVars
    <2>3. ASSUME NEW d \in Widths, Resize(d)
          PROVE  UNCHANGED flipVars /\ flip_mode' = flip_mode
        BY <2>3 DEF Resize
    <2>4. CloseScreen => UNCHANGED flipVars /\ flip_mode' = flip_mode
        BY DEF CloseScreen, omapVars
    <2>. QED
        BY <2>1, <2>2, <2>3, <2>4 DEF Config
<1>. QED
    BY <1>1, <1>2, <1>3, <1>4, AccountingKept

-----------------------------------------------------------------------------
\* The event that is handled belongs to a command in use.
LEMMA EventsAreLive ==
    ASSUME Inv
    PROVE  \A i \in DOMAIN events : cmd[events[i][2]] # FreeCmd
<1>. SUFFICES ASSUME NEW i \in DOMAIN events
              PROVE  cmd[events[i][2]] # FreeCmd
    OBVIOUS
<1>1. PICK c \in Crtcs, k \in CmdIds : events[i] = <<c, k>>
    BY EventsType DEF Inv
<1>2. c \in Outstanding(k)
    BY <1>1 DEF Outstanding, Queued
<1>3. cmd[k].swapCount # 0
    BY <1>2, OutstandingFinite, FS_EmptySet DEF Inv, EventsMatchSwapCount
<1>. QED
    BY <1>1, <1>3 DEF FreeCmd

LEMMA NextType ==
    ASSUME Inv, Next
    PROVE  TypeInv'
<1>. USE DEF Inv
<1>1. ASSUME NEW w \in Windows, Client(w)
      PROVE  TypeInv'
    BY <1>1, GetBuffersType, RestackType, DestroyWindowType, MoveType DEF Client
<1>2. ASSUME NEW w \in Windows, Swap(w)
      PROVE  TypeInv'
    BY <1>2, SwapFlipType, SwapFlipFallbackType, SwapBlitType DEF Swap
<1>3. RootCols \subseteq Int
    BY ColsType DEF RootCols
<1>4. CASE Access
    BY <1>3, <1>4, RootWriteType, RootReadType, RootWriteDirectType DEF Access
<1>5. CASE Config
    BY <1>5, UnplugType, DisableType, SetModeMajorType, ResizeType, CloseScreenType DEF Config
<1>6. CASE Return
    BY <1>3, <1>6, SwapBlitReturnType, SetModeMajorReturnType, ScreenInitType,
       RootWriteReturnType DEF Return
<1>7. CASE HandleEvent
    BY <1>7, EventsAreLive, HandleEventType
<1>8. ASSUME NEW c \in Crtcs, KernelFlip(c)
      PROVE  TypeInv'
    BY <1>8, KernelFlipType
<1>. QED
    BY <1>1, <1>2, <1>4, <1>5, <1>6, <1>7, <1>8 DEF Next

-----------------------------------------------------------------------------
(* The initial state.                                                      *)

\* Of finitely many numbers, one for each CRTC, one is the largest.
LEMMA LargestExists ==
    ASSUME NEW f \in [Crtcs -> Nat]
    PROVE  \E c \in Crtcs : \A d \in Crtcs : f[d] <= f[c]
<1>. DEFINE S == {f[c] : c \in Crtcs}
            n == Cardinality(S)
<1>1. S \in SUBSET Int /\ IsFiniteSet(S)
    <2>1. f \in Surjection(Crtcs, S)
        BY DEF Surjection
    <2>. QED
        BY <2>1, CrtcsFinite, FS_Surjection
<1>2. S # {}
    <2>1. 1 \in Crtcs
        BY SizeAssumption DEF Crtcs
    <2>. QED
        BY <2>1
<1>3. n \in 1..Cardinality(S)
    <2>1. n \in Nat /\ n # 0
        BY <1>1, <1>2, FS_CardinalityType, FS_EmptySet
    <2>. QED
        BY <2>1
<1>. HIDE DEF S, n
<1>4. PICK m \in S : m \in Nth(S, n)
    <2>1. Nth(S, n) # {} /\ Nth(S, n) \subseteq S
        BY <1>1, <1>3, NthExists
    <2>. QED
        BY <2>1
<1>5. {t \in S : t <= m} = S
    <2>1. Cardinality({t \in S : t <= m}) = n
        BY <1>4 DEF Nth
    <2>. DEFINE T == {t \in S : t <= m}
    <2>2. T \in SUBSET S
        OBVIOUS
    <2>. HIDE DEF T
    <2>3. Cardinality(S) = Cardinality(T) => S = T
        BY <1>1, <2>2, FS_Subset
    <2>. QED
        BY <2>1, <2>3 DEF T, n
<1>6. \A c \in Crtcs : f[c] <= m
    BY <1>5 DEF S
<1>. QED
    BY <1>4, <1>6 DEF S

\* There are bos for all slots of the first modes.
LEMMA InitStarved ==
    Cardinality(Starved([s \in Slots |-> EmptySlot], Crtcs, InitRect)) <= Cardinality(Bos \ {1})
<1>. DEFINE starved == Starved([s \in Slots |-> EmptySlot], Crtcs, InitRect)
<1>1. starved \in SUBSET Crtcs
    BY DEF Starved
<1>. HIDE DEF starved
<1>2. Cardinality(starved) <= Cardinality(Crtcs) /\ Cardinality(starved) \in Nat
    BY <1>1, CrtcsFinite, FS_Subset, FS_CardinalityType
<1>3. Cardinality(Crtcs) = NumCrtc /\ Cardinality(Bos) = NumBo
    BY SizeAssumption, FS_Interval DEF Crtcs, Bos
<1>4. Cardinality(Bos \ {1}) = NumBo - 1
    <2>1. 1 \in Bos
        BY SizeAssumption DEF Bos
    <2>. QED
        BY <1>3, <2>1, BosFinite, FS_RemoveElement
<1>. QED
    BY <1>2, <1>3, <1>4, SizeAssumption, DisplayAssumption DEF starved

LEMMA InitTable == InitUpdate.tab \in TableType /\ InitUpdate.rc \in CountsType
<1>. DEFINE tab == [s \in Slots |-> EmptySlot]
            rc  == [b \in Bos |-> IF b = 1 THEN 2 ELSE 0]
<1>1. tab \in TableType /\ rc \in [Bos -> Int]
    BY DEF TableType, EmptySlot, SlotType, NoRect, Rects
<1>2. InitRect \in [Crtcs -> Rects]
    BY DisplayAssumption, RectType
<1>3. Cardinality(Starved(tab, Crtcs, InitRect)) <= Cardinality(Bos \ {1})
    BY InitStarved
<1>4. (Bos \ {1}) \in SUBSET Bos /\ Crtcs \in SUBSET Crtcs
    OBVIOUS
<1>. HIDE DEF tab, rc
<1>5. LET u == UpdateDone(tab, Crtcs, InitRect, Bos \ {1}, rc)
      IN  u.tab \in TableType /\ u.rc \in [Bos -> Int]
    BY <1>1, <1>2, <1>3, <1>4, UpdateDoneType
<1>. QED
    BY <1>5 DEF tab, rc, InitUpdate, CountsType

LEMMA InitWidths ==
    ASSUME Init
    PROVE  bowidth \in WidthType
<1>. DEFINE right == [c \in Crtcs |-> InitRect[c].x + InitRect[c].w]
            last  == CHOOSE c \in Crtcs : \A d \in Crtcs : right[d] <= right[c]
<1>1. \A c \in Crtcs : InitRect[c] \in Rects
    BY DisplayAssumption, RectType
<1>2. right \in [Crtcs -> Nat]
    BY <1>1 DEF Rects
<1>3. InitWidth \in Nat
    <2>1. last \in Crtcs
        BY <1>2, LargestExists
    <2>2. InitWidth = right[last]
        BY DEF InitWidth
    <2>. QED
        BY <1>2, <2>1, <2>2
<1>4. ASSUME NEW b \in Bos
      PROVE  bowidth[b] \in Nat
    <2>1. b # 1 /\ b <= NumCrtc + 1 => b - 1 \in Crtcs
        BY SizeAssumption DEF Bos, Crtcs
    <2>. QED
        BY <1>1, <1>3, <2>1 DEF Init, Rects
<1>. QED
    BY <1>4 DEF Init, WidthType

LEMMA InitWindows ==
    ASSUME Init
    PROVE  win \in WinsType
<1>1. ASSUME NEW w \in Windows
      PROVE  InitPlace(w) \in RectChoices
    <2>1. w - 1 \in Nat /\ NumCrtc \in Nat /\ NumCrtc > 0
        BY <1>1, SizeAssumption, DisplayAssumption DEF Windows
    <2>2. ((w - 1) % NumCrtc) \in 0..(NumCrtc - 1)
        BY <2>1
    <2>3. ((w - 1) % NumCrtc) + 1 \in Crtcs
        BY <2>1, <2>2 DEF Crtcs
    <2>. QED
        BY <2>3, DisplayAssumption DEF InitPlace
<1>2. \A w \in Windows : InitWindow(w) \in WinType
    BY <1>1 DEF InitWindow, WinType
<1>. QED
    BY <1>2 DEF Init, WinsType

LEMMA InitInv == Init => Inv
<1>. SUFFICES ASSUME Init
              PROVE  Inv
    OBVIOUS
<1>1. scanouts \in TableType /\ refcnt \in CountsType
    BY InitTable DEF Init
<1>2. /\ crtcFb \in FbType /\ pixBo \in PixType /\ scanout \in Bos
    <2>1. 1 \in Bos
        BY SizeAssumption DEF Bos
    <2>. QED
        BY <2>1 DEF Init, FbType, PixType, BoOrNone
<1>3. current \in ImgType
    BY ColsType DEF Init, ImgType, RootCols
<1>4. crtc \in [Crtcs -> CrtcType]
    BY DisplayAssumption DEF Init, CrtcType
<1>5. /\ cmd \in CmdsType /\ kflip \in [Crtcs -> CmdIds \cup {NoCmd}]
      /\ events \in Seq(Crtcs \X CmdIds)
    BY DEF Init, CmdsType
<1>6. TypeInv
    <2>1. /\ flip_mode \in {"ENABLED", "DISABLED"} /\ pending_flips \in Int
          /\ call = Idle
        BY DEF Init
    <2>2. has_resized \in BOOLEAN
        <3>1. has_resized = FALSE
            BY Zenon DEF Init
        <3>. QED
            BY <3>1
    <2>. QED
        BY <1>1, <1>2, <1>3, <1>4, <1>5, <2>1, <2>2, InitWidths, InitWindows, IdleType DEF TypeInv
<1>7. \A k \in CmdIds : Outstanding(k) = {}
    BY NoCmdIsNone DEF Init, Outstanding, Flipping, Queued
<1>8. EventsMatchSwapCount
    <2>1. \A k \in CmdIds : cmd[k].swapCount = 0
        BY DEF Init, FreeCmd
    <2>2. events = <<>>
        BY DEF Init
    <2>. QED
        BY <1>7, <2>1, <2>2, FS_EmptySet DEF EventsMatchSwapCount, Outstanding
<1>9. Live = {}
    BY DEF Init, Live
<1>. QED
    BY <1>6, <1>8, <1>9, FS_EmptySet
    DEF Init, Inv, LiveExpects, PendingFlipsCounts, FlipsOnlyInFlipMode

-----------------------------------------------------------------------------
LEMMA StepInv == Inv /\ [Next]_vars => Inv'
<1>. SUFFICES ASSUME Inv, [Next]_vars
              PROVE  Inv'
    OBVIOUS
<1>1. CASE Next
    <2>1. TypeInv'
        BY <1>1, NextType
    <2>2. /\ EventsMatchSwapCount' /\ LiveExpects'
          /\ PendingFlipsCounts' /\ FlipsOnlyInFlipMode'
        BY <1>1, SwapFlipAccounting, ReturnAccounting, OthersAccounting,
           HandleEventAccounting, KernelFlipAccounting DEF Next, Swap
    <2>. QED
        BY <2>1, <2>2 DEF Inv
<1>2. CASE UNCHANGED vars
    <2>1. UNCHANGED flipVars /\ flip_mode' = flip_mode
        BY <1>2 DEF vars, omapVars
    <2>2. TypeInv'
        BY <1>2 DEF Inv, TypeInv, vars, omapVars, flipVars, boVars
    <2>. QED
        BY <2>1, <2>2, AccountingKept DEF Inv
<1>. QED
    BY <1>1, <1>2

\* The accounting of flips is inductive.
THEOREM InvHolds == Spec => []Inv
    BY InitInv, StepInv, PTL DEF Spec

\* The variables keep their types: every operator of the model is applied
\* within its domain, on every configuration of the hardware.
THEOREM DisplayTypes == Spec => []TypeOK
<1>1. Inv => TypeOK
    BY TypeInvImpliesTypeOK DEF Inv
<1>. QED
    BY <1>1, InvHolds, PTL

\* A command is freed by exactly the last of its events.
THEOREM EventsMatch == Spec => []EventsMatchSwapCount
<1>1. Inv => EventsMatchSwapCount
    BY DEF Inv
<1>. QED
    BY <1>1, InvHolds, PTL

\* pending_flips counts the commands that still get an event.
THEOREM PendingCounts == Spec => []PendingFlipsCounts
<1>1. Inv => PendingFlipsCounts
    BY DEF Inv
<1>. QED
    BY <1>1, InvHolds, PTL

\* No flip is under way outside flip mode.
THEOREM FlipsInFlipMode == Spec => []FlipsOnlyInFlipMode
<1>1. Inv => FlipsOnlyInFlipMode
    BY DEF Inv
<1>. QED
    BY <1>1, InvHolds, PTL

-----------------------------------------------------------------------------
(* The DRI2 contract: the driver accepts, answers and drops swaps only as   *)
(* SwapContract allows.                                                    *)

\* The commands that will answer window w.
OwedBy(w) == {k \in Live : cmd[k].win = w /\ Answers(k)}

\* What the core waits for is what the driver owes: a throttled window has one
\* command that answers it, any other window has none.
PendingIsOwed ==
    \A w \in Windows : \/ win[w].pending = 0 /\ OwedBy(w) = {}
                       \/ win[w].pending = 1 /\ \E k \in CmdIds : OwedBy(w) = {k}

SwapInv == Inv /\ PendingIsOwed

LEMMA OwedIsPending ==
    ASSUME PendingIsOwed, NEW w \in Windows
    PROVE  Owed(w) = win[w].pending /\ win[w].pending \in {0, 1}
<1>1. Owed(w) = Cardinality(OwedBy(w))
    BY DEF Owed, OwedBy
<1>. QED
    BY <1>1, FS_EmptySet, FS_Singleton DEF PendingIsOwed

\* The window keeps its throttle and the commands that answer it.
Quiet(w) == win'[w].pending = win[w].pending /\ OwedBy(w)' = OwedBy(w)

\* No command and no life of a window changes.
LEMMA WindowsQuiet ==
    ASSUME cmd' = cmd, \A w \in Windows : win'[w].alive = win[w].alive,
           \A k \in Live : cmd[k].win \in Windows
    PROVE  \A w \in Windows : OwedBy(w)' = OwedBy(w)
<1>1. Live' = Live
    BY DEF Live
<1>2. \A k \in Live : Answers(k)' <=> Answers(k)
    BY DEF Answers
<1>. QED
    BY <1>1, <1>2 DEF OwedBy

LEMMA LiveWindow ==
    ASSUME TypeInv
    PROVE  \A k \in Live : k \in CmdIds /\ cmd[k] \in CmdType /\ cmd[k].win \in Windows
    BY CommandType DEF Live, CmdType

\* A step is one of the contract if it leaves every window alone, or all but w
\* and takes w from one side of the contract to the other.
LEMMA QuietStep ==
    ASSUME PendingIsOwed, \A w \in Windows : Quiet(w)
    PROVE  PendingIsOwed' /\ UNCHANGED Contract!vars
<1>1. PendingIsOwed'
    BY DEF PendingIsOwed, Quiet
<1>2. ASSUME NEW w \in Windows
      PROVE  Owed(w)' = Owed(w) /\ win'[w].pending = win[w].pending
    BY DEF Quiet, Owed, OwedBy
<1>. QED
    BY <1>1, <1>2 DEF Contract!vars

Others(w) == \A v \in Windows \ {w} : Quiet(v)

LEMMA AcceptStep ==
    ASSUME PendingIsOwed, NEW w \in Windows, Others(w),
           win[w].pending = 0, win'[w].pending = 1, NEW k \in CmdIds, OwedBy(w)' = {k}
    PROVE  PendingIsOwed' /\ Contract!Next
<1>1. PendingIsOwed'
    BY DEF PendingIsOwed, Others, Quiet
<1>2. ASSUME NEW v \in Windows
      PROVE  Owed(v)' = IF v = w THEN 1 ELSE Owed(v)
    <2>1. Owed(v)' = Cardinality(OwedBy(v)') /\ Owed(v) = Cardinality(OwedBy(v))
        BY DEF Owed, OwedBy
    <2>. QED
        BY <2>1, FS_Singleton DEF Others, Quiet
<1>3. \A v \in Windows : win'[v].pending = IF v = w THEN 1 ELSE win[v].pending
    BY DEF Others, Quiet
<1>4. Contract!Accept(w)
    BY <1>2, <1>3 DEF Contract!Accept, Contract!Windows, Windows
<1>. QED
    BY <1>1, <1>4 DEF Contract!Next, Contract!Windows, Windows

LEMMA SettleStep ==
    ASSUME PendingIsOwed, NEW w \in Windows, Others(w),
           win[w].pending = 1, win'[w].pending = 0, OwedBy(w)' = {}
    PROVE  PendingIsOwed' /\ Contract!Next
<1>1. PendingIsOwed'
    BY DEF PendingIsOwed, Others, Quiet
<1>2. ASSUME NEW v \in Windows
      PROVE  Owed(v)' = IF v = w THEN 0 ELSE Owed(v)
    <2>1. Owed(v)' = Cardinality(OwedBy(v)') /\ Owed(v) = Cardinality(OwedBy(v))
        BY DEF Owed, OwedBy
    <2>. QED
        BY <2>1, FS_EmptySet DEF Others, Quiet
<1>3. \A v \in Windows : win'[v].pending = IF v = w THEN 0 ELSE win[v].pending
    BY DEF Others, Quiet
<1>4. Owed(w) = 1
    BY OwedIsPending
<1>5. Contract!Settle(w)
    BY <1>2, <1>3, <1>4 DEF Contract!Settle, Contract!Windows, Windows
<1>. QED
    BY <1>1, <1>5 DEF Contract!Next, Contract!Windows, Windows

LEMMA SettleAllStep ==
    ASSUME \A w \in Windows : win'[w].pending = 0 /\ OwedBy(w)' = {}
    PROVE  PendingIsOwed' /\ Contract!Next
<1>1. PendingIsOwed'
    BY DEF PendingIsOwed
<1>2. ASSUME NEW w \in Windows
      PROVE  Owed(w)' = 0
    <2>1. Owed(w)' = Cardinality(OwedBy(w)')
        BY DEF Owed, OwedBy
    <2>. QED
        BY <2>1, FS_EmptySet
<1>3. Contract!SettleAll
    BY <1>2 DEF Contract!SettleAll, Contract!Windows, Windows
<1>. QED
    BY <1>1, <1>3 DEF Contract!Next

-----------------------------------------------------------------------------
\* What Remember does to the windows.
LEMMA RememberQuiet ==
    ASSUME TypeInv, NEW w, NEW flip, NEW pending, win' = Remember(w, flip, pending)
    PROVE  /\ \A v \in Windows : win'[v].alive = win[v].alive
           /\ \A v \in Windows \ {w} : win'[v].pending = win[v].pending
           /\ w \in Windows => win'[w].pending = pending
    BY DEF Remember, TypeInv, WinsType, WinType

LEMMA OnTopQuiet ==
    ASSUME TypeInv, NEW w, NEW r, win' = OnTop(w, r)
    PROVE  \A v \in Windows : win'[v].alive = win[v].alive /\ win'[v].pending = win[v].pending
<1>. SUFFICES ASSUME NEW v \in Windows
              PROVE  win'[v].alive = win[v].alive /\ win'[v].pending = win[v].pending
    OBVIOUS
<1>1. win[v] \in WinType
    BY DEF TypeInv, WinsType
<1>2. win'[v] \in {win[v], [win[v] EXCEPT !.clipped = TRUE],
                  [win[v] EXCEPT !.rect = r, !.clipped = FALSE]}
    BY DEF OnTop
<1>. QED
    BY <1>1, <1>2 DEF WinType

\* The clients move and raise windows and ask for buffers: no swap changes.
LEMMA ClientContract ==
    ASSUME SwapInv, NEW w \in Windows, Client(w)
    PROVE  PendingIsOwed' /\ [Contract!Next]_Contract!vars
<1>. USE DEF SwapInv, Inv
<1>1. cmd' = cmd
    BY DEF Client, GetBuffers, Restack, DestroyWindow, Move, flipVars
<1>2. CASE /\ ~DestroyWindow(w)
    <2>1. \A v \in Windows : win[v] \in WinType
        BY DEF TypeInv, WinsType
    <2>2. \A v \in Windows : win'[v].alive = win[v].alive /\ win'[v].pending = win[v].pending
        <3>1. CASE GetBuffers(w)
            BY <2>1, <3>1 DEF GetBuffers, TypeInv, WinsType, WinType
        <3>2. CASE Restack(w)
            <4>1. \/ win' = OnTop(w, win[w].rect)
                  \/ win' = [win EXCEPT ![w].clipped = TRUE]
                BY <3>2 DEF Restack
            <4>2. CASE win' = [win EXCEPT ![w].clipped = TRUE]
                BY <2>1, <4>2 DEF TypeInv, WinsType, WinType
            <4>. QED
                BY <4>1, <4>2, OnTopQuiet
        <3>3. CASE \E r \in RectChoices : Move(w, r)
            BY <3>3, OnTopQuiet DEF Move
        <3>. QED
            BY <1>2, <3>1, <3>2, <3>3 DEF Client
    <2>3. \A v \in Windows : Quiet(v)
        BY <1>1, <2>2, LiveWindow, WindowsQuiet DEF Quiet
    <2>. QED
        BY <2>3, QuietStep
<1>3. CASE DestroyWindow(w)
    <2>1. win' = [win EXCEPT ![w] = DeadWindow(w)]
        BY <1>3 DEF DestroyWindow
    <2>2. /\ win'[w].alive = FALSE /\ win'[w].pending = 0
          /\ \A v \in Windows \ {w} : win'[v] = win[v]
        BY <2>1 DEF DeadWindow, TypeInv, WinsType, WinType
    <2>3. Live' = Live
        BY <1>1 DEF Live
    <2>4. OwedBy(w)' = {}
        BY <2>2 DEF OwedBy, Answers
    <2>5. ASSUME NEW v \in Windows \ {w}
          PROVE  Quiet(v)
        <3>1. OwedBy(v)' = OwedBy(v)
            BY <1>1, <2>2, <2>3 DEF OwedBy, Answers
        <3>. QED
            BY <2>2, <3>1 DEF Quiet
    <2>6. CASE win[w].pending = 1
        BY <2>2, <2>4, <2>5, <2>6, SettleStep DEF Others
    <2>7. CASE win[w].pending # 1
        <3>1. Quiet(w)
            BY <2>2, <2>4, <2>7 DEF Quiet, PendingIsOwed
        <3>. QED
            BY <2>5, <3>1, QuietStep
    <2>. QED
        BY <2>6, <2>7
<1>. QED
    BY <1>2, <1>3

\* A swap that flips every CRTC of the window is accepted; one that failed half
\* way or flipped none is not.
LEMMA SwapFlipContract ==
    ASSUME SwapInv, NEW w \in Windows, SwapFlip(w)
    PROVE  PendingIsOwed' /\ [Contract!Next]_Contract!vars
<1>. USE DEF SwapInv, Inv
<1>1. PICK fb, p :
         /\ p \in PageFlip(w, fb)
         /\ \/ p.flipped # {} /\ FlipQueued(w, p)
            \/ p.flipped = {} /\ FlipNotQueued(w)
    BY DEF SwapFlip
<1>2. p.ret \in BOOLEAN /\ p.flipped \in SUBSET Crtcs
    BY <1>1, PageFlipType
<1>3. win[w].alive /\ win[w].pending = 0 /\ OwedBy(w) = {}
    BY DEF SwapFlip, SwapReady, PendingIsOwed
<1>4. CASE FlipNotQueued(w)
    <2>1. cmd' = cmd /\ win' = Remember(w, TRUE, 0)
        BY <1>4 DEF FlipNotQueued, flipVars
    <2>2. \A v \in Windows : win'[v].alive = win[v].alive /\ win'[v].pending = win[v].pending
        BY <1>3, <2>1, RememberQuiet
    <2>3. \A v \in Windows : Quiet(v)
        BY <2>1, <2>2, LiveWindow, WindowsQuiet DEF Quiet
    <2>. QED
        BY <2>3, QuietStep
<1>5. CASE FlipQueued(w, p)
    <2>. DEFINE pending == IF p.ret THEN 1 ELSE 0
    <2>1. PICK k \in Nth(CmdIds \ Live, 1) : cmd' = [cmd EXCEPT ![k] = NewCmd(w, p)]
        BY <1>5 DEF FlipQueued
    <2>2. win' = Remember(w, TRUE, pending)
        BY <1>5 DEF FlipQueued
    <2>. HIDE DEF pending
    <2>3. /\ \A v \in Windows : win'[v].alive = win[v].alive
          /\ \A v \in Windows \ {w} : win'[v].pending = win[v].pending
          /\ win'[w].pending = pending
        BY <2>2, RememberQuiet
    <2>4. k \in CmdIds /\ k \notin Live /\ cmd[k] = FreeCmd
        BY <2>1 DEF Nth, Live
    <2>5. cmd'[k] = NewCmd(w, p) /\ \A j \in CmdIds \ {k} : cmd'[j] = cmd[j]
        BY <2>1, <2>4 DEF TypeInv, CmdsType
    <2>6. cmd'[k].win = w /\ cmd'[k].fail = ~p.ret /\ cmd'[k] # FreeCmd
        BY <2>5, NoCmdIsNone DEF NewCmd, FreeCmd
    <2>7. Live' = Live \cup {k}
        BY <2>4, <2>5, <2>6 DEF Live
    <2>8. Answers(k)' <=> p.ret
        BY <1>2, <1>3, <2>3, <2>6 DEF Answers
    <2>9. \A j \in Live : j # k /\ cmd'[j] = cmd[j] /\ (Answers(j)' <=> Answers(j))
        BY <2>3, <2>4, <2>5, LiveWindow DEF Answers, Live
    <2>10. ASSUME NEW v \in Windows \ {w}
           PROVE  Quiet(v)
        <3>1. OwedBy(v)' = OwedBy(v)
            BY <2>6, <2>7, <2>9 DEF OwedBy
        <3>. QED
            BY <2>3, <3>1 DEF Quiet
    <2>11. CASE p.ret
        <3>1. OwedBy(w)' = {k}
            BY <1>3, <2>6, <2>7, <2>8, <2>9, <2>11 DEF OwedBy
        <3>2. win'[w].pending = 1
            BY <2>3, <2>11 DEF pending
        <3>. QED
            BY <1>3, <2>4, <2>10, <3>1, <3>2, AcceptStep DEF Others
    <2>12. CASE ~p.ret
        <3>1. OwedBy(w)' = OwedBy(w)
            BY <2>6, <2>7, <2>8, <2>9, <2>12 DEF OwedBy
        <3>2. Quiet(w)
            BY <1>3, <2>3, <2>12, <3>1 DEF Quiet, pending
        <3>. QED
            BY <2>10, <3>2, QuietStep
    <2>. QED
        BY <2>11, <2>12
<1>. QED
    BY <1>1, <1>4, <1>5

\* The last event of a command that answers settles its window; any other event
\* changes no window.
LEMMA HandleEventContract ==
    ASSUME SwapInv, HandleEvent
    PROVE  PendingIsOwed' /\ [Contract!Next]_Contract!vars
<1>. USE DEF SwapInv, Inv
<1>1. PICK k \in CmdIds : k = Head(events)[2] /\ cmd[k] # FreeCmd
    <2>1. events # <<>> /\ 1 \in DOMAIN events /\ Head(events) = events[1]
        BY EventsType DEF HandleEvent, TypeInv
    <2>. QED
        BY <2>1, EventsType, EventsAreLive
<1>2. k \in Live /\ cmd[k] \in CmdType /\ cmd[k].win \in Windows
    BY <1>1, LiveWindow DEF Live
<1>. PICK w \in Windows : w = cmd[k].win
    BY <1>2
<1>3. \/ /\ cmd[k].swapCount > 1 /\ win' = win
         /\ cmd' = [cmd EXCEPT ![k].swapCount = @ - 1]
      \/ Answers(k) /\ CompleteFlip(k)
      \/ ~Answers(k) /\ DropFlip(k)
    BY <1>1 DEF HandleEvent
<1>4. CASE /\ cmd[k].swapCount > 1 /\ win' = win
           /\ cmd' = [cmd EXCEPT ![k].swapCount = @ - 1]
    <2>1. /\ cmd'[k] = [cmd[k] EXCEPT !.swapCount = @ - 1]
          /\ \A j \in CmdIds \ {k} : cmd'[j] = cmd[j]
        BY <1>4 DEF TypeInv, CmdsType
    <2>2. cmd'[k].win = cmd[k].win /\ cmd'[k].fail = cmd[k].fail /\ cmd'[k] # FreeCmd
        BY <1>2, <2>1, NoCmdIsNone DEF CmdType, FreeCmd
    <2>3. Live' = Live
        BY <1>2, <2>1, <2>2 DEF Live
    <2>4. \A j \in Live : cmd'[j].win = cmd[j].win /\ (Answers(j)' <=> Answers(j))
        BY <1>4, <2>1, <2>2 DEF Answers, Live
    <2>5. \A v \in Windows : Quiet(v)
        BY <1>4, <2>3, <2>4 DEF Quiet, OwedBy
    <2>. QED
        BY <2>5, QuietStep
<1>5. ASSUME cmd' = [cmd EXCEPT ![k] = FreeCmd],
             \A v \in Windows : win'[v].alive = win[v].alive
      PROVE  \A v \in Windows : OwedBy(v)' = OwedBy(v) \ {k}
    <2>1. cmd'[k] = FreeCmd /\ \A j \in CmdIds \ {k} : cmd'[j] = cmd[j]
        BY <1>5 DEF TypeInv, CmdsType
    <2>2. Live' = Live \ {k}
        BY <2>1 DEF Live
    <2>3. \A j \in Live \ {k} : cmd'[j] = cmd[j] /\ (Answers(j)' <=> Answers(j))
        BY <1>5, <2>1, LiveWindow DEF Answers, Live
    <2>. QED
        BY <2>2, <2>3 DEF OwedBy
<1>6. CASE Answers(k) /\ CompleteFlip(k)
    <2>1. cmd' = [cmd EXCEPT ![k] = FreeCmd] /\ win' = [win EXCEPT ![w].pending = 0]
        BY <1>6 DEF CompleteFlip, CompleteCmd
    <2>2. /\ win'[w].pending = 0
          /\ \A v \in Windows : win'[v].alive = win[v].alive
          /\ \A v \in Windows \ {w} : win'[v].pending = win[v].pending
        BY <1>2, <2>1 DEF TypeInv, WinsType, WinType
    <2>3. k \in OwedBy(w)
        BY <1>2, <1>6 DEF OwedBy
    <2>4. win[w].pending = 1 /\ OwedBy(w) = {k}
        BY <1>2, <2>3 DEF PendingIsOwed
    <2>5. OwedBy(w)' = {}
        BY <1>2, <1>5, <2>1, <2>2, <2>4
    <2>6. ASSUME NEW v \in Windows \ {w}
          PROVE  Quiet(v)
        <3>1. k \notin OwedBy(v)
            BY <2>3 DEF OwedBy
        <3>2. OwedBy(v)' = OwedBy(v) \ {k}
            BY <1>5, <2>1, <2>2
        <3>. QED
            BY <2>2, <3>1, <3>2 DEF Quiet
    <2>. QED
        BY <1>2, <2>2, <2>4, <2>5, <2>6, SettleStep DEF Others
<1>7. CASE ~Answers(k) /\ DropFlip(k)
    <2>1. cmd' = [cmd EXCEPT ![k] = FreeCmd] /\ win' = win
        BY <1>7 DEF DropFlip, CompleteCmd
    <2>2. ASSUME NEW v \in Windows
          PROVE  Quiet(v)
        <3>1. k \notin OwedBy(v)
            BY <1>7 DEF OwedBy
        <3>2. OwedBy(v)' = OwedBy(v)
            BY <1>5, <2>1, <3>1
        <3>. QED
            BY <2>1, <3>2 DEF Quiet
    <2>. QED
        BY <2>2, QuietStep
<1>. QED
    BY <1>3, <1>4, <1>6, <1>7

\* Without flips under way no window is throttled.
LEMMA NothingOwed ==
    ASSUME SwapInv, pending_flips <= 0
    PROVE  Live = {} /\ \A w \in Windows : win[w].pending = 0 /\ OwedBy(w) = {}
<1>1. Live = {}
    BY LiveFinite, FS_EmptySet DEF SwapInv, Inv, PendingFlipsCounts
<1>. QED
    BY <1>1 DEF SwapInv, PendingIsOwed, OwedBy

\* The calls that go on after their wait change no throttle.
LEMMA ReturnContract ==
    ASSUME SwapInv, Return
    PROVE  PendingIsOwed' /\ [Contract!Next]_Contract!vars
<1>. USE DEF SwapInv, Inv
<1>1. WaitOver /\ cmd' = cmd
    BY DEF Return, SwapBlitReturn, SetModeMajorReturn, ScreenInit, RootWriteReturn, flipVars
<1>2. Live = {} /\ \A w \in Windows : win[w].pending = 0 /\ OwedBy(w) = {}
    BY <1>1, NothingPending, NothingOwed
<1>3. \A w \in Windows : OwedBy(w)' = {}
    BY <1>1, <1>2 DEF OwedBy, Live
<1>4. ASSUME NEW w \in Windows
      PROVE  win'[w].pending = 0
    <2>1. CASE SwapBlitReturn
        <3>1. win' = win \/ win' = Remember(call.win, call.canflip, 0)
            BY <2>1 DEF SwapBlitReturn
        <3>. QED
            BY <1>2, <3>1, RememberQuiet
    <2>2. CASE ScreenInit
        BY <1>2, <2>2 DEF ScreenInit, TypeInv, WinsType, WinType
    <2>3. CASE SetModeMajorReturn \/ \E x \in RootCols : RootWriteReturn(x)
        BY <1>2, <2>3 DEF SetModeMajorReturn, RootWriteReturn
    <2>. QED
        BY <2>1, <2>2, <2>3 DEF Return
<1>5. \A w \in Windows : Quiet(w)
    BY <1>2, <1>3, <1>4 DEF Quiet
<1>. QED
    BY <1>5, QuietStep

LEMMA CloseScreenContract ==
    ASSUME SwapInv, CloseScreen
    PROVE  PendingIsOwed' /\ [Contract!Next]_Contract!vars
<1>1. \A w \in Windows : win'[w].pending = 0 /\ win'[w].alive = FALSE
    BY DEF CloseScreen, DeadWindow, SwapInv, Inv, TypeInv, WinsType, WinType
<1>2. ASSUME NEW w \in Windows
      PROVE  OwedBy(w)' = {}
    BY <1>1 DEF OwedBy, Answers
<1>. QED
    BY <1>1, <1>2, SettleAllStep

\* Everything else leaves windows and commands alone.
LEMMA OthersContract ==
    ASSUME SwapInv,
           \/ \E w \in Windows : SwapFlipFallback(w) \/ SwapBlit(w)
           \/ Access \/ Config \/ \E c \in Crtcs : KernelFlip(c)
    PROVE  PendingIsOwed' /\ [Contract!Next]_Contract!vars
<1>. USE DEF SwapInv, Inv
<1>1. CASE CloseScreen
    BY <1>1, CloseScreenContract
<1>2. ASSUME cmd' = cmd, \A v \in Windows : /\ win'[v].alive = win[v].alive
                                            /\ win'[v].pending = win[v].pending
      PROVE  PendingIsOwed' /\ [Contract!Next]_Contract!vars
    <2>1. \A v \in Windows : Quiet(v)
        BY <1>2, LiveWindow, WindowsQuiet DEF Quiet
    <2>. QED
        BY <2>1, QuietStep
<1>3. ASSUME NEW w \in Windows, SwapFlipFallback(w)
      PROVE  PendingIsOwed' /\ [Contract!Next]_Contract!vars
    <2>1. cmd' = cmd /\ win' = Remember(w, FALSE, 0) /\ win[w].pending = 0
        BY <1>3 DEF SwapFlipFallback, SwapReady, flipVars
    <2>. QED
        BY <1>2, <2>1, RememberQuiet
<1>4. CASE UNCHANGED <<cmd, win>>
    BY <1>2, <1>4
<1>5. Access => UNCHANGED <<cmd, win>>
    BY DEF Access, RootWrite, RootRead, RootWriteDirect, flipVars
<1>6. Config => UNCHANGED <<cmd, win>> \/ CloseScreen
    BY DEF Config, Unplug, Disable, SetModeMajor, Resize, flipVars
<1>7. (\E c \in Crtcs : KernelFlip(c)) => UNCHANGED <<cmd, win>>
    BY DEF KernelFlip
<1>8. (\E w \in Windows : SwapBlit(w)) => UNCHANGED <<cmd, win>>
    BY DEF SwapBlit, flipVars
<1>. QED
    BY <1>1, <1>3, <1>4, <1>5, <1>6, <1>7, <1>8

LEMMA ContractInit == Init => PendingIsOwed /\ Contract!Init
<1>. SUFFICES ASSUME Init
              PROVE  PendingIsOwed /\ Contract!Init
    OBVIOUS
<1>1. \A w \in Windows : win[w].pending = 0
    BY DEF Init, InitWindow
<1>2. \A w \in Windows : OwedBy(w) = {}
    BY DEF Init, OwedBy, Live
<1>3. PendingIsOwed
    BY <1>1, <1>2 DEF PendingIsOwed
<1>. QED
    BY <1>1, <1>3, OwedIsPending DEF Contract!Init, Contract!Windows, Windows

LEMMA ContractStep ==
    SwapInv /\ [Next]_vars => PendingIsOwed' /\ [Contract!Next]_Contract!vars
<1>. SUFFICES ASSUME SwapInv, [Next]_vars
              PROVE  PendingIsOwed' /\ [Contract!Next]_Contract!vars
    OBVIOUS
<1>1. CASE Next
    BY <1>1, ClientContract, SwapFlipContract, HandleEventContract, ReturnContract,
       OthersContract DEF Next, Swap
<1>2. CASE UNCHANGED vars
    <2>1. UNCHANGED <<cmd, win>>
        BY <1>2 DEF vars, flipVars
    <2>2. \A w \in Windows : Quiet(w)
        BY <2>1 DEF Quiet, OwedBy, Live, Answers
    <2>. QED
        BY <2>2, QuietStep DEF SwapInv
<1>. QED
    BY <1>1, <1>2

\* Every step of the driver is one that DRI2 allows, or none at all for it: a
\* swap is accepted for a window that waits for none, and answered once.
THEOREM SwapsKeepContract == Spec => Contract!Init /\ [][Contract!Next]_Contract!vars
<1>1. SwapInv /\ [Next]_vars => SwapInv'
    BY StepInv, ContractStep DEF SwapInv
<1>2. Init => SwapInv
    BY InitInv, ContractInit DEF SwapInv
<1>. QED
    BY <1>1, <1>2, ContractInit, ContractStep, PTL DEF Spec

-----------------------------------------------------------------------------
(* The references that pixmaps hold.                                       *)

PixIds == Pixmaps \cup {Root}
Backing(pix, b) == Cardinality({p \in PixIds : pix[p] = b})

LEMMA PixIdsFinite == IsFiniteSet(PixIds) /\ Root \in PixIds /\ Root \notin Pixmaps /\ Pixmaps \subseteq PixIds
<1>1. Root \notin Pixmaps
    BY DEF Root, Pixmaps
<1>2. IsFiniteSet(PixIds)
    BY PixmapsFinite, FS_AddElement DEF PixIds
<1>. QED
    BY <1>1, <1>2 DEF PixIds

LEMMA BackingType ==
    ASSUME NEW pix, NEW b
    PROVE  Backing(pix, b) \in Nat /\ (Backing(pix, b) = 0 <=> \A p \in PixIds : pix[p] # b)
<1>. DEFINE S == {p \in PixIds : pix[p] = b}
<1>1. IsFiniteSet(S)
    BY PixIdsFinite, FS_Subset
<1>2. S = {} <=> \A p \in PixIds : pix[p] # b
    OBVIOUS
<1>. HIDE DEF S
<1>. QED
    BY <1>1, <1>2, FS_CardinalityType, FS_EmptySet DEF Backing, S

LEMMA BackingChange ==
    ASSUME NEW f \in PixType, NEW p \in PixIds, NEW x, NEW b
    PROVE  Backing([f EXCEPT ![p] = x], b) = Backing(f, b) - Is(f[p], b) + Is(x, b)
<1>. DEFINE g == [f EXCEPT ![p] = x]
            A == {q \in PixIds : f[q] = b}
            B == {q \in PixIds : g[q] = b}
<1>1. g[p] = x /\ \A q \in PixIds \ {p} : g[q] = f[q]
    BY DEF PixType, PixIds
<1>. HIDE DEF g
<1>2. /\ A \in SUBSET PixIds /\ B \in SUBSET PixIds
      /\ \A q \in PixIds \ {p} : q \in A <=> q \in B
    BY <1>1
<1>3. One(p \in A) = Is(f[p], b) /\ One(p \in B) = Is(x, b)
    BY <1>1 DEF One, Is
<1>4. Backing(f, b) = Cardinality(A) /\ Backing(g, b) = Cardinality(B)
    BY DEF Backing
<1>. HIDE DEF A, B
<1>5. Cardinality(B) = Cardinality(A) - One(p \in A) + One(p \in B)
    BY <1>2, PixIdsFinite, CountChange
<1>. QED
    BY <1>3, <1>4, <1>5 DEF g

\* Dropping pixmaps drops their references.
LEMMA DropKeepsRefs ==
    ASSUME NEW w, NEW c, NEW pix \in PixType, NEW rc \in CountsType, NEW b \in Bos
    PROVE  DropRefs(rc, w, c, pix)[b] - Backing(DropPixmaps(w, c, pix), b) = rc[b] - Backing(pix, b)
<1>. DEFINE S == {p \in PixIds : pix[p] = b}
            G == {p \in Freed(w, c, pix) : pix[p] = b}
            T == {p \in PixIds : DropPixmaps(w, c, pix)[p] = b}
<1>1. b # NoBo
    BY DEF Bos, NoBo
<1>2. DOMAIN pix = PixIds
    BY DEF PixType, PixIds
<1>3. \A p \in PixIds : p \in T <=> p \in S \ G
    BY <1>1, <1>2 DEF DropPixmaps
<1>4. T = S \ G /\ G \in SUBSET S
    BY <1>3, PixIdsFinite DEF Freed
<1>5. IsFiniteSet(S) /\ S \cap G = G
    BY <1>4, PixIdsFinite, FS_Subset
<1>6. /\ DropRefs(rc, w, c, pix)[b] = rc[b] - Cardinality(G) /\ rc[b] \in Int
      /\ Backing(DropPixmaps(w, c, pix), b) = Cardinality(T) /\ Backing(pix, b) = Cardinality(S)
    BY DEF DropRefs, Backing, CountsType
<1>. HIDE DEF S, G, T
<1>7. Cardinality(T) = Cardinality(S) - Cardinality(G)
    BY <1>4, <1>5, FS_Difference
<1>8. Cardinality(S) \in Nat /\ Cardinality(G) \in Nat
    BY <1>4, <1>5, FS_Subset, FS_CardinalityType
<1>. QED
    BY <1>6, <1>7, <1>8

LEMMA DropCollects ==
    ASSUME NEW w, NEW c, NEW pix \in PixType, NEW p \in Pixmaps, p \notin HeldPixmaps(w, c)
    PROVE  DropPixmaps(w, c, pix)[p] = NoBo
<1>1. p \in DOMAIN pix
    BY DEF PixType
<1>. QED
    BY <1>1 DEF DropPixmaps, Freed

\* An exchange of buffers moves the references with them.
LEMMA ExchangeKeepsRefs ==
    ASSUME NEW pix \in PixType, NEW p \in Pixmaps, NEW b
    PROVE  Backing(Exchanged(pix, p), b) = Backing(pix, b)
<1>1. Root \in PixIds /\ p \in PixIds /\ p # Root /\ pix[p] \in BoOrNone
    BY PixIdsFinite DEF PixType, PixIds
<1>2. PICK mid \in PixType : mid = [pix EXCEPT ![Root] = pix[p]]
    BY <1>1 DEF PixType
<1>3. mid[p] = pix[p] /\ Exchanged(pix, p) = [mid EXCEPT ![p] = pix[Root]]
    BY <1>1, <1>2 DEF PixType, Exchanged
<1>4. Backing(mid, b) = Backing(pix, b) - Is(pix[Root], b) + Is(pix[p], b)
    <2>1. Backing([pix EXCEPT ![Root] = pix[p]], b) = Backing(pix, b) - Is(pix[Root], b) + Is(pix[p], b)
        BY <1>1, BackingChange
    <2>. QED
        BY <1>2, <2>1
<1>5. Backing(Exchanged(pix, p), b) = Backing(mid, b) - Is(mid[p], b) + Is(pix[Root], b)
    <2>1. Backing([mid EXCEPT ![p] = pix[Root]], b) = Backing(mid, b) - Is(mid[p], b) + Is(pix[Root], b)
        BY <1>1, BackingChange
    <2>. QED
        BY <1>3, <2>1
<1>6. /\ Backing(pix, b) \in Int /\ Backing(mid, b) \in Int
      /\ Is(pix[p], b) \in Int /\ Is(pix[Root], b) \in Int
    BY BackingType, IsType
<1>. QED
    BY <1>3, <1>4, <1>5, <1>6

-----------------------------------------------------------------------------
(* The reference counts.                                                   *)

\* The references to b that nobody holds: call.old is the bo that the blit in
\* progress has taken out of the screen pixmap.
Surplus(b) == refcnt[b] - Listed(scanouts, b) - Backing(pixBo, b) - Is(scanout, b) - Is(call.old, b)

\* No bo has fewer references than holders.
Referenced == \A b \in Bos : Surplus(b) >= 0

\* Pixmaps that nothing refers to are gone.
Collected == \A p \in Pixmaps : p \notin HeldPixmaps(win, cmd) => pixBo[p] = NoBo

\* Only the blit of a swap has taken a bo out of the screen pixmap.
OldInSwap == call.op # "swap" => call.old = NoBo

RefsInv == Inv /\ Referenced /\ Collected /\ OldInSwap

LEMMA SurplusType ==
    ASSUME TypeInv, NEW b \in Bos
    PROVE  /\ refcnt[b] \in Int /\ Listed(scanouts, b) \in Nat /\ Backing(pixBo, b) \in Nat
           /\ Is(scanout, b) \in Nat /\ Is(call.old, b) \in Nat /\ Surplus(b) \in Int
           /\ Holders(b) = Listed(scanouts, b) + Backing(pixBo, b) + Is(scanout, b)
<1>1. /\ refcnt[b] \in Int /\ Listed(scanouts, b) \in Nat /\ Backing(pixBo, b) \in Nat
      /\ Is(scanout, b) \in Nat /\ Is(call.old, b) \in Nat
    BY ListedType, BackingType, IsType DEF TypeInv, CountsType
<1>2. Surplus(b) \in Int
    BY <1>1 DEF Surplus
<1>3. Holders(b) = Listed(scanouts, b) + Backing(pixBo, b) + Is(scanout, b)
    BY DEF Holders, Listed, Backing, PixIds, Is
<1>. QED
    BY <1>1, <1>2, <1>3

\* A bo that is free has no holders.
LEMMA FreeIsUnheld ==
    ASSUME TypeInv, Referenced, NEW b \in FreeBos
    PROVE  /\ b \in Bos /\ refcnt[b] = 0 /\ Listed(scanouts, b) = 0 /\ Backing(pixBo, b) = 0
           /\ b # scanout /\ b # call.old /\ Surplus(b) = 0
           /\ (\A s \in Slots : scanouts[s].bo # b) /\ \A p \in PixIds : pixBo[p] # b
<1>1. b \in Bos /\ refcnt[b] = 0
    BY DEF FreeBos
<1>2. /\ Listed(scanouts, b) \in Nat /\ Backing(pixBo, b) \in Nat
      /\ Is(scanout, b) \in Nat /\ Is(call.old, b) \in Nat /\ Surplus(b) >= 0
    BY <1>1, SurplusType DEF Referenced
<1>3. /\ Listed(scanouts, b) = 0 /\ Backing(pixBo, b) = 0
      /\ Is(scanout, b) = 0 /\ Is(call.old, b) = 0 /\ Surplus(b) = 0
    BY <1>1, <1>2 DEF Surplus
<1>4. b # scanout /\ b # call.old
    BY <1>3 DEF Is
<1>. QED
    BY <1>1, <1>3, <1>4, ListedType, BackingType

\* A step that leaves the holders and the counts as they are.
LEMMA SurplusSame ==
    ASSUME refcnt' = refcnt, scanout' = scanout, pixBo' = pixBo, call'.old = call.old,
           \A s \in Slots : scanouts'[s].bo = scanouts[s].bo
    PROVE  \A b \in Bos : Surplus(b)' = Surplus(b)
<1>1. \A b : Listed(scanouts', b) = Listed(scanouts, b)
    BY ListedSame
<1>2. \A b : Backing(pixBo', b) = Backing(pixBo, b) /\ Is(scanout', b) = Is(scanout, b)
               /\ Is(call'.old, b) = Is(call.old, b)
    OBVIOUS
<1>3. \A b : Surplus(b)' = refcnt'[b] - Listed(scanouts', b) - Backing(pixBo', b)
                             - Is(scanout', b) - Is(call'.old, b)
    BY DEF Surplus, Listed, Backing
<1>. QED
    BY <1>1, <1>2, <1>3 DEF Surplus

LEMMA CollectedSame ==
    ASSUME Collected, \A p \in Pixmaps : pixBo'[p] = pixBo[p],
           \A p \in Pixmaps : p \in HeldPixmaps(win, cmd) => p \in HeldPixmaps(win', cmd')
    PROVE  Collected'
    BY DEF Collected

LEMMA SurplusNext ==
    ASSUME NEW b
    PROVE  Surplus(b)' = refcnt'[b] - Listed(scanouts', b) - Backing(pixBo', b)
                           - Is(scanout', b) - Is(call'.old, b)
    BY DEF Surplus, Listed, Backing

LEMMA SurplusNextType ==
    ASSUME TypeInv', NEW b \in Bos
    PROVE  Surplus(b)' \in Int
<1>1. refcnt'[b] \in Int
    BY DEF TypeInv, CountsType
<1>. QED
    BY <1>1, SurplusNext, ListedType, BackingType, IsType

\* The root bo stays, and slots and pixmaps change with their references.
LEMMA SurplusMoved ==
    ASSUME TypeInv, NEW b \in Bos, refcnt'[b] \in Int, scanout' = scanout, call'.old = call.old,
           refcnt'[b] - Listed(scanouts', b) - Backing(pixBo', b)
             = refcnt[b] - Listed(scanouts, b) - Backing(pixBo, b)
    PROVE  Surplus(b)' = Surplus(b)
<1>1. PICK x \in Int, y \in Int : x = Is(scanout, b) /\ y = Is(call.old, b)
    BY SurplusType
<1>2. Surplus(b) = refcnt[b] - Listed(scanouts, b) - Backing(pixBo, b) - x - y
    BY <1>1 DEF Surplus
<1>3. Surplus(b)' = refcnt'[b] - Listed(scanouts', b) - Backing(pixBo', b) - x - y
    BY <1>1, SurplusNext
<1>4. /\ refcnt[b] \in Int /\ Backing(pixBo, b) \in Int /\ Backing(pixBo', b) \in Int
      /\ Listed(scanouts, b) \in Int /\ Listed(scanouts', b) \in Int
    BY SurplusType, BackingType, ListedType
<1>. QED
    BY <1>2, <1>3, <1>4

LEMMA SurplusKept ==
    ASSUME TypeInv, NEW b \in Bos, refcnt'[b] \in Int, scanout' = scanout, call'.old = call.old,
           Listed(scanouts', b) = Listed(scanouts, b),
           refcnt'[b] - Backing(pixBo', b) = refcnt[b] - Backing(pixBo, b)
    PROVE  Surplus(b)' = Surplus(b)
<1>1. /\ refcnt[b] \in Int /\ Backing(pixBo, b) \in Int /\ Backing(pixBo', b) \in Int
      /\ Listed(scanouts, b) \in Int
    BY SurplusType, BackingType
<1>2. refcnt'[b] - Listed(scanouts', b) - Backing(pixBo', b)
        = refcnt[b] - Listed(scanouts, b) - Backing(pixBo, b)
    BY <1>1
<1>. QED
    BY <1>2, SurplusMoved

\* The mode switches keep the bos of the table.
LEMMA BosKept ==
    ASSUME TypeInv, NEW c, NEW m \in SetBlitMode \cup SetFlipMode \cup SetOneCrtc(c), NEW s \in Slots
    PROVE  m.tab[s].bo = scanouts[s].bo /\ m.tab[s].rect = scanouts[s].rect
<1>1. scanouts[s] \in SlotType
    BY DEF TypeInv, TableType
<1>2. \A n : /\ Invalidated(n)[s].bo = scanouts[s].bo /\ Invalidated(n)[s].rect = scanouts[s].rect
             /\ Validated(n)[s].bo = scanouts[s].bo /\ Validated(n)[s].rect = scanouts[s].rect
    BY <1>1 DEF Invalidated, Validated, SlotType
<1>3. m.tab = scanouts \/ \E n : m.tab = Invalidated(n) \/ m.tab = Validated(n)
    BY DEF SetBlitMode, SetFlipMode, SetOneCrtc, AlreadySet, Outcome
<1>. QED
    BY <1>2, <1>3

\* The screen pixmap gets another bo, with the references that it takes.
LEMMA FrontKeepsRefs ==
    ASSUME TypeInv, NEW rc \in CountsType, NEW new, NEW b \in Bos
    PROVE  LET cnt == Unreference(Reference(rc, new), pixBo[Root])
               pix == [pixBo EXCEPT ![Root] = new]
           IN  /\ cnt[b] \in Int /\ Backing(pix, b) \in Nat
               /\ cnt[b] - Backing(pix, b) = rc[b] - Backing(pixBo, b)
<1>. DEFINE pix == [pixBo EXCEPT ![Root] = new]
            old == pixBo[Root]
<1>1. Backing(pix, b) = Backing(pixBo, b) - Is(old, b) + Is(new, b)
    BY PixIdsFinite, BackingChange DEF TypeInv
<1>. HIDE DEF pix, old
<1>3. PICK up \in [Bos -> Int] : up = Reference(rc, new)
    BY RefsType DEF CountsType
<1>4. up[b] = rc[b] + Is(new, b) /\ Unreference(up, old)[b] = up[b] - Is(old, b)
    BY <1>3, RefsCount DEF CountsType
<1>5. /\ Is(new, b) \in Int /\ Is(old, b) \in Int /\ up[b] \in Int
      /\ Backing(pixBo, b) \in Nat /\ Backing(pix, b) \in Nat
    BY IsType, BackingType
<1>6. rc[b] \in Int
    BY DEF CountsType
<1>. QED
    BY <1>1, <1>3, <1>4, <1>5, <1>6 DEF pix, old

\* The same for a blit.
LEMMA BlitKeepsRefs ==
    ASSUME TypeInv, NEW w, NEW rc \in CountsType, NEW m, BlitToFront(w, rc, m),
           \A s \in Slots : m.tab[s].bo = scanouts[s].bo, m.tab \in TableType, NEW b \in Bos
    PROVE  /\ refcnt'[b] \in Int /\ Backing(pixBo', b) \in Nat
           /\ refcnt'[b] - Backing(pixBo', b) = rc[b] - Backing(pixBo, b)
           /\ Listed(scanouts', b) = Listed(scanouts, b)
<1>1. Listed(scanouts', b) = Listed(scanouts, b)
    <2>1. \A s \in Slots : scanouts'[s].bo = scanouts[s].bo
        BY DEF BlitToFront, TableType, SlotType
    <2>. QED
        BY <2>1, ListedSame
<1>2. pixBo' = [pixBo EXCEPT ![Root] = scanout]
    BY DEF BlitToFront
<1>3. CASE pixBo[Root] = scanout
    <2>1. pixBo' = pixBo /\ refcnt' = rc
        BY <1>2, <1>3 DEF BlitToFront, Commit, TypeInv, PixType
    <2>. QED
        BY <1>1, <2>1, BackingType DEF CountsType
<1>4. CASE pixBo[Root] # scanout
    <2>1. refcnt' = Unreference(Reference(rc, scanout), pixBo[Root])
        BY <1>4 DEF BlitToFront, Commit
    <2>. QED
        BY <1>1, <1>2, <2>1, FrontKeepsRefs
<1>. QED
    BY <1>3, <1>4

-----------------------------------------------------------------------------
(* Every action keeps the surplus.                                         *)

LEMMA GetBuffersRefs ==
    ASSUME RefsInv, NEW w \in Windows, GetBuffers(w)
    PROVE  (\A b \in Bos : Surplus(b)' = Surplus(b)) /\ Collected'
<1>1. PICK p \in Nth(Pixmaps \ HeldPixmaps(win, cmd), 1), e \in Nth(FreeBos, 1) :
         LET v   == [win EXCEPT ![w] = [@ EXCEPT !.back = p, !.canflip = -1, !.stale = FALSE]]
             pix == [pixBo EXCEPT ![p] = e]
         IN  /\ win' = v
             /\ pixBo' = DropPixmaps(v, cmd, pix)
             /\ Commit(DropRefs([refcnt EXCEPT ![e] = 1], v, cmd, pix),
                       [bowidth EXCEPT ![e] = win[w].rect.w], crtcFb, current)
    BY DEF GetBuffers
<1>. DEFINE pix == [pixBo EXCEPT ![p] = e]
            rc  == [refcnt EXCEPT ![e] = 1]
<1>2. p \in Pixmaps /\ p \notin HeldPixmaps(win, cmd) /\ e \in FreeBos
    BY DEF Nth
<1>3. pixBo[p] = NoBo /\ p \in PixIds
    BY <1>2, PixIdsFinite DEF RefsInv, Collected
<1>4. e \in Bos /\ refcnt[e] = 0
    BY <1>2 DEF FreeBos
<1>5. /\ refcnt' = DropRefs(rc, win', cmd, pix) /\ pixBo' = DropPixmaps(win', cmd, pix)
      /\ UNCHANGED <<scanout, scanouts, cmd, call>>
    BY <1>1 DEF Commit, GetBuffers, omapVars, flipVars
<1>6. /\ pix \in PixType /\ rc \in CountsType /\ refcnt \in CountsType
      /\ pix[p] = e /\ \A q \in PixIds \ {p} : pix[q] = pixBo[q]
    BY <1>2, <1>3, <1>4 DEF RefsInv, Inv, TypeInv, PixType, CountsType, BoOrNone, PixIds
<1>7. ASSUME NEW b \in Bos
      PROVE  rc[b] = refcnt[b] + Is(e, b)
    <2>1. refcnt[b] \in Int
        BY <1>6 DEF CountsType
    <2>. QED
        BY <1>4, <1>6, <2>1 DEF Is, CountsType
<1>. HIDE DEF pix, rc
<1>8. ASSUME NEW b \in Bos
      PROVE  Surplus(b)' = Surplus(b)
    <2>1. Backing(pix, b) = Backing(pixBo, b) + Is(e, b)
        <3>1. Backing(pix, b) = Backing(pixBo, b) - Is(pixBo[p], b) + Is(e, b)
            BY <1>3, BackingChange DEF RefsInv, Inv, TypeInv, pix
        <3>2. Is(pixBo[p], b) = 0 /\ Is(e, b) \in Int /\ Backing(pixBo, b) \in Int
            BY <1>3, IsType, BackingType DEF Is, NoBo, Bos
        <3>. QED
            BY <3>1, <3>2
    <2>2. refcnt'[b] - Backing(pixBo', b) = rc[b] - Backing(pix, b)
        BY <1>5, <1>6, DropKeepsRefs
    <2>3. /\ refcnt[b] \in Int /\ refcnt'[b] \in Int /\ rc[b] \in Int /\ Is(e, b) \in Int
          /\ Backing(pixBo, b) \in Int /\ Backing(pixBo', b) \in Int /\ Backing(pix, b) \in Int
        <3>1. DropRefs(rc, win', cmd, pix) \in CountsType
            BY <1>6, DropType
        <3>. QED
            BY <1>5, <1>6, <3>1, IsType, BackingType DEF CountsType
    <2>4. rc[b] = refcnt[b] + Is(e, b)
        BY <1>7
    <2>5. refcnt'[b] - Backing(pixBo', b) = refcnt[b] - Backing(pixBo, b)
        BY <2>1, <2>2, <2>3, <2>4
    <2>. QED
        BY <1>5, <2>3, <2>5, SurplusKept DEF RefsInv, Inv
<1>9. Collected'
    BY <1>5, <1>6, DropCollects DEF Collected
<1>. QED
    BY <1>8, <1>9

Kept == (\A b \in Bos : Surplus(b)' = Surplus(b)) /\ Collected'

\* Windows and commands that refer to the same pixmaps.
LEMMA HeldSame ==
    ASSUME \A v \in Windows : win'[v].back = win[v].back,
           \A k \in CmdIds : cmd'[k].src = cmd[k].src
    PROVE  HeldPixmaps(win', cmd') = HeldPixmaps(win, cmd)
<1>1. /\ {win'[v].back : v \in Windows} = {win[v].back : v \in Windows}
      /\ {cmd'[k].src : k \in CmdIds} = {cmd[k].src : k \in CmdIds}
    OBVIOUS
<1>. QED
    BY <1>1 DEF HeldPixmaps

\* A step that leaves pixmaps, table and counts alone.
LEMMA QuietRefs ==
    ASSUME RefsInv, UNCHANGED <<refcnt, scanout, scanouts, pixBo, cmd>>, call'.old = call.old,
           \A v \in Windows : win'[v].back = win[v].back
    PROVE  Kept
<1>1. \A b \in Bos : Surplus(b)' = Surplus(b)
    BY SurplusSame
<1>2. Collected'
    BY HeldSame, CollectedSame DEF RefsInv
<1>. QED
    BY <1>1, <1>2 DEF Kept

LEMMA BackKept ==
    ASSUME TypeInv, NEW w, NEW r, NEW flip, NEW pending, NEW v \in Windows
    PROVE  OnTop(w, r)[v].back = win[v].back /\ Remember(w, flip, pending)[v].back = win[v].back
<1>1. win[v] \in WinType
    BY DEF TypeInv, WinsType
<1>2. OnTop(w, r)[v].back = win[v].back
    BY <1>1 DEF OnTop, WinType
<1>3. \A a, c, d : /\ [win[v] EXCEPT !.stale = a, !.canflip = c, !.pending = d].back = win[v].back
                   /\ [win[v] EXCEPT !.stale = a].back = win[v].back
    BY <1>1 DEF WinType
<1>4. Remember(w, flip, pending)[v].back = win[v].back
    BY <1>3 DEF Remember
<1>. QED
    BY <1>2, <1>4

LEMMA IdleOld == Idle.old = NoBo /\ \A b \in Bos : Is(NoBo, b) = 0
    BY DEF Idle, Is, NoBo, Bos

\* The actions that do nothing to bos, pixmaps, slots and commands.
QuietAction ==
    \/ \E w \in Windows : Restack(w) \/ \E r \in RectChoices : Move(w, r)
    \/ Access
    \/ \E c \in Crtcs : Unplug(c) \/ Disable(c) \/ \E r \in RectChoices : SetModeMajor(c, r)
    \/ \E c \in Crtcs : KernelFlip(c)

LEMMA QuietFacts ==
    ASSUME TypeInv, QuietAction
    PROVE  /\ UNCHANGED <<omapVars, refcnt, bowidth, crtcFb, pixBo, cmd>>
           /\ call'.old = call.old
           /\ \A v \in Windows : win'[v].back = win[v].back
<1>1. ASSUME NEW w \in Windows, Restack(w)
      PROVE  /\ UNCHANGED <<omapVars, refcnt, bowidth, crtcFb, pixBo, cmd, call>>
             /\ \A v \in Windows : win'[v].back = win[v].back
    <2>1. /\ win' = OnTop(w, win[w].rect) \/ win' = [win EXCEPT ![w].clipped = TRUE]
          /\ UNCHANGED <<omapVars, refcnt, bowidth, crtcFb, pixBo, cmd, call>>
        BY <1>1 DEF Restack, boVars, flipVars
    <2>2. CASE win' = OnTop(w, win[w].rect)
        BY <2>1, <2>2, BackKept
    <2>3. CASE win' = [win EXCEPT ![w].clipped = TRUE]
        BY <2>1, <2>3 DEF TypeInv, WinsType, WinType
    <2>. QED
        BY <2>1, <2>2, <2>3
<1>2. ASSUME NEW w \in Windows, NEW r \in RectChoices, Move(w, r)
      PROVE  /\ UNCHANGED <<omapVars, refcnt, bowidth, crtcFb, pixBo, cmd, call>>
             /\ \A v \in Windows : win'[v].back = win[v].back
    <2>1. win' = OnTop(w, r) /\ UNCHANGED <<omapVars, refcnt, bowidth, crtcFb, pixBo, cmd, call>>
        BY <1>2 DEF Move, boVars, flipVars
    <2>. QED
        BY <2>1, BackKept
<1>3. ASSUME Access
      PROVE  UNCHANGED <<omapVars, refcnt, bowidth, crtcFb, pixBo, cmd, win>> /\ call'.old = call.old
    <2>1. UNCHANGED <<omapVars, refcnt, bowidth, crtcFb, pixBo, cmd, win>>
        BY <1>3 DEF Access, RootWrite, RootRead, RootWriteDirect, boVars, flipVars
    <2>2. call'.old = call.old
        BY <1>3 DEF Access, RootWrite, RootRead, RootWriteDirect, Idle
    <2>. QED
        BY <2>1, <2>2
<1>4. ASSUME NEW c \in Crtcs, Unplug(c) \/ Disable(c) \/ \E r \in RectChoices : SetModeMajor(c, r)
      PROVE  UNCHANGED <<omapVars, refcnt, bowidth, crtcFb, pixBo, cmd, win>> /\ call'.old = call.old
    <2>1. UNCHANGED <<omapVars, refcnt, bowidth, crtcFb, pixBo, cmd, win>>
        BY <1>4 DEF Unplug, Disable, SetModeMajor, boVars, flipVars
    <2>2. call'.old = call.old
        BY <1>4 DEF Unplug, Disable, SetModeMajor, Idle
    <2>. QED
        BY <2>1, <2>2
<1>5. ASSUME NEW c \in Crtcs, KernelFlip(c)
      PROVE  UNCHANGED <<omapVars, refcnt, bowidth, crtcFb, pixBo, cmd, win, call>>
    BY <1>5 DEF KernelFlip, boVars
<1>. QED
    BY <1>1, <1>2, <1>3, <1>4, <1>5 DEF QuietAction

LEMMA QuietActions ==
    ASSUME RefsInv, QuietAction
    PROVE  Kept
<1>1. /\ UNCHANGED <<refcnt, scanout, scanouts, pixBo, cmd>> /\ call'.old = call.old
      /\ \A v \in Windows : win'[v].back = win[v].back
    BY QuietFacts DEF RefsInv, Inv, omapVars
<1>. QED
    BY <1>1, QuietRefs

\* Windows go, and with them the pixmaps that nobody else refers to.
LEMMA DropRefsKept ==
    ASSUME RefsInv, NEW v, win' = v, cmd' = cmd, pixBo' = DropPixmaps(v, cmd, pixBo),
           refcnt' = DropRefs(refcnt, v, cmd, pixBo), UNCHANGED <<scanout, scanouts>>,
           call'.old = call.old
    PROVE  Kept
<1>1. pixBo \in PixType /\ refcnt \in CountsType /\ TypeInv
    BY DEF RefsInv, Inv, TypeInv
<1>2. ASSUME NEW b \in Bos
      PROVE  Surplus(b)' = Surplus(b)
    <2>1. refcnt'[b] - Backing(pixBo', b) = refcnt[b] - Backing(pixBo, b)
        BY <1>1, DropKeepsRefs
    <2>2. refcnt'[b] \in Int
        BY <1>1, DropType DEF CountsType
    <2>. QED
        BY <1>1, <2>1, <2>2, SurplusKept
<1>3. Collected'
    BY <1>1, DropCollects DEF Collected
<1>. QED
    BY <1>2, <1>3 DEF Kept

LEMMA DestroyRefs ==
    ASSUME RefsInv, (\E w \in Windows : DestroyWindow(w)) \/ CloseScreen
    PROVE  Kept
<1>1. ASSUME NEW w \in Windows, DestroyWindow(w)
      PROVE  Kept
    <2>. DEFINE v == [win EXCEPT ![w] = DeadWindow(w)]
    <2>1. /\ win' = v /\ pixBo' = DropPixmaps(v, cmd, pixBo) /\ refcnt' = DropRefs(refcnt, v, cmd, pixBo)
          /\ UNCHANGED <<scanout, scanouts, cmd, call>>
        BY <1>1 DEF DestroyWindow, Commit, omapVars, flipVars
    <2>. HIDE DEF v
    <2>. QED
        BY <2>1, DropRefsKept
<1>2. CASE CloseScreen
    <2>. DEFINE v == [w \in Windows |-> DeadWindow(w)]
    <2>1. /\ win' = v /\ pixBo' = DropPixmaps(v, cmd, pixBo) /\ refcnt' = DropRefs(refcnt, v, cmd, pixBo)
          /\ UNCHANGED <<scanout, scanouts, cmd>>
        BY <1>2 DEF CloseScreen, Commit, omapVars, flipVars
    <2>2. call'.old = call.old
        BY <1>2 DEF CloseScreen, Idle
    <2>. HIDE DEF v
    <2>. QED
        BY <2>1, <2>2, DropRefsKept
<1>. QED
    BY <1>1, <1>2

\* The flips that complete the modes have no way to fail halfway.
BlitWorks == {"blit_copy", "blit_crtc"} \cap Faults = {}

LEMMA BlitSucceeds ==
    ASSUME BlitWorks, NEW m \in SetBlitMode
    PROVE  m.ret
<1>1. "blit_copy" \notin Faults /\ "blit_crtc" \notin Faults
    BY DEF BlitWorks
<1>2. ToBlit.bad = {}
    BY <1>1 DEF ToBlit
<1>. QED
    BY <1>1, <1>2 DEF SetBlitMode, AlreadySet, Outcome

LEMMA ValidateKeepsBos ==
    ASSUME NEW tab \in TableType, NEW e, NEW s \in Slots
    PROVE  /\ ValidateBo(tab, e)[s].bo = tab[s].bo
           /\ ValidateBo(tab, e)[s].rect = tab[s].rect
<1>1. tab[s] \in SlotType
    BY DEF TableType
<1>. QED
    BY <1>1 DEF ValidateBo, SlotType

LEMMA SwapFlipRefs ==
    ASSUME RefsInv, NEW w \in Windows, SwapFlip(w)
    PROVE  Kept
<1>. DEFINE e  == scanouts[ScanoutFromSize(scanouts, win[w].rect)].bo
            rc == Unreference(Reference(refcnt, e), pixBo[Root])
<1>0. TypeInv /\ refcnt \in CountsType
    BY DEF RefsInv, Inv, TypeInv
<1>1. PICK m \in SetFlipMode :
         /\ \E p \in PageFlip(w, Shown(rc, m.fb)) :
              /\ refcnt' = rc
              /\ scanouts' = IF p.ret /\ p.flipped = {} THEN ValidateBo(m.tab, e) ELSE m.tab
              /\ \/ p.flipped # {} /\ FlipQueued(w, p)
                 \/ p.flipped = {} /\ FlipNotQueued(w)
         /\ pixBo' = [pixBo EXCEPT ![Root] = e]
    BY DEF SwapFlip, Commit
<1>2. PICK p :
         /\ refcnt' = rc
         /\ scanouts' = IF p.ret /\ p.flipped = {} THEN ValidateBo(m.tab, e) ELSE m.tab
         /\ \/ p.flipped # {} /\ FlipQueued(w, p)
            \/ p.flipped = {} /\ FlipNotQueued(w)
    BY <1>1
<1>3. pixBo' = [pixBo EXCEPT ![Root] = e] /\ UNCHANGED <<scanout, call>>
    BY <1>1 DEF SwapFlip
<1>. HIDE DEF e
<1>4. m.tab \in TableType /\ \A s \in Slots : m.tab[s].bo = scanouts[s].bo
    BY <1>0, SetFlipModeType, BosKept DEF OutcomeOK
<1>5. \A s \in Slots : scanouts'[s].bo = scanouts[s].bo
    BY <1>2, <1>4, ValidateKeepsBos
<1>6. ASSUME NEW b \in Bos
      PROVE  Surplus(b)' = Surplus(b)
    <2>1. Listed(scanouts', b) = Listed(scanouts, b)
        BY <1>5, ListedSame
    <2>2. refcnt'[b] \in Int /\ refcnt'[b] - Backing(pixBo', b) = refcnt[b] - Backing(pixBo, b)
        BY <1>0, <1>2, <1>3, FrontKeepsRefs
    <2>. QED
        BY <1>0, <1>3, <2>1, <2>2, SurplusKept
<1>7. Collected'
    <2>1. \A q \in Pixmaps : pixBo'[q] = pixBo[q]
        BY <1>0, <1>3, PixIdsFinite DEF TypeInv, PixType
    <2>2. \A v \in Windows : win'[v].back = win[v].back
        <3>1. CASE FlipNotQueued(w)
            <4>1. win' = Remember(w, TRUE, 0)
                BY <3>1 DEF FlipNotQueued
            <4>. QED
                BY <1>0, <4>1, BackKept
        <3>2. CASE FlipQueued(w, p)
            <4>1. PICK n : win' = Remember(w, TRUE, n)
                BY <3>2 DEF FlipQueued
            <4>. QED
                BY <1>0, <4>1, BackKept
        <3>. QED
            BY <1>2, <3>1, <3>2
    <2>3. \A k \in CmdIds : cmd[k].src \in Pixmaps => cmd'[k].src = cmd[k].src
        <3>1. CASE FlipNotQueued(w)
            BY <3>1 DEF FlipNotQueued, flipVars
        <3>2. CASE FlipQueued(w, p)
            <4>1. PICK k \in Nth(CmdIds \ Live, 1) : cmd' = [cmd EXCEPT ![k] = NewCmd(w, p)]
                BY <3>2 DEF FlipQueued
            <4>2. cmd[k] = FreeCmd
                BY DEF Nth, Live
            <4>3. cmd[k].src \notin Pixmaps
                BY <4>2 DEF FreeCmd, NoPix, Pixmaps
            <4>4. \A j \in CmdIds \ {k} : cmd'[j] = cmd[j]
                BY <1>0, <4>1 DEF TypeInv, CmdsType
            <4>. QED
                BY <4>3, <4>4
        <3>. QED
            BY <1>2, <3>1, <3>2
    <2>4. \A q \in Pixmaps : q \in HeldPixmaps(win, cmd) => q \in HeldPixmaps(win', cmd')
        BY <2>2, <2>3 DEF HeldPixmaps
    <2>. QED
        BY <2>1, <2>4, CollectedSame DEF RefsInv
<1>. QED
    BY <1>6, <1>7 DEF Kept

\* The screen pixmap changes its bo; no window or command changes its pixmap.
LEMMA FrontCollected ==
    ASSUME RefsInv, NEW e, pixBo' = [pixBo EXCEPT ![Root] = e], cmd' = cmd,
           \A v \in Windows : win'[v].back = win[v].back
    PROVE  Collected'
<1>1. \A q \in Pixmaps : pixBo'[q] = pixBo[q]
    BY PixIdsFinite DEF RefsInv, Inv, TypeInv, PixType
<1>2. HeldPixmaps(win', cmd') = HeldPixmaps(win, cmd)
    BY HeldSame
<1>. QED
    BY <1>1, <1>2, CollectedSame DEF RefsInv

LEMMA SwapFlipFallbackRefs ==
    ASSUME RefsInv, NEW w \in Windows, SwapFlipFallback(w)
    PROVE  Kept
<1>0. TypeInv /\ refcnt \in CountsType
    BY DEF RefsInv, Inv, TypeInv
<1>1. PICK m \in SetFlipMode : BlitToFront(w, refcnt, m)
    BY DEF SwapFlipFallback
<1>2. m.tab \in TableType /\ \A s \in Slots : m.tab[s].bo = scanouts[s].bo
    BY <1>0, SetFlipModeType, BosKept DEF OutcomeOK
<1>3. UNCHANGED <<scanout, cmd, call>> /\ win' = Remember(w, FALSE, 0)
    BY DEF SwapFlipFallback, flipVars
<1>4. ASSUME NEW b \in Bos
      PROVE  Surplus(b)' = Surplus(b)
    <2>1. /\ refcnt'[b] \in Int /\ Listed(scanouts', b) = Listed(scanouts, b)
          /\ refcnt'[b] - Backing(pixBo', b) = refcnt[b] - Backing(pixBo, b)
        BY <1>0, <1>1, <1>2, BlitKeepsRefs
    <2>. QED
        BY <1>0, <1>3, <2>1, SurplusKept
<1>5. Collected'
    <2>1. pixBo' = [pixBo EXCEPT ![Root] = scanout]
        BY <1>1 DEF BlitToFront
    <2>2. \A v \in Windows : win'[v].back = win[v].back
        BY <1>0, <1>3, BackKept
    <2>. QED
        BY <1>3, <2>1, <2>2, FrontCollected
<1>. QED
    BY <1>4, <1>5 DEF Kept

\* While a blit waits, call.old has the reference of the bo it will drop.
LEMMA SwapBlitRefs ==
    ASSUME RefsInv, NEW w \in Windows, SwapBlit(w)
    PROVE  Kept
<1>0. TypeInv /\ refcnt \in CountsType
    BY DEF RefsInv, Inv, TypeInv
<1>1. /\ refcnt' = Reference(refcnt, scanout) /\ pixBo' = [pixBo EXCEPT ![Root] = scanout]
      /\ UNCHANGED <<scanout, scanouts, cmd, win>>
      /\ call.old = NoBo /\ call'.old = pixBo[Root]
    BY IdleOld DEF SwapBlit, SwapReady, omapVars, flipVars, Idle
<1>2. ASSUME NEW b \in Bos
      PROVE  Surplus(b)' = Surplus(b)
    <2>1. Backing([pixBo EXCEPT ![Root] = scanout], b) = Backing(pixBo, b) - Is(pixBo[Root], b) + Is(scanout, b)
        BY <1>0, PixIdsFinite, BackingChange DEF TypeInv
    <2>2. Reference(refcnt, scanout)[b] = refcnt[b] + Is(scanout, b)
        BY <1>0, RefsCount DEF CountsType
    <2>3. PICK x \in Int, y \in Int, z \in Int, r \in Int, l \in Int :
            /\ x = Is(scanout, b) /\ y = Is(pixBo[Root], b) /\ z = Backing(pixBo, b)
            /\ r = refcnt[b] /\ l = Listed(scanouts, b)
        BY <1>0, SurplusType, IsType
    <2>4. Surplus(b)' = refcnt'[b] - l - Backing(pixBo', b) - x - y
        BY <1>1, <2>3, SurplusNext
    <2>5. refcnt'[b] = r + x /\ Backing(pixBo', b) = z - y + x
        BY <1>1, <2>1, <2>2, <2>3
    <2>6. Surplus(b) = r - l - z - x - 0
        BY <1>1, <2>3, IdleOld DEF Surplus
    <2>. QED
        BY <2>4, <2>5, <2>6
<1>3. Collected'
    BY <1>1, FrontCollected
<1>. QED
    BY <1>2, <1>3 DEF Kept

LEMMA SwapBlitReturnRefs ==
    ASSUME RefsInv, BlitWorks, SwapBlitReturn
    PROVE  Kept
<1>0. TypeInv /\ refcnt \in CountsType /\ call.win \in Windows \cup {0}
    BY DEF RefsInv, Inv, TypeInv, CallType
<1>1. PICK m \in SetBlitMode :
         /\ BlitToFront(call.win, Unreference(refcnt, call.old), m)
         /\ win' = Remember(call.win, call.canflip, 0)
    BY BlitSucceeds DEF SwapBlitReturn
<1>2. m.tab \in TableType /\ \A s \in Slots : m.tab[s].bo = scanouts[s].bo
    BY <1>0, SetBlitModeType, BosKept DEF OutcomeOK
<1>3. UNCHANGED <<scanout, cmd>> /\ call'.old = NoBo
    BY IdleOld DEF SwapBlitReturn, flipVars
<1>4. ASSUME NEW b \in Bos
      PROVE  Surplus(b)' = Surplus(b)
    <2>1. PICK rc \in CountsType : rc = Unreference(refcnt, call.old)
        BY <1>0, RefsType DEF CountsType
    <2>2. /\ refcnt'[b] \in Int /\ Listed(scanouts', b) = Listed(scanouts, b)
          /\ refcnt'[b] - Backing(pixBo', b) = rc[b] - Backing(pixBo, b)
        BY <1>0, <1>1, <1>2, <2>1, BlitKeepsRefs
    <2>3. rc[b] = refcnt[b] - Is(call.old, b)
        BY <1>0, <2>1, RefsCount DEF CountsType
    <2>4. PICK x \in Int, y \in Int, z \in Int, r \in Int, l \in Int :
            /\ x = Is(scanout, b) /\ y = Is(call.old, b) /\ z = Backing(pixBo, b)
            /\ r = refcnt[b] /\ l = Listed(scanouts, b)
        BY <1>0, SurplusType, IsType
    <2>5. PICK z2 \in Int : z2 = Backing(pixBo', b)
        BY BackingType
    <2>6. Surplus(b)' = refcnt'[b] - l - z2 - x - 0
        BY <1>3, <2>2, <2>4, <2>5, IdleOld, SurplusNext
    <2>7. Surplus(b) = r - l - z - x - y
        BY <2>4 DEF Surplus
    <2>8. PICK q \in Int : q = refcnt'[b]
        BY <2>2
    <2>9. q - z2 = r - y - z
        <3>1. q - z2 = rc[b] - z
            BY <2>2, <2>4, <2>5, <2>8
        <3>2. rc[b] = r - y
            BY <2>3, <2>4
        <3>. QED
            BY <2>4, <3>1, <3>2
    <2>10. Surplus(b)' = q - l - z2 - x - 0
        BY <2>6, <2>8
    <2>. QED
        BY <2>4, <2>5, <2>7, <2>8, <2>9, <2>10
<1>5. Collected'
    <2>1. pixBo' = [pixBo EXCEPT ![Root] = scanout]
        BY <1>1 DEF BlitToFront
    <2>2. \A v \in Windows : win'[v].back = win[v].back
        BY <1>0, <1>1, BackKept
    <2>. QED
        BY <1>3, <2>1, <2>2, FrontCollected
<1>. QED
    BY <1>4, <1>5 DEF Kept

\* The command goes, its pixmaps with it if nobody else refers to them.
LEMMA CompleteCmdRefs ==
    ASSUME RefsInv, NEW k, NEW pix \in PixType, NEW rc \in CountsType, NEW img,
           CompleteCmd(k, pix, rc, img), \A v \in Windows : win'[v].back = win[v].back
    PROVE  /\ Collected'
           /\ \A b \in Bos : /\ refcnt'[b] \in Int
                             /\ refcnt'[b] - Backing(pixBo', b) = rc[b] - Backing(pix, b)
<1>. DEFINE c == [cmd EXCEPT ![k] = FreeCmd]
<1>1. /\ cmd' = c /\ pixBo' = DropPixmaps(win, c, pix) /\ refcnt' = DropRefs(rc, win, c, pix)
    BY DEF CompleteCmd, Commit
<1>. HIDE DEF c
<1>2. HeldPixmaps(win', cmd') = HeldPixmaps(win, c)
    <2>1. {win'[v].back : v \in Windows} = {win[v].back : v \in Windows}
        OBVIOUS
    <2>. QED
        BY <1>1, <2>1 DEF HeldPixmaps
<1>3. Collected'
    BY <1>1, <1>2, DropCollects DEF Collected
<1>4. ASSUME NEW b \in Bos
      PROVE  /\ refcnt'[b] \in Int
             /\ refcnt'[b] - Backing(pixBo', b) = rc[b] - Backing(pix, b)
    <2>1. DropRefs(rc, win, c, pix) \in CountsType
        BY DropType
    <2>2. DropRefs(rc, win, c, pix)[b] - Backing(DropPixmaps(win, c, pix), b) = rc[b] - Backing(pix, b)
        BY DropKeepsRefs
    <2>. QED
        BY <1>1, <2>1, <2>2 DEF CountsType
<1>. QED
    BY <1>3, <1>4

\* The exchange moves two references, the slot another one.
LEMMA CompleteFlipRefs ==
    ASSUME RefsInv, NEW k \in CmdIds, cmd[k] \in CmdType, CompleteFlip(k),
           UNCHANGED <<scanout, call>>
    PROVE  Kept
<1>. DEFINE p   == cmd[k].src
            new == pixBo[p]
            pix == Exchanged(pixBo, p)
            at  == [x |-> cmd[k].x, w |-> bowidth[new]]
            tab == ValidateBo(scanouts, new)
            rc  == ScanoutSetRefs(refcnt, tab, at, new)
            img == Drawn(current, new, Cols(at), TRUE)
<1>0. TypeInv /\ refcnt \in CountsType
    BY DEF RefsInv, Inv, TypeInv
<1>1. new \in BoOrNone /\ p \in Pixmaps
    BY <1>0, PixBoType DEF CmdType
<1>2. pix \in PixType
    BY <1>0, <1>1, PixBoType DEF TypeInv, PixType, Exchanged
<1>3. tab \in TableType /\ \A s \in Slots : tab[s].bo = scanouts[s].bo
    BY <1>0, ValidateBoType, ValidateKeepsBos DEF TypeInv
<1>4. \A b : Backing(pix, b) = Backing(pixBo, b)
    BY <1>0, <1>1, ExchangeKeepsRefs DEF TypeInv
<1>5. /\ scanouts' = ScanoutSet(tab, at, new)
      /\ win' = [win EXCEPT ![cmd[k].win].pending = 0]
      /\ CompleteCmd(k, pix, rc, img)
    BY DEF CompleteFlip
<1>. HIDE DEF new, pix, tab, at, p, img
<1>6. rc \in CountsType
    BY <1>0, <1>1, <1>3, ScanoutSetType DEF CountsType, BoOrNone
<1>7. \A v \in Windows : win'[v].back = win[v].back
    BY <1>0, <1>5 DEF TypeInv, WinsType, WinType
<1>8. ASSUME NEW b \in Bos
      PROVE  /\ rc[b] \in Int
             /\ rc[b] - Listed(scanouts', b) = refcnt[b] - Listed(scanouts, b)
    <2>1. /\ rc[b] \in Int
          /\ rc[b] - Listed(ScanoutSet(tab, at, new), b) = refcnt[b] - Listed(tab, b)
        BY <1>0, <1>1, <1>3, SetKeepsRefs DEF CountsType, BoOrNone
    <2>2. Listed(tab, b) = Listed(scanouts, b)
        BY <1>3, ListedSame
    <2>. QED
        BY <1>5, <2>1, <2>2
<1>. HIDE DEF rc
<1>9. /\ Collected'
      /\ \A b \in Bos : /\ refcnt'[b] \in Int
                        /\ refcnt'[b] - Backing(pixBo', b) = rc[b] - Backing(pix, b)
    BY <1>2, <1>5, <1>6, <1>7, CompleteCmdRefs
<1>10. ASSUME NEW b \in Bos
       PROVE  Surplus(b)' = Surplus(b)
    <2>1. /\ refcnt[b] \in Int /\ Backing(pixBo, b) \in Int /\ Backing(pixBo', b) \in Int
          /\ Listed(scanouts, b) \in Int /\ Listed(scanouts', b) \in Int
        BY <1>0, SurplusType, BackingType, ListedType
    <2>2. /\ refcnt'[b] \in Int
          /\ refcnt'[b] - Backing(pixBo', b) = rc[b] - Backing(pixBo, b)
        BY <1>4, <1>9
    <2>3. refcnt'[b] - Listed(scanouts', b) - Backing(pixBo', b)
            = refcnt[b] - Listed(scanouts, b) - Backing(pixBo, b)
        BY <1>8, <2>1, <2>2
    <2>. QED
        BY <1>0, <2>2, <2>3, SurplusMoved
<1>. QED
    BY <1>9, <1>10 DEF Kept

LEMMA HandleEventRefs ==
    ASSUME RefsInv, HandleEvent
    PROVE  Kept
<1>. DEFINE k == Head(events)[2]
<1>0. TypeInv /\ refcnt \in CountsType /\ pixBo \in PixType
    BY DEF RefsInv, Inv, TypeInv
<1>1. /\ Head(events) = events[1] /\ 1 \in DOMAIN events /\ Head(events) \in Crtcs \X CmdIds
    BY <1>0 DEF HandleEvent, TypeInv
<1>2. k \in CmdIds /\ cmd[k] \in CmdType
    BY <1>0, <1>1, EventsAreLive DEF RefsInv, TypeInv, CmdsType
<1>3. /\ UNCHANGED <<scanout, call>>
      /\ \/ /\ cmd' = [cmd EXCEPT ![k].swapCount = @ - 1]
            /\ UNCHANGED <<scanouts, boVars, pixBo, win>>
         \/ CompleteFlip(k)
         \/ DropFlip(k)
    BY DEF HandleEvent
<1>. HIDE DEF k
<1>4. CASE /\ cmd' = [cmd EXCEPT ![k].swapCount = @ - 1]
           /\ UNCHANGED <<scanouts, boVars, pixBo, win>>
    <2>1. \A j \in CmdIds : cmd'[j].src = cmd[j].src
        BY <1>0, <1>2, <1>4 DEF TypeInv, CmdsType, CmdType
    <2>2. refcnt' = refcnt /\ pixBo' = pixBo /\ win' = win /\ scanouts' = scanouts
        BY <1>4 DEF boVars
    <2>3. \A b \in Bos : Surplus(b)' = Surplus(b)
        BY <1>3, <2>2, SurplusSame
    <2>4. HeldPixmaps(win', cmd') = HeldPixmaps(win, cmd)
        BY <2>1, <2>2, HeldSame
    <2>5. Collected'
        BY <2>2, <2>4, CollectedSame DEF RefsInv
    <2>. QED
        BY <2>3, <2>5 DEF Kept
<1>5. CASE CompleteFlip(k)
    BY <1>2, <1>3, <1>5, CompleteFlipRefs
<1>6. CASE DropFlip(k)
    <2>1. CompleteCmd(k, pixBo, refcnt, current) /\ UNCHANGED <<scanouts, win>>
        BY <1>6 DEF DropFlip
    <2>2. /\ Collected'
          /\ \A b \in Bos : /\ refcnt'[b] \in Int
                            /\ refcnt'[b] - Backing(pixBo', b) = refcnt[b] - Backing(pixBo, b)
        BY <1>0, <2>1, CompleteCmdRefs
    <2>3. \A b \in Bos : Surplus(b)' = Surplus(b)
        BY <1>0, <1>3, <2>1, <2>2, SurplusKept
    <2>. QED
        BY <2>2, <2>3 DEF Kept
<1>. QED
    BY <1>3, <1>4, <1>5, <1>6

LEMMA RootWriteReturnRefs ==
    ASSUME RefsInv, NEW x, RootWriteReturn(x)
    PROVE  Kept
<1>0. TypeInv /\ refcnt \in CountsType
    BY DEF RefsInv, Inv, TypeInv
<1>1. PICK m \in SetBlitMode :
         /\ scanouts' = m.tab
         /\ \/ /\ pixBo' = [pixBo EXCEPT ![Root] = scanout]
               /\ refcnt' = Unreference(Reference(refcnt, scanout), pixBo[Root])
            \/ /\ refcnt' = refcnt
               /\ UNCHANGED pixBo
    BY DEF RootWriteReturn, Commit
<1>2. /\ UNCHANGED <<scanout, win, cmd>> /\ call'.old = NoBo
    BY IdleOld DEF RootWriteReturn, flipVars
<1>3. call.old = NoBo
    BY DEF RootWriteReturn, RefsInv, OldInSwap
<1>4. \A s \in Slots : scanouts'[s].bo = scanouts[s].bo
    BY <1>0, <1>1, BosKept
<1>5. CASE /\ pixBo' = [pixBo EXCEPT ![Root] = scanout]
           /\ refcnt' = Unreference(Reference(refcnt, scanout), pixBo[Root])
    <2>1. ASSUME NEW b \in Bos
          PROVE  Surplus(b)' = Surplus(b)
        <3>1. Listed(scanouts', b) = Listed(scanouts, b)
            BY <1>4, ListedSame
        <3>2. refcnt'[b] \in Int /\ refcnt'[b] - Backing(pixBo', b) = refcnt[b] - Backing(pixBo, b)
            BY <1>0, <1>5, FrontKeepsRefs
        <3>. QED
            BY <1>0, <1>2, <1>3, <3>1, <3>2, SurplusKept
    <2>2. Collected'
        BY <1>2, <1>5, FrontCollected
    <2>. QED
        BY <2>1, <2>2 DEF Kept
<1>6. CASE refcnt' = refcnt /\ UNCHANGED pixBo
    <2>1. \A b \in Bos : Surplus(b)' = Surplus(b)
        BY <1>2, <1>3, <1>4, <1>6, SurplusSame
    <2>2. Collected'
        BY <1>2, <1>6, CollectedSame DEF RefsInv
    <2>. QED
        BY <2>1, <2>2 DEF Kept
<1>. QED
    BY <1>1, <1>5, <1>6

\* The new root bo takes the place of the old one, and is in the screen pixmap.
LEMMA ResizeRefs ==
    ASSUME RefsInv, NEW d, Resize(d)
    PROVE  Kept
<1>. DEFINE same == d = bowidth[scanout]
<1>0. TypeInv /\ refcnt \in CountsType /\ scanout \in Bos
    BY DEF RefsInv, Inv, TypeInv
<1>1. PICK new \in (IF same THEN {scanout} ELSE Nth(FreeBos, 1)) :
         LET rc == IF same THEN refcnt
                   ELSE Unreference([refcnt EXCEPT ![new] = 1], scanout)
         IN  /\ scanout' = new
             /\ pixBo' = [pixBo EXCEPT ![Root] = new]
             /\ refcnt' = Unreference(Reference(rc, new), pixBo[Root])
    BY DEF Resize, RootBacked, Commit
<1>2. /\ UNCHANGED <<scanouts, win, cmd, call>>
    BY DEF Resize, flipVars
<1>3. Collected'
    BY <1>1, <1>2, FrontCollected
<1>4. CASE same
    <2>1. ASSUME NEW b \in Bos
          PROVE  Surplus(b)' = Surplus(b)
        <3>1. refcnt' = Unreference(Reference(refcnt, scanout), pixBo[Root])
              /\ pixBo' = [pixBo EXCEPT ![Root] = scanout] /\ scanout' = scanout
            BY <1>1, <1>4
        <3>2. refcnt'[b] \in Int /\ refcnt'[b] - Backing(pixBo', b) = refcnt[b] - Backing(pixBo, b)
            BY <1>0, <3>1, FrontKeepsRefs
        <3>. QED
            BY <1>0, <1>2, <3>1, <3>2, SurplusKept
    <2>. QED
        BY <1>3, <2>1 DEF Kept
<1>5. CASE ~same
    <2>. DEFINE up == [refcnt EXCEPT ![new] = 1]
                rc == Unreference(up, scanout)
    <2>1. new \in FreeBos
        BY <1>1, <1>5 DEF Nth
    <2>2. /\ new \in Bos /\ refcnt[new] = 0 /\ new # scanout
        BY <1>0, <2>1, FreeIsUnheld DEF RefsInv
    <2>3. up \in CountsType /\ \A b \in Bos : up[b] = refcnt[b] + Is(new, b)
        BY <1>0, <2>2 DEF CountsType, Is
    <2>. HIDE DEF up
    <2>4. rc \in CountsType
        BY <1>0, <2>3, RefsType DEF CountsType
    <2>5. /\ refcnt' = Unreference(Reference(rc, new), pixBo[Root])
          /\ pixBo' = [pixBo EXCEPT ![Root] = new] /\ scanout' = new
        BY <1>1, <1>5 DEF up
    <2>6. ASSUME NEW b \in Bos
          PROVE  Surplus(b)' = Surplus(b)
        <3>1. rc[b] = up[b] - Is(scanout, b)
            BY <2>3, RefsCount DEF CountsType
        <3>2. PICK r \in Int, l \in Int, z \in Int, x \in Int, y \in Int, n \in Int :
                /\ r = refcnt[b] /\ l = Listed(scanouts, b) /\ z = Backing(pixBo, b)
                /\ x = Is(scanout, b) /\ y = Is(call.old, b) /\ n = Is(new, b)
            <4>1. /\ refcnt[b] \in Int /\ Listed(scanouts, b) \in Int /\ Backing(pixBo, b) \in Int
                  /\ Is(scanout, b) \in Int /\ Is(call.old, b) \in Int /\ Is(new, b) \in Int
                BY <1>0, SurplusType, IsType
            <4>. QED
                BY <4>1
        <3>3. rc[b] = r + n - x
            BY <2>3, <3>1, <3>2
        <3>. HIDE DEF rc
        <3>4. refcnt'[b] \in Int /\ refcnt'[b] - Backing(pixBo', b) = rc[b] - Backing(pixBo, b)
            BY <1>0, <2>4, <2>5, FrontKeepsRefs
        <3>5. PICK r2 \in Int, z2 \in Int : r2 = refcnt'[b] /\ z2 = Backing(pixBo', b)
            BY <3>4, BackingType
        <3>6. Surplus(b)' = r2 - l - z2 - n - y
            BY <1>2, <2>5, <3>2, <3>5, SurplusNext
        <3>7. Surplus(b) = r - l - z - x - y
            BY <3>2 DEF Surplus
        <3>8. r2 - z2 = (r + n - x) - z
            BY <3>2, <3>3, <3>4, <3>5
        <3>. QED
            BY <3>2, <3>5, <3>6, <3>7, <3>8
    <2>. QED
        BY <1>3, <2>6 DEF Kept
<1>. QED
    BY <1>4, <1>5

\* The window system, and with it what is collected, stays as it is.
LEMMA CollectedKept ==
    ASSUME RefsInv, UNCHANGED <<pixBo, cmd, win>>
    PROVE  Collected'
    BY CollectedSame DEF RefsInv

KeptOrLost ==
    /\ \A b \in Bos : /\ Surplus(b)' >= Surplus(b)
                      /\ "alloc" \notin Faults => Surplus(b)' = Surplus(b)
    /\ Collected'

LEMMA SetModeMajorReturnRefs ==
    ASSUME RefsInv, SetModeMajorReturn
    PROVE  KeptOrLost
<1>. DEFINE act   == Active(crtc)
            rects == CrtcRects(crtc)
            fails == "alloc" \in Faults
<1>0. TypeInv /\ refcnt \in CountsType
    BY DEF RefsInv, Inv, TypeInv
<1>1. PICK m \in (IF flip_mode = "DISABLED" THEN SetOneCrtc(call.crtc) ELSE SetBlitMode) :
         \/ scanouts' = m.tab /\ refcnt' = refcnt
         \/ \E u \in UpdateScanouts(m.tab, act, rects, FreeBos, refcnt, fails) :
                 scanouts' = u.tab /\ refcnt' = u.rc
    BY DEF SetModeMajorReturn, Commit
<1>2. UNCHANGED <<scanout, pixBo, win, cmd>> /\ call'.old = call.old
    BY IdleOld DEF SetModeMajorReturn, flipVars, RefsInv, OldInSwap
<1>3. \A s \in Slots : m.tab[s].bo = scanouts[s].bo /\ m.tab[s].rect = scanouts[s].rect
    BY <1>0, BosKept
<1>4. Collected'
    BY <1>2, CollectedKept
<1>5. CASE scanouts' = m.tab /\ refcnt' = refcnt
    <2>1. \A b \in Bos : Surplus(b)' = Surplus(b)
        BY <1>2, <1>3, <1>5, SurplusSame
    <2>2. \A b \in Bos : Surplus(b) \in Int
        BY <1>0, SurplusType
    <2>. QED
        BY <1>4, <2>1, <2>2 DEF KeptOrLost
<1>6. CASE \E u \in UpdateScanouts(m.tab, act, rects, FreeBos, refcnt, fails) :
                 scanouts' = u.tab /\ refcnt' = u.rc
    <2>1. PICK u \in UpdateScanouts(m.tab, act, rects, FreeBos, refcnt, fails) :
                 scanouts' = u.tab /\ refcnt' = u.rc
        BY <1>6
    <2>2. /\ act \in SUBSET Crtcs /\ FreeBos \in SUBSET Bos /\ fails \in BOOLEAN
          /\ NumCrtc <= MaxScanouts
        BY <1>0, ActiveType, FreeBosType, DisplayAssumption
    <2>3. Cardinality(Starved(scanouts, act, rects)) <= Cardinality(FreeBos)
        BY DEF SetModeMajorReturn
    <2>4. \A e \in FreeBos : refcnt[e] = 0 /\ \A s \in Slots : m.tab[s].bo # e
        BY <1>0, <1>3, FreeIsUnheld DEF RefsInv
    <2>. HIDE DEF act, rects, fails
    <2>5. Starved(m.tab, act, rects) = Starved(scanouts, act, rects)
        <3>1. ASSUME NEW c
              PROVE  {s \in Slots : m.tab[s].rect = rects[c]} = {s \in Slots : scanouts[s].rect = rects[c]}
            BY <1>3
        <3>. QED
            BY <3>1 DEF Starved, Taken
    <2>6. Cardinality(Starved(m.tab, act, rects)) <= Cardinality(FreeBos)
        BY <2>3, <2>5
    <2>7. refcnt \in [Bos -> Int]
        BY <1>0 DEF CountsType
    <2>8. ASSUME NEW b \in Bos
          PROVE  Surplus(b)' >= Surplus(b) /\ (~fails => Surplus(b)' = Surplus(b))
        <3>1. /\ u.rc[b] \in Int
              /\ u.rc[b] - Listed(u.tab, b) >= refcnt[b] - Listed(m.tab, b)
              /\ ~fails => u.rc[b] - Listed(u.tab, b) = refcnt[b] - Listed(m.tab, b)
            BY <2>2, <2>4, <2>7, <2>6, UpdateKeepsRefs
        <3>2. Listed(m.tab, b) = Listed(scanouts, b)
            BY <1>3, ListedSame
        <3>3. PICK r \in Int, l \in Int, z \in Int, x \in Int, y \in Int :
                /\ r = refcnt[b] /\ l = Listed(scanouts, b) /\ z = Backing(pixBo, b)
                /\ x = Is(scanout, b) /\ y = Is(call.old, b)
            BY <1>0, SurplusType
        <3>4. PICK r2 \in Int, l2 \in Int : r2 = refcnt'[b] /\ l2 = Listed(scanouts', b)
            BY <2>1, <3>1, ListedType
        <3>5. /\ r2 - l2 >= r - l
              /\ ~fails => r2 - l2 = r - l
            BY <2>1, <3>1, <3>2, <3>3, <3>4
        <3>6. Surplus(b)' = r2 - l2 - z - x - y
            BY <1>2, <3>3, <3>4, SurplusNext
        <3>7. Surplus(b) = r - l - z - x - y
            BY <3>3 DEF Surplus
        <3>. QED
            BY <3>3, <3>4, <3>5, <3>6, <3>7
    <2>. QED
        BY <1>4, <2>8 DEF fails, KeptOrLost
<1>. QED
    BY <1>1, <1>5, <1>6

\* The old root bo is dropped twice, by the driver and by the screen pixmap; the
\* new one starts with both references.
LEMMA ScreenInitRefs ==
    ASSUME RefsInv, ScreenInit
    PROVE  Kept
<1>. DEFINE act   == Active(crtc)
            rects == CrtcRects(crtc)
<1>0. TypeInv /\ refcnt \in CountsType /\ scanout \in Bos /\ pixBo \in PixType
    BY DEF RefsInv, Inv, TypeInv
<1>1. PICK new \in Nth(FreeBos, 1) :
         LET rc == RootReplaced(new)
             u  == UpdateDone(scanouts, act, rects, FreeBos \ {new}, rc)
         IN  /\ scanout' = new
             /\ pixBo' = [pixBo EXCEPT ![Root] = new]
             /\ scanouts' = u.tab
             /\ refcnt' = u.rc
    BY DEF ScreenInit, Commit
<1>. DEFINE up  == [refcnt EXCEPT ![new] = 2]
            mid == Unreference(up, scanout)
            rc  == Unreference(mid, pixBo[Root])
            u   == UpdateDone(scanouts, act, rects, FreeBos \ {new}, rc)
<1>2. /\ scanout' = new /\ pixBo' = [pixBo EXCEPT ![Root] = new]
      /\ scanouts' = u.tab /\ refcnt' = u.rc /\ rc = RootReplaced(new)
    BY <1>1 DEF RootReplaced
<1>3. new \in FreeBos /\ new \in Bos
    BY DEF Nth, FreeBos
<1>4. /\ cmd' = cmd /\ call'.old = NoBo /\ call.old = NoBo
      /\ \A v \in Windows : win'[v].back = win[v].back
    <2>1. win' = [w \in Windows |-> [win[w] EXCEPT !.alive = TRUE]]
        BY DEF ScreenInit
    <2>2. \A v \in Windows : win'[v].back = win[v].back
        BY <1>0, <2>1 DEF TypeInv, WinsType, WinType
    <2>. QED
        BY <2>2, IdleOld DEF ScreenInit, flipVars, RefsInv, OldInSwap
<1>5. /\ act \in SUBSET Crtcs /\ (FreeBos \ {new}) \in SUBSET Bos /\ NumCrtc <= MaxScanouts
    BY <1>0, ActiveType, FreeBosType, DisplayAssumption
<1>6. Cardinality(Starved(scanouts, act, rects)) <= Cardinality(FreeBos \ {new})
    <2>1. Cardinality(FreeBos \ {new}) = Cardinality(FreeBos) - 1
        BY <1>3, FreeBosType, FS_RemoveElement
    <2>2. Cardinality(Starved(scanouts, act, rects)) < Cardinality(FreeBos)
        BY DEF ScreenInit
    <2>3. Cardinality(Starved(scanouts, act, rects)) \in Nat
        <3>1. Starved(scanouts, act, rects) \in SUBSET Crtcs
            BY <1>5 DEF Starved
        <3>. QED
            BY <3>1, CrtcsFinite, FS_Subset, FS_CardinalityType
    <2>. QED
        BY <2>1, <2>2, <2>3, FreeBosType
<1>7. /\ refcnt[new] = 0 /\ new # scanout
      /\ \A e \in FreeBos : /\ refcnt[e] = 0 /\ e # scanout /\ e # pixBo[Root] /\ e \in Bos
                            /\ \A s \in Slots : scanouts[s].bo # e
    <2>1. \A e \in FreeBos : /\ refcnt[e] = 0 /\ e # scanout /\ e # pixBo[Root] /\ e \in Bos
                             /\ \A s \in Slots : scanouts[s].bo # e
        BY <1>0, FreeIsUnheld, PixIdsFinite DEF RefsInv
    <2>. QED
        BY <1>3, <2>1
<1>8. up \in CountsType /\ \A b \in Bos : up[b] = refcnt[b] + Is(new, b) + Is(new, b)
    BY <1>0, <1>3, <1>7 DEF CountsType, Is
<1>. HIDE DEF up
<1>9. mid \in CountsType
    BY <1>0, <1>8, RefsType DEF CountsType
<1>10. ASSUME NEW b \in Bos
       PROVE  rc[b] = up[b] - Is(scanout, b) - Is(pixBo[Root], b)
    <2>1. mid[b] = up[b] - Is(scanout, b)
        BY <1>8, RefsCount DEF CountsType
    <2>. HIDE DEF mid
    <2>2. rc[b] = mid[b] - Is(pixBo[Root], b)
        BY <1>9, RefsCount DEF CountsType
    <2>. QED
        BY <2>1, <2>2
<1>11. rc \in [Bos -> Int]
    <2>. HIDE DEF mid
    <2>. QED
        BY <1>9, RefsType DEF CountsType
<1>. HIDE DEF act, rects, mid, rc
<1>12. \A e \in FreeBos \ {new} : rc[e] = 0 /\ \A s \in Slots : scanouts[s].bo # e
    <2>1. ASSUME NEW e \in FreeBos \ {new}
          PROVE  rc[e] = 0
        <3>1. up[e] = 0 /\ Is(scanout, e) = 0 /\ Is(pixBo[Root], e) = 0
            BY <1>7, <1>8 DEF Is
        <3>. QED
            BY <1>7, <1>10, <3>1
    <2>. QED
        BY <1>7, <2>1
<1>13. ASSUME NEW b \in Bos
       PROVE  u.rc[b] \in Int /\ u.rc[b] - Listed(u.tab, b) = rc[b] - Listed(scanouts, b)
    BY <1>5, <1>6, <1>11, <1>12, DoneKeepsRefs
<1>. HIDE DEF u
<1>14. ASSUME NEW b \in Bos
       PROVE  Surplus(b)' = Surplus(b)
    <2>1. /\ refcnt[b] \in Int /\ Listed(scanouts, b) \in Int /\ Backing(pixBo, b) \in Int
          /\ Is(scanout, b) \in Int /\ Is(call.old, b) \in Int /\ Is(new, b) \in Int
          /\ Is(pixBo[Root], b) \in Int /\ Listed(scanouts', b) \in Int /\ refcnt'[b] \in Int
          /\ Backing(pixBo', b) \in Int /\ rc[b] \in Int /\ up[b] \in Int
        BY <1>0, <1>2, <1>8, <1>11, <1>13, SurplusType, IsType, BackingType, ListedType DEF CountsType
    <2>2. /\ refcnt'[b] - Listed(scanouts', b) = rc[b] - Listed(scanouts, b)
        BY <1>2, <1>13
    <2>3. rc[b] = refcnt[b] + Is(new, b) + Is(new, b) - Is(scanout, b) - Is(pixBo[Root], b)
        BY <1>8, <1>10, <2>1
    <2>4. Backing(pixBo', b) = Backing(pixBo, b) - Is(pixBo[Root], b) + Is(new, b)
        <3>1. Backing([pixBo EXCEPT ![Root] = new], b) = Backing(pixBo, b) - Is(pixBo[Root], b) + Is(new, b)
            BY <1>0, PixIdsFinite, BackingChange
        <3>. QED
            BY <1>2, <3>1
    <2>5. Surplus(b)' = refcnt'[b] - Listed(scanouts', b) - Backing(pixBo', b) - Is(new, b) - 0
        BY <1>2, <1>4, IdleOld, SurplusNext
    <2>6. Surplus(b) = refcnt[b] - Listed(scanouts, b) - Backing(pixBo, b) - Is(scanout, b) - 0
        BY <1>4, IdleOld DEF Surplus
    <2>. QED
        BY <2>1, <2>2, <2>3, <2>4, <2>5, <2>6
<1>15. Collected'
    BY <1>2, <1>4, FrontCollected
<1>. QED
    BY <1>14, <1>15 DEF Kept

LEMMA OldKept ==
    ASSUME OldInSwap, Next
    PROVE  OldInSwap'
<1>2. ASSUME call' = call
      PROVE  OldInSwap'
    BY <1>2 DEF OldInSwap
<1>3. ASSUME call'.old = NoBo
      PROVE  OldInSwap'
    BY <1>3 DEF OldInSwap
<1>4. ASSUME NEW w \in Windows, Client(w)
      PROVE  OldInSwap'
    BY <1>2, <1>4 DEF Client, GetBuffers, Restack, DestroyWindow, Move
<1>5. ASSUME NEW w \in Windows, Swap(w)
      PROVE  OldInSwap'
    <2>1. CASE SwapBlit(w)
        <3>1. call'.op = "swap"
            BY <2>1 DEF SwapBlit, Idle
        <3>. QED
            BY <3>1 DEF OldInSwap
    <2>2. CASE SwapFlip(w) \/ SwapFlipFallback(w)
        <3>1. call' = call
            BY <2>2 DEF SwapFlip, SwapFlipFallback
        <3>. QED
            BY <1>2, <3>1
    <2>. QED
        BY <1>5, <2>1, <2>2 DEF Swap
<1>6. CASE Access
    <2>1. call' = call \/ call'.old = NoBo
        BY <1>6 DEF Access, RootWrite, RootRead, RootWriteDirect, Idle
    <2>. QED
        BY <1>2, <1>3, <2>1
<1>7. CASE Config
    <2>1. ASSUME NEW c \in Crtcs, Unplug(c) \/ Disable(c) \/ \E r \in RectChoices : SetModeMajor(c, r)
          PROVE  call' = call \/ call'.old = NoBo
        BY <2>1 DEF Unplug, Disable, SetModeMajor, Idle
    <2>2. ASSUME (\E d \in Widths : Resize(d)) \/ CloseScreen
          PROVE  call' = call \/ call'.old = NoBo
        BY <2>2 DEF Resize, CloseScreen, Idle
    <2>3. call' = call \/ call'.old = NoBo
        BY <1>7, <2>1, <2>2 DEF Config
    <2>. QED
        BY <1>2, <1>3, <2>3
<1>8. CASE Return
    BY <1>3, <1>8, IdleOld DEF Return, SwapBlitReturn, SetModeMajorReturn, ScreenInit, RootWriteReturn
<1>9. CASE HandleEvent
    BY <1>2, <1>9 DEF HandleEvent
<1>10. ASSUME NEW c \in Crtcs, KernelFlip(c)
       PROVE  OldInSwap'
    BY <1>2, <1>10 DEF KernelFlip
<1>. QED
    BY <1>4, <1>5, <1>6, <1>7, <1>8, <1>9, <1>10 DEF Next

\* Only a mode set whose allocation fails loses references, never one too many.
LEMMA StepRefs ==
    ASSUME RefsInv, BlitWorks, Next
    PROVE  KeptOrLost
<1>1. ASSUME Kept
      PROVE  KeptOrLost
    <2>1. \A b \in Bos : Surplus(b) \in Int
        BY SurplusType DEF RefsInv, Inv
    <2>. QED
        BY <1>1, <2>1 DEF Kept, KeptOrLost
<1>2. ASSUME NEW w \in Windows, Client(w)
      PROVE  Kept
    BY <1>2, GetBuffersRefs, DestroyRefs, QuietActions DEF Client, Kept, QuietAction
<1>3. ASSUME NEW w \in Windows, Swap(w)
      PROVE  Kept
    BY <1>3, SwapFlipRefs, SwapFlipFallbackRefs, SwapBlitRefs DEF Swap
<1>4. ASSUME Access
      PROVE  Kept
    BY <1>4, QuietActions DEF QuietAction
<1>5. ASSUME Config
      PROVE  Kept
    BY <1>5, QuietActions, ResizeRefs, DestroyRefs DEF Config, QuietAction
<1>6. ASSUME HandleEvent
      PROVE  Kept
    BY <1>6, HandleEventRefs
<1>7. ASSUME NEW c \in Crtcs, KernelFlip(c)
      PROVE  Kept
    BY <1>7, QuietActions DEF QuietAction
<1>8. ASSUME Return
      PROVE  KeptOrLost
    <2>1. CASE SetModeMajorReturn
        BY <2>1, SetModeMajorReturnRefs
    <2>2. CASE SwapBlitReturn \/ ScreenInit \/ \E x \in RootCols : RootWriteReturn(x)
        BY <1>1, <2>2, SwapBlitReturnRefs, ScreenInitRefs, RootWriteReturnRefs
    <2>. QED
        BY <1>8, <2>1, <2>2 DEF Return
<1>. QED
    BY <1>1, <1>2, <1>3, <1>4, <1>5, <1>6, <1>7, <1>8 DEF Next

LEMMA StutterRefs ==
    ASSUME RefsInv, UNCHANGED vars
    PROVE  Kept /\ OldInSwap'
<1>1. UNCHANGED <<refcnt, scanout, scanouts, pixBo, cmd, win, call>>
    BY DEF vars, omapVars, boVars, flipVars
<1>2. OldInSwap'
    BY <1>1 DEF RefsInv, OldInSwap
<1>. QED
    BY <1>1, <1>2, QuietRefs

\* The invariant with no reference too many.
ExactInv == RefsInv /\ \A b \in Bos : Surplus(b) = 0

LEMMA RefsStep ==
    ASSUME BlitWorks
    PROVE  /\ RefsInv /\ [Next]_vars => RefsInv'
           /\ "alloc" \notin Faults => (ExactInv /\ [Next]_vars => ExactInv')
<1>1. ASSUME RefsInv, [Next]_vars
      PROVE  /\ RefsInv'
             /\ \A b \in Bos : "alloc" \notin Faults => Surplus(b)' = Surplus(b)
    <2>1. Inv' /\ TypeInv /\ TypeInv'
        BY <1>1, StepInv DEF RefsInv, Inv
    <2>2. /\ \A b \in Bos : Surplus(b)' >= Surplus(b) /\ ("alloc" \notin Faults => Surplus(b)' = Surplus(b))
          /\ Collected' /\ OldInSwap'
        <3>1. CASE Next
            BY <1>1, <3>1, StepRefs, OldKept DEF RefsInv, KeptOrLost
        <3>2. CASE UNCHANGED vars
            <4>1. Kept /\ OldInSwap'
                BY <1>1, <3>2, StutterRefs
            <4>2. \A b \in Bos : Surplus(b) \in Int
                BY <2>1, SurplusType
            <4>. QED
                BY <4>1, <4>2 DEF Kept
        <3>. QED
            BY <1>1, <3>1, <3>2
    <2>3. Referenced'
        <3>1. ASSUME NEW b \in Bos
              PROVE  Surplus(b)' >= 0
            <4>1. Surplus(b) \in Int /\ Surplus(b) >= 0 /\ Surplus(b)' >= Surplus(b)
                BY <1>1, <2>1, <2>2, SurplusType DEF RefsInv, Referenced
            <4>2. Surplus(b)' \in Int
                BY <2>1, SurplusNextType
            <4>. QED
                BY <4>1, <4>2
        <3>. QED
            BY <3>1 DEF Referenced
    <2>. QED
        BY <2>1, <2>2, <2>3 DEF RefsInv
<1>2. ASSUME ExactInv, [Next]_vars, "alloc" \notin Faults
      PROVE  ExactInv'
    <2>1. RefsInv /\ \A b \in Bos : Surplus(b) = 0
        BY <1>2 DEF ExactInv
    <2>2. RefsInv' /\ \A b \in Bos : Surplus(b)' = 0
        BY <1>1, <1>2, <2>1
    <2>. QED
        BY <2>2 DEF ExactInv
<1>. QED
    BY <1>1, <1>2

\* bo 1 starts with the two references of the driver and the screen pixmap, each
\* bo of a slot with that of the slot.
LEMMA InitRefs == Init => ExactInv
<1>. SUFFICES ASSUME Init
              PROVE  ExactInv
    OBVIOUS
<1>. DEFINE tab == [s \in Slots |-> EmptySlot]
            rc  == [b \in Bos |-> IF b = 1 THEN 2 ELSE 0]
            u   == UpdateDone(tab, Crtcs, InitRect, Bos \ {1}, rc)
<1>1. Inv /\ TypeInv
    BY InitInv DEF Inv
<1>2. rc \in [Bos -> Int] /\ \A e \in Bos \ {1} : rc[e] = 0 /\ \A s \in Slots : tab[s].bo # e
    BY DEF EmptySlot, NoBo, Bos
<1>3. (Bos \ {1}) \in SUBSET Bos /\ Crtcs \in SUBSET Crtcs /\ NumCrtc <= MaxScanouts
    BY DisplayAssumption
<1>4. Cardinality(Starved(tab, Crtcs, InitRect)) <= Cardinality(Bos \ {1})
    BY InitStarved
<1>5. \A b \in Bos : (\A s \in Slots : tab[s].bo # b) /\ rc[b] = Is(1, b) + Is(1, b)
    BY DEF EmptySlot, NoBo, Bos, Is
<1>6. scanouts = u.tab /\ refcnt = u.rc
    BY DEF Init, InitUpdate
<1>. HIDE DEF tab, rc
<1>7. ASSUME NEW b \in Bos
      PROVE  /\ refcnt[b] \in Int /\ Listed(tab, b) = 0
             /\ refcnt[b] - Listed(scanouts, b) = rc[b] - Listed(tab, b)
    <2>1. u.rc[b] \in Int /\ u.rc[b] - Listed(u.tab, b) = rc[b] - Listed(tab, b)
        BY <1>2, <1>3, <1>4, DoneKeepsRefs
    <2>. QED
        BY <1>5, <1>6, <2>1, ListedType
<1>8. ASSUME NEW b \in Bos
      PROVE  Backing(pixBo, b) = Is(1, b)
    <2>. DEFINE none == [p \in PixIds |-> NoBo]
    <2>1. none \in PixType /\ none[Root] = NoBo
        BY PixIdsFinite DEF PixType, PixIds, BoOrNone
    <2>2. pixBo = [none EXCEPT ![Root] = 1]
        BY PixIdsFinite DEF Init, PixIds
    <2>3. \A p \in PixIds : none[p] # b
        BY DEF NoBo, Bos
    <2>4. Is(NoBo, b) = 0
        BY IdleOld
    <2>. HIDE DEF none
    <2>5. Backing([none EXCEPT ![Root] = 1], b) = Backing(none, b) - Is(none[Root], b) + Is(1, b)
        BY <2>1, PixIdsFinite, BackingChange
    <2>6. Backing(none, b) = 0 /\ Is(1, b) \in Int
        BY <2>3, BackingType, IsType
    <2>. QED
        BY <2>1, <2>2, <2>4, <2>5, <2>6
<1>9. ASSUME NEW b \in Bos
      PROVE  Surplus(b) = 0
    <2>1. scanout = 1 /\ call.old = NoBo /\ Is(NoBo, b) = 0
        BY IdleOld DEF Init
    <2>2. Listed(scanouts, b) \in Int /\ Is(1, b) \in Int
        BY ListedType, IsType
    <2>3. Surplus(b) = refcnt[b] - Listed(scanouts, b) - Is(1, b) - Is(1, b) - 0
        BY <1>8, <2>1 DEF Surplus
    <2>. QED
        BY <1>5, <1>7, <2>2, <2>3
<1>10. Collected /\ OldInSwap
    <2>1. \A p \in Pixmaps : pixBo[p] = NoBo
        BY PixIdsFinite DEF Init
    <2>. QED
        BY <2>1, IdleOld DEF Init, Collected, OldInSwap
<1>. QED
    BY <1>1, <1>9, <1>10 DEF ExactInv, RefsInv, Referenced

\* What the driver holds is never freed, if the copies and mode sets that lead
\* back to blit mode succeed.
THEOREM BosStayReferenced ==
    ASSUME BlitWorks
    PROVE  Spec => []NoDanglingBo
<1>1. RefsInv => NoDanglingBo
    <2>. SUFFICES ASSUME RefsInv, NEW b \in Bos, Holders(b) > 0
                  PROVE  refcnt[b] > 0
        BY DEF NoDanglingBo
    <2>1. TypeInv /\ Surplus(b) >= 0
        BY DEF RefsInv, Inv, Referenced
    <2>2. /\ refcnt[b] \in Int /\ Listed(scanouts, b) \in Nat /\ Backing(pixBo, b) \in Nat
          /\ Is(scanout, b) \in Nat /\ Is(call.old, b) \in Nat
          /\ Holders(b) = Listed(scanouts, b) + Backing(pixBo, b) + Is(scanout, b)
        BY <2>1, SurplusType
    <2>. QED
        BY <2>1, <2>2 DEF Surplus
<1>2. Init => RefsInv
    BY InitRefs DEF ExactInv
<1>3. RefsInv /\ [Next]_vars => RefsInv'
    BY RefsStep
<1>. QED
    BY <1>1, <1>2, <1>3, PTL DEF Spec

\* Between calls the counts are exactly the holders, if besides every slot gets
\* its bo: nothing leaks.
THEOREM RefsAreHolders ==
    ASSUME BlitWorks, "alloc" \notin Faults
    PROVE  Spec => []RefsCountHolders
<1>1. ExactInv => RefsCountHolders
    <2>. SUFFICES ASSUME ExactInv, call = Idle, NEW b \in Bos
                  PROVE  refcnt[b] = Holders(b)
        BY DEF RefsCountHolders
    <2>1. TypeInv /\ Surplus(b) = 0 /\ Is(call.old, b) = 0
        BY IdleOld DEF ExactInv, RefsInv, Inv
    <2>2. /\ refcnt[b] \in Int /\ Listed(scanouts, b) \in Nat /\ Backing(pixBo, b) \in Nat
          /\ Is(scanout, b) \in Nat
          /\ Holders(b) = Listed(scanouts, b) + Backing(pixBo, b) + Is(scanout, b)
        BY <2>1, SurplusType
    <2>. QED
        BY <2>1, <2>2 DEF Surplus
<1>2. ExactInv /\ [Next]_vars => ExactInv'
    BY RefsStep
<1>. QED
    BY <1>1, <1>2, InitRefs, PTL DEF Spec

-----------------------------------------------------------------------------
(* What the driver holds exists.                                           *)

\* The screen pixmap, and every pixmap that somebody has, is backed by a bo.
Backed == /\ pixBo[Root] # NoBo
          /\ \A p \in Pixmaps : p \in HeldPixmaps(win, cmd) => pixBo[p] # NoBo

\* A slot without a bo is empty, so that no CRTC finds it.
SlotsFilled == \A s \in Slots : scanouts[s].bo = NoBo => scanouts[s].rect = NoRect

\* A bo that exists has columns.
Sized == \A b \in Bos : refcnt[b] > 0 => bowidth[b] > 0

Shape == Inv /\ Backed /\ SlotsFilled /\ Sized

\* What has a holder has a reference: Defined, the guard of Next.
LEMMA HeldIsReferenced ==
    ASSUME TypeInv, Defined, NEW b \in Bos,
           scanout = b \/ (\E s \in Slots : scanouts[s].bo = b) \/ \E p \in PixIds : pixBo[p] = b
    PROVE  refcnt[b] > 0
<1>1. /\ Listed(scanouts, b) \in Nat /\ Backing(pixBo, b) \in Nat /\ Is(scanout, b) \in Nat
      /\ Holders(b) = Listed(scanouts, b) + Backing(pixBo, b) + Is(scanout, b)
    BY SurplusType
<1>2. Listed(scanouts, b) # 0 \/ Backing(pixBo, b) # 0 \/ Is(scanout, b) # 0
    BY ListedType, BackingType DEF Is
<1>. QED
    BY <1>1, <1>2 DEF Defined

LEMMA CommitSized ==
    ASSUME NEW rc \in CountsType, NEW width, NEW fb, NEW img, Commit(rc, width, fb, img),
           \A b \in Bos : rc[b] > 0 => width[b] > 0
    PROVE  Sized'
<1>1. refcnt' = rc /\ bowidth' = [b \in Bos |-> IF rc[b] <= 0 THEN 0 ELSE width[b]]
    BY DEF Commit
<1>2. \A b \in Bos : rc[b] \in Int
    BY DEF CountsType
<1>. QED
    BY <1>1, <1>2 DEF Sized

\* A bo changes places: only what gets a reference can come to have some.
LEMMA RefUp ==
    ASSUME NEW rc \in CountsType, NEW x, NEW y, NEW b \in Bos
    PROVE  /\ Reference(rc, x)[b] > 0 => rc[b] > 0 \/ b = x
           /\ Unreference(rc, y)[b] > 0 => rc[b] > 0
           /\ Unreference(Reference(rc, x), y)[b] > 0 => rc[b] > 0 \/ b = x
<1>1. PICK up \in [Bos -> Int] : up = Reference(rc, x)
    BY RefsType DEF CountsType
<1>2. /\ up[b] = rc[b] + Is(x, b) /\ Unreference(up, y)[b] = up[b] - Is(y, b)
      /\ Unreference(rc, y)[b] = rc[b] - Is(y, b)
    BY <1>1, RefsCount DEF CountsType
<1>3. Is(y, b) \in {0, 1} /\ rc[b] \in Int /\ up[b] \in Int /\ (b # x => Is(x, b) = 0)
    BY <1>1, IsType DEF CountsType, Is
<1>. QED
    BY <1>1, <1>2, <1>3

LEMMA DropDown ==
    ASSUME NEW w, NEW c, NEW pix, NEW rc \in CountsType, NEW b \in Bos,
           DropRefs(rc, w, c, pix)[b] > 0
    PROVE  rc[b] > 0
<1>. DEFINE G == {p \in Freed(w, c, pix) : pix[p] = b}
<1>1. IsFiniteSet(G)
    BY PixmapsFinite, FS_Subset DEF Freed
<1>2. DropRefs(rc, w, c, pix)[b] = rc[b] - Cardinality(G) /\ rc[b] \in Int
    BY DEF DropRefs, CountsType
<1>. HIDE DEF G
<1>. QED
    BY <1>1, <1>2, FS_CardinalityType

LEMMA DropKeepsHeld ==
    ASSUME NEW w, NEW c, NEW pix \in PixType
    PROVE  /\ DropPixmaps(w, c, pix)[Root] = pix[Root]
           /\ \A p \in Pixmaps : p \in HeldPixmaps(w, c) => DropPixmaps(w, c, pix)[p] = pix[p]
<1>1. DOMAIN pix = Pixmaps \cup {Root} /\ Root \notin Pixmaps
    BY PixIdsFinite DEF PixType
<1>. QED
    BY <1>1 DEF DropPixmaps, Freed

ShapeNext == Backed' /\ SlotsFilled' /\ Sized'

LEMMA SameSlotsFilled ==
    ASSUME SlotsFilled,
           \A s \in Slots : scanouts'[s].bo = scanouts[s].bo /\ scanouts'[s].rect = scanouts[s].rect
    PROVE  SlotsFilled'
    BY DEF SlotsFilled

\* No pixmap comes to be referred to, and none loses its bo.
LEMMA BackedKept ==
    ASSUME Backed, pixBo'[Root] # NoBo,
           \A p \in Pixmaps : p \in HeldPixmaps(win', cmd') =>
               p \in HeldPixmaps(win, cmd) /\ pixBo'[p] = pixBo[p]
    PROVE  Backed'
    BY DEF Backed

LEMMA QuietShape ==
    ASSUME Shape, UNCHANGED <<scanouts, refcnt, bowidth, pixBo, cmd>>,
           \A v \in Windows : win'[v].back = win[v].back
    PROVE  ShapeNext
<1>1. HeldPixmaps(win', cmd') = HeldPixmaps(win, cmd)
    BY HeldSame
<1>2. Backed'
    BY <1>1 DEF Shape, Backed
<1>3. SlotsFilled' /\ Sized'
    BY DEF Shape, SlotsFilled, Sized
<1>. QED
    BY <1>2, <1>3 DEF ShapeNext

LEMMA GetBuffersShape ==
    ASSUME Shape, NEW w \in Windows, GetBuffers(w)
    PROVE  ShapeNext
<1>0. TypeInv /\ refcnt \in CountsType /\ pixBo \in PixType
    BY DEF Shape, Inv, TypeInv
<1>1. PICK p \in Nth(Pixmaps \ HeldPixmaps(win, cmd), 1), e \in Nth(FreeBos, 1) :
         LET v   == [win EXCEPT ![w] = [@ EXCEPT !.back = p, !.canflip = -1, !.stale = FALSE]]
             pix == [pixBo EXCEPT ![p] = e]
         IN  /\ win' = v
             /\ pixBo' = DropPixmaps(v, cmd, pix)
             /\ Commit(DropRefs([refcnt EXCEPT ![e] = 1], v, cmd, pix),
                       [bowidth EXCEPT ![e] = win[w].rect.w], crtcFb, current)
    BY DEF GetBuffers
<1>. DEFINE pix == [pixBo EXCEPT ![p] = e]
            rc  == [refcnt EXCEPT ![e] = 1]
            wid == [bowidth EXCEPT ![e] = win[w].rect.w]
<1>2. p \in Pixmaps /\ e \in Bos /\ cmd' = cmd /\ scanouts' = scanouts
    BY <1>1 DEF Nth, FreeBos, GetBuffers, flipVars, omapVars
<1>3. /\ pixBo' = DropPixmaps(win', cmd', pix)
      /\ Commit(DropRefs(rc, win', cmd, pix), wid, crtcFb, current)
    BY <1>1, <1>2
<1>4. pix \in PixType /\ pix[p] = e /\ \A q \in PixIds \ {p} : pix[q] = pixBo[q]
    BY <1>0, <1>2 DEF PixType, BoOrNone, PixIds
<1>5. rc \in CountsType /\ \A b \in Bos \ {e} : rc[b] = refcnt[b] /\ wid[b] = bowidth[b]
    BY <1>0, <1>2 DEF CountsType, TypeInv, WidthType
<1>6. wid[e] > 0
    <2>1. win[w].rect \in RectChoices
        BY <1>0 DEF TypeInv, WinsType, WinType
    <2>. QED
        BY <1>0, <1>2, <2>1, DisplayAssumption DEF TypeInv, WidthType
<1>. HIDE DEF pix, rc, wid
<1>7. Backed'
    <2>1. pixBo'[Root] # NoBo
        BY <1>2, <1>3, <1>4, DropKeepsHeld, PixIdsFinite DEF Shape, Backed
    <2>2. ASSUME NEW q \in Pixmaps, q \in HeldPixmaps(win', cmd')
          PROVE  pixBo'[q] # NoBo
        <3>1. pixBo'[q] = pix[q]
            BY <1>3, <1>4, <2>2, DropKeepsHeld
        <3>2. CASE q = p
            BY <1>2, <1>4, <3>1, <3>2 DEF NoBo, Bos
        <3>3. CASE q # p
            <4>1. \A v \in Windows : win'[v].back \in {p, win[v].back}
                BY <1>0, <1>1 DEF TypeInv, WinsType, WinType
            <4>2. q \in HeldPixmaps(win, cmd)
                BY <1>2, <2>2, <3>3, <4>1 DEF HeldPixmaps
            <4>. QED
                BY <1>4, <3>1, <3>3, <4>2, PixIdsFinite DEF Shape, Backed
        <3>. QED
            BY <3>2, <3>3
    <2>. QED
        BY <2>1, <2>2 DEF Backed
<1>8. Sized'
    <2>1. DropRefs(rc, win', cmd, pix) \in CountsType
        BY <1>4, <1>5, DropType
    <2>2. ASSUME NEW b \in Bos, DropRefs(rc, win', cmd, pix)[b] > 0
          PROVE  wid[b] > 0
        <3>1. rc[b] > 0
            BY <1>5, <2>2, DropDown
        <3>. QED
            BY <1>5, <1>6, <3>1 DEF Shape, Sized
    <2>. QED
        BY <1>3, <2>1, <2>2, CommitSized
<1>. QED
    BY <1>2, <1>7, <1>8, SameSlotsFilled DEF Shape, ShapeNext

\* Windows, and with them their buffers, go.
LEMMA DropShape ==
    ASSUME Shape, NEW v, win' = v, cmd' = cmd, pixBo' = DropPixmaps(v, cmd, pixBo),
           Commit(DropRefs(refcnt, v, cmd, pixBo), bowidth, crtcFb, current), scanouts' = scanouts,
           \A w \in Windows : v[w].back \in {win[w].back, NoPix}
    PROVE  ShapeNext
<1>0. refcnt \in CountsType /\ pixBo \in PixType
    BY DEF Shape, Inv, TypeInv
<1>1. Backed'
    <2>1. \A p \in Pixmaps : p \in HeldPixmaps(win', cmd') => p \in HeldPixmaps(win, cmd)
        BY DEF HeldPixmaps, NoPix, Pixmaps
    <2>. QED
        BY <1>0, <2>1, DropKeepsHeld, BackedKept DEF Shape, Backed
<1>2. Sized'
    <2>1. DropRefs(refcnt, v, cmd, pixBo) \in CountsType
        BY <1>0, DropType
    <2>2. \A b \in Bos : DropRefs(refcnt, v, cmd, pixBo)[b] > 0 => bowidth[b] > 0
        BY <1>0, DropDown DEF Shape, Sized
    <2>. QED
        BY <2>1, <2>2, CommitSized
<1>. QED
    BY <1>1, <1>2, SameSlotsFilled DEF Shape, ShapeNext

LEMMA DestroyShape ==
    ASSUME Shape, (\E w \in Windows : DestroyWindow(w)) \/ CloseScreen
    PROVE  ShapeNext
<1>1. \A w \in Windows : DeadWindow(w).back = NoPix
    BY DEF DeadWindow, Shape, Inv, TypeInv, WinsType, WinType
<1>2. ASSUME NEW w \in Windows, DestroyWindow(w)
      PROVE  ShapeNext
    <2>. DEFINE v == [win EXCEPT ![w] = DeadWindow(w)]
    <2>1. /\ win' = v /\ pixBo' = DropPixmaps(v, cmd, pixBo)
          /\ Commit(DropRefs(refcnt, v, cmd, pixBo), bowidth, crtcFb, current)
          /\ UNCHANGED <<scanouts, cmd>>
        BY <1>2 DEF DestroyWindow, omapVars, flipVars
    <2>2. \A u \in Windows : v[u].back \in {win[u].back, NoPix}
        BY <1>1 DEF Shape, Inv, TypeInv, WinsType
    <2>. HIDE DEF v
    <2>. QED
        BY <2>1, <2>2, DropShape
<1>3. CASE CloseScreen
    <2>. DEFINE v == [w \in Windows |-> DeadWindow(w)]
    <2>1. /\ win' = v /\ pixBo' = DropPixmaps(v, cmd, pixBo)
          /\ Commit(DropRefs(refcnt, v, cmd, pixBo), bowidth, crtcFb, current)
          /\ UNCHANGED <<scanouts, cmd>>
        BY <1>3 DEF CloseScreen, omapVars, flipVars
    <2>2. \A u \in Windows : v[u].back \in {win[u].back, NoPix}
        BY <1>1
    <2>. HIDE DEF v
    <2>. QED
        BY <2>1, <2>2, DropShape
<1>. QED
    BY <1>2, <1>3

\* The window w has buffers, and a bo for a slot is found.
LEMMA FoundSlot ==
    ASSUME TypeInv, SlotsFilled, NEW r \in Rects, r.w > 0, ScanoutFromSize(scanouts, r) # 0
    PROVE  LET s == ScanoutFromSize(scanouts, r)
           IN  s \in Slots /\ scanouts[s].rect = r /\ scanouts[s].bo \in Bos
<1>1. /\ ScanoutFromSize(scanouts, r) \in Slots
      /\ scanouts[ScanoutFromSize(scanouts, r)].rect = r
    BY LookupFirst
<1>2. r # NoRect
    BY DEF NoRect
<1>. QED
    BY <1>1, <1>2 DEF SlotsFilled, TypeInv, TableType, SlotType

\* The window w refers to its back buffer already when a swap does.
LEMMA QueuedHeld ==
    ASSUME TypeInv, NEW w \in Windows, NEW p, FlipQueued(w, p) \/ FlipNotQueued(w)
    PROVE  \A q \in Pixmaps : q \in HeldPixmaps(win', cmd') => q \in HeldPixmaps(win, cmd)
<1>1. CASE FlipNotQueued(w)
    <2>1. win' = Remember(w, TRUE, 0) /\ cmd' = cmd
        BY <1>1 DEF FlipNotQueued, flipVars
    <2>2. \A v \in Windows : win'[v].back = win[v].back
        BY <2>1, BackKept
    <2>. QED
        BY <2>1, <2>2, HeldSame
<1>2. CASE FlipQueued(w, p)
    <2>1. PICK k, n :
             /\ k \in Nth(CmdIds \ Live, 1)
             /\ cmd' = [cmd EXCEPT ![k] = NewCmd(w, p)] /\ win' = Remember(w, TRUE, n)
        BY <1>2 DEF FlipQueued
    <2>2. \A v \in Windows : win'[v].back = win[v].back
        BY <2>1, BackKept
    <2>3. \A j \in CmdIds : cmd'[j].src \in {cmd[j].src, win[w].back}
        <3>1. NewCmd(w, p).src = win[w].back
            BY DEF NewCmd
        <3>. QED
            BY <2>1, <3>1 DEF TypeInv, CmdsType
    <2>. QED
        BY <2>2, <2>3 DEF HeldPixmaps
<1>. QED
    BY <1>1, <1>2

LEMMA SwapFlipShape ==
    ASSUME Shape, Defined, NEW w \in Windows, SwapFlip(w)
    PROVE  ShapeNext
<1>. DEFINE e  == scanouts[ScanoutFromSize(scanouts, win[w].rect)].bo
            rc == Unreference(Reference(refcnt, e), pixBo[Root])
<1>0. TypeInv /\ refcnt \in CountsType
    BY DEF Shape, Inv, TypeInv
<1>1. PICK m, p, fb, img :
         /\ m \in SetFlipMode
         /\ Commit(rc, bowidth, fb, img)
         /\ scanouts' = IF p.ret /\ p.flipped = {} THEN ValidateBo(m.tab, e) ELSE m.tab
         /\ FlipQueued(w, p) \/ FlipNotQueued(w)
    BY DEF SwapFlip
<1>2. pixBo' = [pixBo EXCEPT ![Root] = e]
    BY DEF SwapFlip
<1>3. e \in Bos /\ refcnt[e] > 0
    <2>1. win[w].rect \in Rects /\ win[w].rect.w > 0
        <3>1. win[w].rect \in RectChoices
            BY <1>0 DEF TypeInv, WinsType, WinType
        <3>. QED
            BY <3>1, DisplayAssumption
    <2>2. ScanoutFromSize(scanouts, win[w].rect) # 0
        BY DEF SwapFlip, CanFlip
    <2>3. ScanoutFromSize(scanouts, win[w].rect) \in Slots /\ e \in Bos
        BY <1>0, <2>1, <2>2, FoundSlot DEF Shape
    <2>. QED
        BY <1>0, <2>3, HeldIsReferenced
<1>. HIDE DEF e
<1>4. rc \in CountsType
    BY <1>0, RefsType DEF CountsType
<1>5. Sized'
    <2>1. \A b \in Bos : rc[b] > 0 => bowidth[b] > 0
        BY <1>0, <1>3, RefUp DEF Shape, Sized
    <2>. QED
        BY <1>1, <1>4, <2>1, CommitSized
<1>6. SlotsFilled'
    <2>1. m.tab \in TableType
        BY <1>1, <1>0, SetFlipModeType DEF OutcomeOK
    <2>2. \A s \in Slots : m.tab[s].bo = scanouts[s].bo /\ m.tab[s].rect = scanouts[s].rect
        BY <1>1, <1>0, BosKept
    <2>3. \A s \in Slots : scanouts'[s].bo = scanouts[s].bo /\ scanouts'[s].rect = scanouts[s].rect
        BY <1>1, <2>1, <2>2, ValidateKeepsBos
    <2>. QED
        BY <2>3, SameSlotsFilled DEF Shape
<1>7. Backed'
    <2>1. pixBo'[Root] # NoBo /\ \A q \in Pixmaps : pixBo'[q] = pixBo[q]
        BY <1>0, <1>2, <1>3, PixIdsFinite DEF TypeInv, PixType, NoBo, Bos
    <2>2. \A q \in Pixmaps : q \in HeldPixmaps(win', cmd') => q \in HeldPixmaps(win, cmd)
        BY <1>0, <1>1, QueuedHeld
    <2>. QED
        BY <2>1, <2>2, BackedKept DEF Shape
<1>. QED
    BY <1>5, <1>6, <1>7 DEF ShapeNext

\* After a blit the screen pixmap has the root bo.
LEMMA BlitShape ==
    ASSUME Shape, Defined, NEW w, NEW rc \in CountsType, NEW m, BlitToFront(w, rc, m),
           m \in SetBlitMode \cup SetFlipMode, \A b \in Bos : rc[b] > 0 => refcnt[b] > 0,
           cmd' = cmd, \A v \in Windows : win'[v].back = win[v].back
    PROVE  ShapeNext
<1>0. TypeInv /\ scanout \in Bos /\ pixBo \in PixType
    BY DEF Shape, Inv, TypeInv
<1>. DEFINE cnt == IF pixBo[Root] = scanout THEN rc
                   ELSE Unreference(Reference(rc, scanout), pixBo[Root])
<1>1. PICK img : /\ pixBo' = [pixBo EXCEPT ![Root] = scanout]
                 /\ Commit(cnt, bowidth, m.fb, img)
                 /\ scanouts' = [s \in Slots |-> [m.tab[s] EXCEPT !.valid = FALSE]]
    BY DEF BlitToFront
<1>2. cnt \in CountsType
    BY RefsType DEF CountsType
<1>3. Sized'
    <2>1. refcnt[scanout] > 0
        BY <1>0, HeldIsReferenced
    <2>2. \A b \in Bos : cnt[b] > 0 => refcnt[b] > 0
        BY <2>1, RefUp
    <2>. HIDE DEF cnt
    <2>3. \A b \in Bos : cnt[b] > 0 => bowidth[b] > 0
        BY <2>2 DEF Shape, Sized
    <2>. QED
        BY <1>1, <1>2, <2>3, CommitSized
<1>4. SlotsFilled'
    <2>1. m.tab \in TableType /\ \A s \in Slots : /\ m.tab[s].bo = scanouts[s].bo
                                                  /\ m.tab[s].rect = scanouts[s].rect
        BY <1>0, BosKept, SetBlitModeType, SetFlipModeType DEF OutcomeOK
    <2>2. \A s \in Slots : scanouts'[s].bo = scanouts[s].bo /\ scanouts'[s].rect = scanouts[s].rect
        BY <1>1, <2>1 DEF TableType, SlotType
    <2>. QED
        BY <2>2, SameSlotsFilled DEF Shape
<1>5. Backed'
    <2>1. pixBo'[Root] # NoBo /\ \A q \in Pixmaps : pixBo'[q] = pixBo[q]
        BY <1>0, <1>1, PixIdsFinite DEF PixType, NoBo, Bos
    <2>2. HeldPixmaps(win', cmd') = HeldPixmaps(win, cmd)
        BY HeldSame
    <2>. QED
        BY <2>1, <2>2, BackedKept DEF Shape
<1>. QED
    BY <1>3, <1>4, <1>5 DEF ShapeNext

LEMMA SwapsShape ==
    ASSUME Shape, Defined, NEW w \in Windows, SwapFlipFallback(w) \/ SwapBlit(w)
    PROVE  ShapeNext
<1>0. TypeInv /\ refcnt \in CountsType /\ pixBo \in PixType /\ scanout \in Bos
    BY DEF Shape, Inv, TypeInv
<1>1. CASE SwapFlipFallback(w)
    <2>1. PICK m \in SetFlipMode : BlitToFront(w, refcnt, m)
        BY <1>1 DEF SwapFlipFallback
    <2>2. cmd' = cmd /\ win' = Remember(w, FALSE, 0)
        BY <1>1 DEF SwapFlipFallback, flipVars
    <2>3. \A v \in Windows : win'[v].back = win[v].back
        BY <1>0, <2>2, BackKept
    <2>. QED
        BY <1>0, <2>1, <2>2, <2>3, BlitShape
<1>2. CASE SwapBlit(w)
    <2>1. /\ pixBo' = [pixBo EXCEPT ![Root] = scanout] /\ refcnt' = Reference(refcnt, scanout)
          /\ UNCHANGED <<scanouts, cmd, win, bowidth>>
        BY <1>2 DEF SwapBlit, omapVars, flipVars
    <2>2. Sized'
        <3>1. refcnt[scanout] > 0
            BY <1>0, HeldIsReferenced
        <3>. QED
            BY <1>0, <2>1, <3>1, RefUp DEF Shape, Sized
    <2>3. Backed'
        <3>1. pixBo'[Root] # NoBo /\ \A q \in Pixmaps : pixBo'[q] = pixBo[q]
            BY <1>0, <2>1, PixIdsFinite DEF PixType, NoBo, Bos
        <3>2. HeldPixmaps(win', cmd') = HeldPixmaps(win, cmd)
            BY <2>1
        <3>. QED
            BY <3>1, <3>2, BackedKept DEF Shape
    <2>. QED
        BY <2>1, <2>2, <2>3, SameSlotsFilled DEF Shape, ShapeNext
<1>. QED
    BY <1>1, <1>2

LEMMA SwapBlitReturnShape ==
    ASSUME Shape, Defined, SwapBlitReturn
    PROVE  ShapeNext
<1>0. TypeInv /\ refcnt \in CountsType /\ pixBo \in PixType /\ scanout \in Bos
    BY DEF Shape, Inv, TypeInv
<1>1. cmd' = cmd
    BY DEF SwapBlitReturn, flipVars
<1>2. PICK m \in SetBlitMode :
         \/ /\ BlitToFront(call.win, Unreference(refcnt, call.old), m)
            /\ win' = Remember(call.win, call.canflip, 0)
         \/ /\ Commit(Unreference(refcnt, scanout), bowidth, m.fb, m.img)
            /\ scanouts' = m.tab
            /\ UNCHANGED <<pixBo, win>>
    BY DEF SwapBlitReturn
<1>3. ASSUME NEW x
      PROVE  /\ Unreference(refcnt, x) \in CountsType
             /\ \A b \in Bos : Unreference(refcnt, x)[b] > 0 => refcnt[b] > 0
    BY <1>0, RefsType, RefUp DEF CountsType
<1>4. CASE /\ BlitToFront(call.win, Unreference(refcnt, call.old), m)
           /\ win' = Remember(call.win, call.canflip, 0)
    <2>1. \A v \in Windows : win'[v].back = win[v].back
        BY <1>0, <1>4, BackKept
    <2>. QED
        BY <1>1, <1>3, <1>4, <2>1, BlitShape
<1>5. CASE /\ Commit(Unreference(refcnt, scanout), bowidth, m.fb, m.img)
           /\ scanouts' = m.tab
           /\ UNCHANGED <<pixBo, win>>
    <2>1. Sized'
        BY <1>3, <1>5, CommitSized DEF Shape, Sized
    <2>2. SlotsFilled'
        BY <1>0, <1>5, BosKept, SameSlotsFilled DEF Shape
    <2>3. Backed'
        BY <1>1, <1>5 DEF Shape, Backed
    <2>. QED
        BY <2>1, <2>2, <2>3 DEF ShapeNext
<1>. QED
    BY <1>2, <1>4, <1>5

LEMMA RootWriteReturnShape ==
    ASSUME Shape, Defined, NEW x, RootWriteReturn(x)
    PROVE  ShapeNext
<1>0. TypeInv /\ refcnt \in CountsType /\ pixBo \in PixType /\ scanout \in Bos
    BY DEF Shape, Inv, TypeInv
<1>1. PICK m, rc, img :
         /\ m \in SetBlitMode
         /\ scanouts' = m.tab
         /\ Commit(rc, bowidth, m.fb, img)
         /\ \/ /\ pixBo' = [pixBo EXCEPT ![Root] = scanout]
               /\ rc = Unreference(Reference(refcnt, scanout), pixBo[Root])
            \/ /\ rc = refcnt
               /\ UNCHANGED pixBo
    BY DEF RootWriteReturn
<1>2. UNCHANGED <<win, cmd>>
    BY DEF RootWriteReturn, flipVars
<1>3. Sized'
    <2>1. refcnt[scanout] > 0
        BY <1>0, HeldIsReferenced
    <2>2. rc \in CountsType /\ \A b \in Bos : rc[b] > 0 => refcnt[b] > 0
        <3>1. Unreference(Reference(refcnt, scanout), pixBo[Root]) \in CountsType
            BY <1>0, RefsType DEF CountsType
        <3>. QED
            BY <1>0, <1>1, <2>1, <3>1, RefUp
    <2>. QED
        BY <1>1, <2>2, CommitSized DEF Shape, Sized
<1>4. SlotsFilled'
    BY <1>0, <1>1, BosKept, SameSlotsFilled DEF Shape
<1>5. Backed'
    <2>1. pixBo'[Root] # NoBo /\ \A q \in Pixmaps : pixBo'[q] = pixBo[q]
        BY <1>0, <1>1, PixIdsFinite DEF PixType, NoBo, Bos, Shape, Backed
    <2>. QED
        BY <1>2, <2>1, BackedKept DEF Shape
<1>. QED
    BY <1>3, <1>4, <1>5 DEF ShapeNext

\* The buffers change places, the slot at the place of the flip gets the new one.
LEMMA CompleteFlipShape ==
    ASSUME Shape, Defined, NEW k \in CmdIds, cmd[k] \in CmdType, CompleteFlip(k)
    PROVE  ShapeNext
<1>. DEFINE p   == cmd[k].src
            new == pixBo[p]
            pix == Exchanged(pixBo, p)
            at  == [x |-> cmd[k].x, w |-> bowidth[new]]
            tab == ValidateBo(scanouts, new)
            rc  == ScanoutSetRefs(refcnt, tab, at, new)
            img == Drawn(current, new, Cols(at), TRUE)
            c   == [cmd EXCEPT ![k] = FreeCmd]
<1>0. TypeInv /\ refcnt \in CountsType /\ pixBo \in PixType /\ cmd \in CmdsType
    BY DEF Shape, Inv, TypeInv
<1>1. p \in Pixmaps /\ p \in HeldPixmaps(win, cmd)
    BY DEF CmdType, HeldPixmaps
<1>2. new \in Bos /\ refcnt[new] > 0
    <2>1. new \in Bos
        BY <1>0, <1>1, PixBoType DEF Shape, Backed, BoOrNone
    <2>. QED
        BY <1>0, <1>1, <2>1, HeldIsReferenced DEF PixIds
<1>3. pix \in PixType /\ pix[Root] # NoBo /\ \A q \in Pixmaps : pixBo[q] # NoBo => pix[q] # NoBo
    BY <1>0, <1>1, <1>2, PixBoType, PixIdsFinite DEF PixType, Exchanged, Shape, Backed, NoBo, Bos
<1>4. tab \in TableType /\ \A s \in Slots : /\ tab[s].bo = scanouts[s].bo
                                            /\ tab[s].rect = scanouts[s].rect
    BY <1>0, ValidateBoType, ValidateKeepsBos DEF TypeInv
<1>5. /\ scanouts' = ScanoutSet(tab, at, new)
      /\ win' = [win EXCEPT ![cmd[k].win].pending = 0]
      /\ cmd' = c
      /\ pixBo' = DropPixmaps(win, c, pix)
      /\ Commit(DropRefs(rc, win, c, pix), bowidth, crtcFb, img)
    BY DEF CompleteFlip, CompleteCmd
<1>6. \A v \in Windows : win'[v].back = win[v].back
    BY <1>0, <1>5 DEF TypeInv, WinsType, WinType
<1>7. \A q \in Pixmaps : q \in HeldPixmaps(win', c) => q \in HeldPixmaps(win, c) /\ q \in HeldPixmaps(win, cmd)
    <2>1. \A j \in CmdIds : c[j].src \in {cmd[j].src, NoPix}
        BY <1>0 DEF CmdsType, FreeCmd
    <2>2. NoPix \notin Pixmaps
        BY DEF NoPix, Pixmaps
    <2>. QED
        BY <1>6, <2>1, <2>2 DEF HeldPixmaps
<1>. HIDE DEF new, pix, tab, at, p, img, c
<1>8. rc \in CountsType /\ \A b \in Bos : rc[b] > 0 => refcnt[b] > 0
    <2>1. rc \in CountsType
        BY <1>0, <1>2, <1>4, ScanoutSetType DEF CountsType
    <2>2. ASSUME NEW b \in Bos, rc[b] > 0
          PROVE  refcnt[b] > 0
        BY <1>0, <1>2, <2>2, RefUp DEF ScanoutSetRefs
    <2>. QED
        BY <2>1, <2>2
<1>. HIDE DEF rc
<1>9. Sized'
    <2>1. DropRefs(rc, win, c, pix) \in CountsType
        BY <1>3, <1>8, DropType
    <2>2. \A b \in Bos : DropRefs(rc, win, c, pix)[b] > 0 => bowidth[b] > 0
        BY <1>8, DropDown DEF Shape, Sized
    <2>. QED
        BY <1>5, <2>1, <2>2, CommitSized
<1>10. SlotsFilled'
    <2>1. \A s \in Slots : /\ scanouts'[s].rect = scanouts[s].rect
                           /\ scanouts'[s].bo = scanouts[s].bo \/ scanouts'[s].bo = new
        BY <1>4, <1>5 DEF ScanoutSet, TableType, SlotType
    <2>. QED
        BY <1>2, <2>1 DEF SlotsFilled, Shape, NoBo, Bos
<1>11. Backed'
    <2>1. pixBo'[Root] # NoBo
        BY <1>3, <1>5, DropKeepsHeld
    <2>2. ASSUME NEW q \in Pixmaps, q \in HeldPixmaps(win', cmd')
          PROVE  pixBo'[q] # NoBo
        <3>1. q \in HeldPixmaps(win, c) /\ q \in HeldPixmaps(win, cmd)
            BY <1>5, <1>7, <2>2
        <3>2. pixBo'[q] = pix[q] /\ pixBo[q] # NoBo
            BY <1>3, <1>5, <3>1, DropKeepsHeld DEF Shape, Backed
        <3>. QED
            BY <1>3, <3>2
    <2>. QED
        BY <2>1, <2>2 DEF Backed
<1>. QED
    BY <1>9, <1>10, <1>11 DEF ShapeNext

LEMMA HandleEventShape ==
    ASSUME Shape, Defined, HandleEvent
    PROVE  ShapeNext
<1>. DEFINE k == Head(events)[2]
<1>0. TypeInv /\ refcnt \in CountsType /\ pixBo \in PixType /\ cmd \in CmdsType
    BY DEF Shape, Inv, TypeInv
<1>1. /\ Head(events) = events[1] /\ 1 \in DOMAIN events /\ Head(events) \in Crtcs \X CmdIds
    BY <1>0 DEF HandleEvent, TypeInv
<1>2. k \in CmdIds /\ cmd[k] \in CmdType
    BY <1>0, <1>1, EventsAreLive DEF Shape, CmdsType
<1>3. \/ /\ cmd' = [cmd EXCEPT ![k].swapCount = @ - 1]
         /\ UNCHANGED <<scanouts, boVars, pixBo, win>>
      \/ CompleteFlip(k)
      \/ DropFlip(k)
    BY DEF HandleEvent
<1>. HIDE DEF k
<1>4. CASE /\ cmd' = [cmd EXCEPT ![k].swapCount = @ - 1]
           /\ UNCHANGED <<scanouts, boVars, pixBo, win>>
    <2>1. \A j \in CmdIds : cmd'[j].src = cmd[j].src
        BY <1>0, <1>2, <1>4 DEF CmdsType, CmdType
    <2>2. /\ refcnt' = refcnt /\ bowidth' = bowidth /\ pixBo' = pixBo /\ win' = win
          /\ scanouts' = scanouts
        BY <1>4 DEF boVars
    <2>3. HeldPixmaps(win', cmd') = HeldPixmaps(win, cmd)
        BY <2>1, <2>2, HeldSame
    <2>4. Backed'
        BY <2>2, <2>3 DEF Shape, Backed
    <2>5. SlotsFilled' /\ Sized'
        BY <2>2 DEF Shape, SlotsFilled, Sized
    <2>. QED
        BY <2>4, <2>5 DEF ShapeNext
<1>5. CASE CompleteFlip(k)
    BY <1>2, <1>5, CompleteFlipShape
<1>6. CASE DropFlip(k)
    <2>. DEFINE c == [cmd EXCEPT ![k] = FreeCmd]
    <2>1. /\ cmd' = c /\ win' = win /\ scanouts' = scanouts
          /\ pixBo' = DropPixmaps(win, c, pixBo)
          /\ Commit(DropRefs(refcnt, win, c, pixBo), bowidth, crtcFb, current)
        BY <1>6 DEF DropFlip, CompleteCmd
    <2>2. \A q \in Pixmaps : q \in HeldPixmaps(win, c) => q \in HeldPixmaps(win, cmd)
        <3>1. \A j \in CmdIds : c[j].src \in {cmd[j].src, NoPix}
            BY <1>0 DEF CmdsType, FreeCmd
        <3>2. NoPix \notin Pixmaps
            BY DEF NoPix, Pixmaps
        <3>. QED
            BY <3>1, <3>2 DEF HeldPixmaps
    <2>. HIDE DEF c
    <2>3. Backed'
        BY <1>0, <2>1, <2>2, DropKeepsHeld, BackedKept DEF Shape, Backed
    <2>4. Sized'
        <3>1. DropRefs(refcnt, win, c, pixBo) \in CountsType
            BY <1>0, DropType
        <3>2. \A b \in Bos : DropRefs(refcnt, win, c, pixBo)[b] > 0 => bowidth[b] > 0
            BY <1>0, DropDown DEF Shape, Sized
        <3>. QED
            BY <2>1, <3>1, <3>2, CommitSized
    <2>. QED
        BY <2>1, <2>3, <2>4, SameSlotsFilled DEF Shape, ShapeNext
<1>. QED
    BY <1>3, <1>4, <1>5, <1>6

\* A bo that is new in a slot gets the width of the slot, another keeps its own.
LEMMA WidthsPositive ==
    ASSUME NEW width \in WidthType, NEW tab,
           \A s \in Slots : tab[s].bo \in Bos => tab[s].rect.w > 0, NEW b \in Bos,
           width[b] > 0 \/ \E s \in Slots : refcnt[b] = 0 /\ tab[s].bo = b
    PROVE  SlotWidths(width, tab)[b] > 0
<1>. DEFINE at == {s \in Slots : refcnt[b] = 0 /\ tab[s].bo = b}
<1>1. SlotWidths(width, tab)[b] = IF at = {} THEN width[b] ELSE tab[The(at)].rect.w
    BY DEF SlotWidths
<1>2. CASE at = {}
    <2>1. width[b] > 0
        BY <1>2
    <2>. QED
        BY <1>1, <1>2, <2>1
<1>3. CASE at # {}
    <2>1. The(at) \in at
        BY <1>3, TheMember
    <2>2. tab[The(at)].rect.w > 0
        BY <2>1
    <2>. QED
        BY <1>1, <1>3, <2>2
<1>. QED
    BY <1>2, <1>3

\* Every slot of the new table is empty, or has a bo and the columns of a CRTC.
LEMMA UpdateFills ==
    ASSUME TypeInv, SlotsFilled, NEW tab \in TableType,
           \A s \in Slots : tab[s].bo = scanouts[s].bo /\ tab[s].rect = scanouts[s].rect,
           NEW free \in SUBSET Bos,
           Cardinality(Starved(tab, Active(crtc), CrtcRects(crtc))) <= Cardinality(free),
           NEW rc, NEW canFail,
           NEW u \in UpdateScanouts(tab, Active(crtc), CrtcRects(crtc), free, rc, canFail),
           NEW s \in Slots
    PROVE  /\ u.tab[s].bo = NoBo => u.tab[s].rect = NoRect
           /\ u.tab[s].bo \in Bos => u.tab[s].rect.w > 0
<1>. DEFINE act   == Active(crtc)
            rects == CrtcRects(crtc)
<1>1. act \in SUBSET Crtcs /\ NumCrtc <= MaxScanouts
    BY ActiveType, DisplayAssumption
<1>2. \A c \in act : rects[c] # NoRect /\ rects[c].w > 0
    BY DisplayAssumption DEF Active, CrtcRects, TypeInv, CrtcType, NoRect
<1>3. \A t \in Slots : tab[t].bo = NoBo => tab[t].rect = NoRect
    BY DEF SlotsFilled
<1>4. /\ Cardinality(Starved(tab, act, rects)) <= Cardinality(free)
      /\ u \in UpdateScanouts(tab, act, rects, free, rc, canFail)
    OBVIOUS
<1>. HIDE DEF act, rects
<1>5. PICK n \in Nat : u.tab = UpdatedTable(tab, act, rects, free, n)
    BY <1>1, <1>4, UpdateIsTable
<1>. DEFINE table == UpdatedTable(tab, act, rects, free, n)
<1>6. \/ table[s] = EmptySlot
      \/ (\E c \in act : table[s].rect = rects[c]) /\ table[s].bo \in Bos
    BY <1>1, <1>2, <1>3, <1>4, UpdatedSlot
<1>. HIDE DEF table
<1>7. CASE table[s] = EmptySlot
    BY <1>5, <1>7 DEF table, EmptySlot, NoBo, Bos
<1>8. CASE (\E c \in act : table[s].rect = rects[c]) /\ table[s].bo \in Bos
    <2>1. table[s].rect.w > 0 /\ table[s].bo # NoBo
        BY <1>2, <1>8 DEF NoBo, Bos
    <2>. QED
        BY <1>5, <2>1 DEF table
<1>. QED
    BY <1>6, <1>7, <1>8

LEMMA SetModeMajorReturnShape ==
    ASSUME Shape, Defined, SetModeMajorReturn
    PROVE  ShapeNext
<1>. DEFINE act   == Active(crtc)
            rects == CrtcRects(crtc)
            fails == "alloc" \in Faults
<1>0. TypeInv /\ refcnt \in CountsType /\ bowidth \in WidthType
    BY DEF Shape, Inv, TypeInv
<1>1. PICK m \in (IF flip_mode = "DISABLED" THEN SetOneCrtc(call.crtc) ELSE SetBlitMode) :
         \/ scanouts' = m.tab /\ Commit(refcnt, bowidth, m.fb, m.img)
         \/ \E u \in UpdateScanouts(m.tab, act, rects, FreeBos, refcnt, fails) :
                 /\ scanouts' = u.tab
                 /\ Commit(u.rc, SlotWidths(bowidth, u.tab), m.fb, m.img)
    BY DEF SetModeMajorReturn
<1>2. UNCHANGED <<scanout, pixBo, win, cmd>>
    BY DEF SetModeMajorReturn, flipVars
<1>3. \A s \in Slots : m.tab[s].bo = scanouts[s].bo /\ m.tab[s].rect = scanouts[s].rect
    BY <1>0, BosKept
<1>4. Backed'
    BY <1>2 DEF Shape, Backed
<1>5. CASE scanouts' = m.tab /\ Commit(refcnt, bowidth, m.fb, m.img)
    <2>1. Sized'
        BY <1>0, <1>5, CommitSized DEF Shape, Sized
    <2>2. SlotsFilled'
        BY <1>3, <1>5, SameSlotsFilled DEF Shape
    <2>. QED
        BY <1>4, <2>1, <2>2 DEF ShapeNext
<1>6. CASE \E u \in UpdateScanouts(m.tab, act, rects, FreeBos, refcnt, fails) :
                 /\ scanouts' = u.tab
                 /\ Commit(u.rc, SlotWidths(bowidth, u.tab), m.fb, m.img)
    <2>1. PICK u \in UpdateScanouts(m.tab, act, rects, FreeBos, refcnt, fails) :
                 /\ scanouts' = u.tab
                 /\ Commit(u.rc, SlotWidths(bowidth, u.tab), m.fb, m.img)
        BY <1>6
    <2>2. /\ act \in SUBSET Crtcs /\ FreeBos \in SUBSET Bos /\ fails \in BOOLEAN
          /\ NumCrtc <= MaxScanouts /\ rects \in [Crtcs -> Rects]
        BY <1>0, ActiveType, FreeBosType, DisplayAssumption
    <2>3. m.tab \in TableType
        <3>1. m \in SetOneCrtc(call.crtc) \/ m \in SetBlitMode
            OBVIOUS
        <3>. QED
            BY <1>0, <3>1, SetBlitModeType, SetOneCrtcType DEF OutcomeOK
    <2>4. Cardinality(Starved(m.tab, act, rects)) <= Cardinality(FreeBos)
        <3>1. Cardinality(Starved(scanouts, act, rects)) <= Cardinality(FreeBos)
            BY DEF SetModeMajorReturn
        <3>. HIDE DEF act, rects
        <3>2. ASSUME NEW c
              PROVE  {s \in Slots : m.tab[s].rect = rects[c]} = {s \in Slots : scanouts[s].rect = rects[c]}
            BY <1>3
        <3>3. Starved(m.tab, act, rects) = Starved(scanouts, act, rects)
            BY <3>2 DEF Starved, Taken
        <3>. QED
            BY <3>1, <3>3
    <2>5. \A s \in Slots : /\ u.tab[s].bo = NoBo => u.tab[s].rect = NoRect
                           /\ u.tab[s].bo \in Bos => u.tab[s].rect.w > 0
        BY <1>0, <1>3, <2>2, <2>3, <2>4, UpdateFills DEF Shape
    <2>6. SlotsFilled'
        BY <2>1, <2>5 DEF SlotsFilled
    <2>. HIDE DEF act, rects, fails
    <2>7. u.tab \in TableType /\ u.rc \in CountsType
        BY <1>0, <2>2, <2>3, <2>4, UpdateType DEF CountsType
    <2>8. ASSUME NEW b \in Bos, u.rc[b] > 0
          PROVE  SlotWidths(bowidth, u.tab)[b] > 0
        <3>1. \A s \in Slots : m.tab[s].bo \notin FreeBos
            BY <1>0, <1>3, HeldIsReferenced DEF FreeBos
        <3>2. refcnt[b] > 0 \/ \E s \in Slots : u.tab[s].bo = b
            BY <1>0, <2>2, <2>4, <2>8, <3>1, UpdateGrows DEF CountsType
        <3>3. bowidth[b] > 0 \/ \E s \in Slots : refcnt[b] = 0 /\ u.tab[s].bo = b
            <4>1. CASE refcnt[b] > 0
                BY <4>1 DEF Shape, Sized
            <4>2. CASE ~(refcnt[b] > 0)
                <5>1. PICK s \in Slots : u.tab[s].bo = b
                    BY <3>2, <4>2
                <5>2. \A t \in Slots : m.tab[t].bo # b
                    BY <1>0, <1>3, <4>2, HeldIsReferenced
                <5>3. b \in FreeBos
                    <6>1. \A c \in act : rects[c] # NoRect
                        BY <1>0, DisplayAssumption
                        DEF act, rects, Active, CrtcRects, TypeInv, CrtcType, NoRect
                    <6>2. \A t \in Slots : m.tab[t].bo = NoBo => m.tab[t].rect = NoRect
                        BY <1>3 DEF Shape, SlotsFilled
                    <6>3. PICK n \in Nat : u.tab = UpdatedTable(m.tab, act, rects, FreeBos, n)
                        BY <2>2, UpdateIsTable
                    <6>. DEFINE table == UpdatedTable(m.tab, act, rects, FreeBos, n)
                    <6>4. \/ table[s] = EmptySlot
                          \/ table[s].bo \in FreeBos
                          \/ \E t \in Slots : m.tab[t].bo = table[s].bo
                        BY <2>2, <2>3, <2>4, <6>1, <6>2, UpdatedSlot
                    <6>. HIDE DEF table
                    <6>5. table[s].bo = b
                        BY <5>1, <6>3 DEF table
                    <6>. QED
                        BY <5>2, <6>4, <6>5 DEF EmptySlot, NoBo, Bos
                <5>. QED
                    BY <5>1, <5>3 DEF FreeBos
            <4>. QED
                BY <4>1, <4>2
        <3>. QED
            BY <1>0, <2>5, <3>3, WidthsPositive
    <2>9. Sized'
        BY <2>1, <2>7, <2>8, CommitSized
    <2>. QED
        BY <1>4, <2>6, <2>9 DEF ShapeNext
<1>. QED
    BY <1>1, <1>5, <1>6

LEMMA ResizeShape ==
    ASSUME Shape, Defined, NEW d \in Widths, Resize(d)
    PROVE  ShapeNext
<1>. DEFINE same == d = bowidth[scanout]
<1>0. TypeInv /\ refcnt \in CountsType /\ bowidth \in WidthType /\ scanout \in Bos
    BY DEF Shape, Inv, TypeInv
<1>1. PICK new, img :
         /\ new \in (IF same THEN {scanout} ELSE Nth(FreeBos, 1))
         /\ LET rc == IF same THEN refcnt
                      ELSE Unreference([refcnt EXCEPT ![new] = 1], scanout)
            IN  /\ pixBo' = [pixBo EXCEPT ![Root] = new]
                /\ Commit(RootBacked(rc, new), [bowidth EXCEPT ![new] = d], crtcFb, img)
    BY DEF Resize
<1>. DEFINE up  == [refcnt EXCEPT ![new] = 1]
            rc  == IF same THEN refcnt ELSE Unreference(up, scanout)
            wid == [bowidth EXCEPT ![new] = d]
<1>2. /\ UNCHANGED <<scanouts, win, cmd>> /\ new \in Bos
      /\ pixBo' = [pixBo EXCEPT ![Root] = new]
      /\ Commit(Unreference(Reference(rc, new), pixBo[Root]), wid, crtcFb, img)
    BY <1>0, <1>1 DEF Resize, flipVars, Nth, FreeBos, RootBacked
<1>3. up \in CountsType /\ \A b \in Bos : up[b] > 0 => refcnt[b] > 0 \/ b = new
    BY <1>0, <1>2 DEF CountsType
<1>. HIDE DEF up
<1>4. rc \in CountsType /\ \A b \in Bos : rc[b] > 0 => refcnt[b] > 0 \/ b = new
    <2>1. /\ Unreference(up, scanout) \in CountsType
          /\ \A b \in Bos : Unreference(up, scanout)[b] > 0 => up[b] > 0
        BY <1>0, <1>3, RefsType, RefUp DEF CountsType
    <2>. QED
        BY <1>0, <1>3, <2>1
<1>. HIDE DEF rc
<1>5. d > 0 /\ d \in Nat
    BY DisplayAssumption
<1>6. wid \in WidthType /\ wid[new] > 0 /\ \A b \in Bos : bowidth[b] > 0 => wid[b] > 0
    BY <1>0, <1>2, <1>5 DEF WidthType
<1>. HIDE DEF wid
<1>7. Sized'
    <2>1. Unreference(Reference(rc, new), pixBo[Root]) \in CountsType
        BY <1>4, RefsType DEF CountsType
    <2>2. \A b \in Bos : Unreference(Reference(rc, new), pixBo[Root])[b] > 0 => wid[b] > 0
        BY <1>4, <1>6, RefUp DEF Shape, Sized
    <2>. QED
        BY <1>2, <2>1, <2>2, CommitSized
<1>8. Backed'
    <2>1. pixBo'[Root] # NoBo /\ \A q \in Pixmaps : pixBo'[q] = pixBo[q]
        BY <1>0, <1>2, PixIdsFinite DEF TypeInv, PixType, NoBo, Bos
    <2>. QED
        BY <1>2, <2>1, BackedKept DEF Shape
<1>. QED
    BY <1>2, <1>7, <1>8, SameSlotsFilled DEF Shape, ShapeNext

LEMMA ScreenInitShape ==
    ASSUME Shape, Defined, ScreenInit
    PROVE  ShapeNext
<1>. DEFINE act   == Active(crtc)
            rects == CrtcRects(crtc)
<1>0. TypeInv /\ refcnt \in CountsType /\ scanout \in Bos /\ bowidth \in WidthType
    BY DEF Shape, Inv, TypeInv
<1>1. PICK new, fb, img :
         /\ new \in Nth(FreeBos, 1)
         /\ LET rc == RootReplaced(new)
                u  == UpdateDone(scanouts, act, rects, FreeBos \ {new}, rc)
            IN  /\ pixBo' = [pixBo EXCEPT ![Root] = new]
                /\ scanouts' = u.tab
                /\ Commit(u.rc, SlotWidths([bowidth EXCEPT ![new] = bowidth[scanout]], u.tab), fb, img)
    BY DEF ScreenInit
<1>. DEFINE up   == [refcnt EXCEPT ![new] = 2]
            rc   == Unreference(Unreference(up, scanout), pixBo[Root])
            wid  == [bowidth EXCEPT ![new] = bowidth[scanout]]
            free == FreeBos \ {new}
            u    == UpdateDone(scanouts, act, rects, free, rc)
            none == FALSE
<1>2. /\ pixBo' = [pixBo EXCEPT ![Root] = new] /\ scanouts' = u.tab
      /\ Commit(u.rc, SlotWidths(wid, u.tab), fb, img)
    BY <1>1 DEF RootReplaced
<1>3. new \in FreeBos /\ new \in Bos /\ refcnt[new] = 0
    BY <1>1 DEF Nth, FreeBos
<1>4. /\ act \in SUBSET Crtcs /\ free \in SUBSET Bos /\ NumCrtc <= MaxScanouts
      /\ rects \in [Crtcs -> Rects]
    BY <1>0, ActiveType, FreeBosType, DisplayAssumption
<1>5. Cardinality(Starved(scanouts, act, rects)) <= Cardinality(free)
    <2>1. Cardinality(FreeBos \ {new}) = Cardinality(FreeBos) - 1
        BY <1>3, FreeBosType, FS_RemoveElement
    <2>2. Cardinality(Starved(scanouts, act, rects)) < Cardinality(FreeBos)
        BY DEF ScreenInit
    <2>3. Cardinality(Starved(scanouts, act, rects)) \in Nat
        <3>1. Starved(scanouts, act, rects) \in SUBSET Crtcs
            BY <1>4 DEF Starved
        <3>. QED
            BY <3>1, CrtcsFinite, FS_Subset, FS_CardinalityType
    <2>. QED
        BY <2>1, <2>2, <2>3, FreeBosType
<1>6. up \in CountsType /\ \A b \in Bos : up[b] > 0 => refcnt[b] > 0 \/ b = new
    BY <1>0, <1>3 DEF CountsType
<1>. HIDE DEF up
<1>7. rc \in [Bos -> Int] /\ \A b \in Bos : rc[b] > 0 => refcnt[b] > 0 \/ b = new
    <2>. DEFINE mid == Unreference(up, scanout)
    <2>1. mid \in CountsType /\ \A b \in Bos : mid[b] > 0 => up[b] > 0
        BY <1>6, RefsType, RefUp DEF CountsType
    <2>. HIDE DEF mid
    <2>2. /\ Unreference(mid, pixBo[Root]) \in [Bos -> Int]
          /\ \A b \in Bos : Unreference(mid, pixBo[Root])[b] > 0 => mid[b] > 0
        BY <2>1, RefsType, RefUp DEF CountsType
    <2>. QED
        BY <1>6, <2>1, <2>2 DEF mid
<1>8. none \in BOOLEAN /\ u \in UpdateScanouts(scanouts, act, rects, free, rc, none)
    BY <1>4, DoneIsUpdate
<1>9. wid \in WidthType /\ wid[new] > 0 /\ \A b \in Bos \ {new} : wid[b] = bowidth[b]
    <2>1. refcnt[scanout] > 0
        BY <1>0, HeldIsReferenced
    <2>. QED
        BY <1>0, <1>3, <2>1 DEF WidthType, Shape, Sized
<1>. HIDE DEF u, rc, wid, free, none
<1>10. \A s \in Slots : /\ u.tab[s].bo = NoBo => u.tab[s].rect = NoRect
                        /\ u.tab[s].bo \in Bos => u.tab[s].rect.w > 0
    <2>1. scanouts \in TableType
        BY <1>0 DEF TypeInv
    <2>. QED
        BY <1>0, <1>4, <1>5, <1>8, <2>1, UpdateFills DEF Shape
<1>11. SlotsFilled'
    BY <1>2, <1>10 DEF SlotsFilled
<1>. HIDE DEF act, rects
<1>12. u.tab \in TableType /\ u.rc \in CountsType
    BY <1>0, <1>4, <1>5, <1>7, <1>8, UpdateType DEF CountsType, TypeInv
<1>13. ASSUME NEW b \in Bos, u.rc[b] > 0
       PROVE  SlotWidths(wid, u.tab)[b] > 0
    <2>1. \A s \in Slots : scanouts[s].bo \notin free
        BY <1>0, HeldIsReferenced DEF free, FreeBos
    <2>2. rc[b] > 0 \/ \E s \in Slots : u.tab[s].bo = b
        BY <1>4, <1>5, <1>7, <1>8, <1>13, <2>1, UpdateGrows
    <2>3. wid[b] > 0 \/ \E s \in Slots : refcnt[b] = 0 /\ u.tab[s].bo = b
        <3>1. CASE rc[b] > 0 \/ refcnt[b] > 0
            BY <1>7, <1>9, <3>1 DEF Shape, Sized
        <3>2. CASE ~(rc[b] > 0 \/ refcnt[b] > 0)
            <4>1. PICK s \in Slots : u.tab[s].bo = b
                BY <2>2, <3>2
            <4>2. \A t \in Slots : scanouts[t].bo # b
                BY <1>0, <3>2, HeldIsReferenced
            <4>3. \A c \in act : rects[c] # NoRect
                BY <1>0, DisplayAssumption
                DEF act, rects, Active, CrtcRects, TypeInv, CrtcType, NoRect
            <4>4. \A t \in Slots : scanouts[t].bo = NoBo => scanouts[t].rect = NoRect
                BY DEF Shape, SlotsFilled
            <4>5. PICK n \in Nat : u.tab = UpdatedTable(scanouts, act, rects, free, n)
                BY <1>4, <1>8, UpdateIsTable
            <4>. DEFINE table == UpdatedTable(scanouts, act, rects, free, n)
            <4>6. \/ table[s] = EmptySlot
                  \/ table[s].bo \in free
                  \/ \E t \in Slots : scanouts[t].bo = table[s].bo
                BY <1>0, <1>4, <1>5, <4>3, <4>4, UpdatedSlot DEF TypeInv
            <4>. HIDE DEF table
            <4>7. table[s].bo = b
                BY <4>1, <4>5 DEF table
            <4>8. b \in FreeBos
                BY <4>2, <4>6, <4>7 DEF EmptySlot, NoBo, Bos, free
            <4>. QED
                BY <4>1, <4>8 DEF FreeBos
        <3>. QED
            BY <3>1, <3>2
    <2>. QED
        BY <1>9, <1>10, <2>3, WidthsPositive
<1>14. Sized'
    BY <1>2, <1>12, <1>13, CommitSized
<1>15. Backed'
    <2>1. cmd' = cmd /\ win' = [w \in Windows |-> [win[w] EXCEPT !.alive = TRUE]]
        BY DEF ScreenInit, flipVars
    <2>2. \A v \in Windows : win'[v].back = win[v].back
        BY <1>0, <2>1 DEF TypeInv, WinsType, WinType
    <2>3. HeldPixmaps(win', cmd') = HeldPixmaps(win, cmd)
        BY <2>1, <2>2, HeldSame
    <2>4. pixBo'[Root] # NoBo /\ \A q \in Pixmaps : pixBo'[q] = pixBo[q]
        BY <1>0, <1>2, <1>3, PixIdsFinite DEF TypeInv, PixType, NoBo, Bos
    <2>. QED
        BY <2>3, <2>4, BackedKept DEF Shape
<1>. QED
    BY <1>11, <1>14, <1>15 DEF ShapeNext

\* The first slots get the bos 2 and up, of which Init gives the width.
LEMMA InitNewBo ==
    ASSUME NEW tab, NEW c \in Starved(tab, Crtcs, InitRect),
           Cardinality(Starved(tab, Crtcs, InitRect)) <= Cardinality(Bos \ {1})
    PROVE  LET b == NewBo(tab, Crtcs, InitRect, Bos \ {1}, c)
           IN  b \in 2..(NumCrtc + 1) /\ b = Rank(Starved(tab, Crtcs, InitRect), c) + 1
<1>. DEFINE starved == Starved(tab, Crtcs, InitRect)
            k == Rank(starved, c)
            e == NewBo(tab, Crtcs, InitRect, Bos \ {1}, c)
<1>1. starved \in SUBSET Crtcs
    BY DEF Starved
<1>2. k \in 1..NumCrtc
    BY <1>1, RankOfCrtc
<1>3. /\ (Bos \ {1}) \in SUBSET Int /\ IsFiniteSet(Bos \ {1})
      /\ k \in 1..Cardinality(Bos \ {1})
    <2>1. IsFiniteSet(Bos \ {1}) /\ Cardinality(Bos \ {1}) \in Nat
        BY BosFinite, FS_Subset, FS_CardinalityType
    <2>2. k <= Cardinality(starved) /\ Cardinality(starved) \in Nat
        <3>1. IsFiniteSet(starved) /\ starved \in SUBSET Int
            BY <1>1, CrtcsFinite, FS_Subset
        <3>. HIDE DEF starved
        <3>. QED
            BY <3>1, RankType
    <2>. QED
        BY <1>2, <2>1, <2>2, BosFinite, SizeAssumption
<1>. HIDE DEF k
<1>4. PICK x \in Bos \ {1} : Rank(Bos \ {1}, x) = k /\ Nth(Bos \ {1}, k) = {x}
    BY <1>3, NthMember
<1>5. e = x
    BY <1>4 DEF NewBo, k, The
<1>6. Rank(Bos \ {1}, x) = x - 1
    <2>1. {t \in Bos \ {1} : t <= x} = 2..x
        BY <1>4, SizeAssumption DEF Bos
    <2>2. Cardinality(2..x) = x - 1
        BY <1>4, SizeAssumption, FS_Interval DEF Bos
    <2>. QED
        BY <2>1, <2>2 DEF Rank
<1>. QED
    BY <1>2, <1>4, <1>5, <1>6, SizeAssumption DEF Bos, k

LEMMA InitShape == Init => Shape
<1>. SUFFICES ASSUME Init
              PROVE  Shape
    OBVIOUS
<1>. DEFINE tab == [s \in Slots |-> EmptySlot]
            rc  == [b \in Bos |-> IF b = 1 THEN 2 ELSE 0]
            u   == UpdateDone(tab, Crtcs, InitRect, Bos \ {1}, rc)
<1>1. Inv /\ TypeInv
    BY InitInv DEF Inv
<1>2. Backed
    <2>1. pixBo[Root] = 1
        BY PixIdsFinite DEF Init
    <2>2. \A p \in Pixmaps : p \notin HeldPixmaps(win, cmd)
        BY DEF Init, InitWindow, FreeCmd, HeldPixmaps, NoPix, Pixmaps
    <2>. QED
        BY <2>1, <2>2 DEF Backed, NoBo
<1>3. scanouts = u.tab /\ refcnt = u.rc
    BY DEF Init, InitUpdate
<1>4. tab \in TableType /\ \A s \in Slots : tab[s].bo = NoBo /\ tab[s].rect = NoRect
    BY DEF EmptySlot, TableType, SlotType, NoRect, Rects
<1>5. rc \in [Bos -> Int] /\ \A b \in Bos \ {1} : rc[b] = 0
    OBVIOUS
<1>6. Cardinality(Starved(tab, Crtcs, InitRect)) <= Cardinality(Bos \ {1})
    BY InitStarved
<1>7. \A c \in Crtcs : InitRect[c].w > 0 /\ InitRect[c].x \in Nat /\ InitRect[c].w \in Nat
    BY DisplayAssumption DEF Rects
<1>8. \A c \in Crtcs : InitRect[c] # NoRect
    BY <1>7 DEF NoRect
<1>. HIDE DEF tab, rc
<1>9. SlotsFilled
    <2>1. scanouts = UpdatedTable(tab, Crtcs, InitRect, Bos \ {1}, NumCrtc)
        BY <1>3 DEF UpdateDone
    <2>2. NumCrtc \in Nat /\ (Bos \ {1}) \in SUBSET Bos /\ Crtcs \in SUBSET Crtcs
        BY SizeAssumption
    <2>3. ASSUME NEW s \in Slots
          PROVE  scanouts[s].bo = NoBo => scanouts[s].rect = NoRect
        <3>. DEFINE new == UpdatedTable(tab, Crtcs, InitRect, Bos \ {1}, NumCrtc)
        <3>1. new[s] = EmptySlot \/ new[s].bo \in Bos
            BY <1>4, <1>6, <1>8, <2>2, UpdatedSlot
        <3>. HIDE DEF new
        <3>. QED
            BY <2>1, <3>1 DEF new, EmptySlot, NoBo, Bos
    <2>. QED
        BY <2>3 DEF SlotsFilled
<1>10. Sized
    <2>1. ASSUME NEW b \in Bos, refcnt[b] > 0
          PROVE  bowidth[b] > 0
        <3>1. CASE b = 1
            <4>. DEFINE right == [c \in Crtcs |-> InitRect[c].x + InitRect[c].w]
                        last  == CHOOSE c \in Crtcs : \A d \in Crtcs : right[d] <= right[c]
            <4>1. right \in [Crtcs -> Nat] /\ \A c \in Crtcs : right[c] > 0
                BY <1>7
            <4>. HIDE DEF right
            <4>2. last \in Crtcs
                BY <4>1, LargestExists
            <4>3. InitWidth = right[last]
                BY DEF InitWidth, right
            <4>4. bowidth[b] = InitWidth
                BY <3>1 DEF Init
            <4>. HIDE DEF last
            <4>. QED
                BY <4>1, <4>2, <4>3, <4>4
        <3>2. CASE b # 1
            <4>1. b \in FreshBos(tab, Crtcs, InitRect, Bos \ {1}, NumCrtc)
                <5>. DEFINE gone == Discarded(tab, Crtcs, InitRect)
                <5>1. refcnt[b] = IF b \in FreshBos(tab, Crtcs, InitRect, Bos \ {1}, NumCrtc) THEN 1
                                  ELSE rc[b] - Lost(tab, gone, b)
                    BY <1>3 DEF UpdateDone
                <5>2. Lost(tab, gone, b) \in Nat
                    BY LostType DEF Discarded
                <5>. HIDE DEF gone
                <5>. QED
                    BY <1>5, <2>1, <3>2, <5>1, <5>2
            <4>2. PICK c \in Starved(tab, Crtcs, InitRect) :
                         b = NewBo(tab, Crtcs, InitRect, Bos \ {1}, c)
                BY <4>1 DEF FreshBos
            <4>3. b \in 2..(NumCrtc + 1)
                BY <1>6, <4>2, InitNewBo
            <4>4. b - 1 \in Crtcs /\ b <= NumCrtc + 1
                BY <4>3, SizeAssumption DEF Crtcs
            <4>5. bowidth[b] = InitRect[b - 1].w
                BY <3>2, <4>4 DEF Init
            <4>. QED
                BY <1>7, <4>4, <4>5
        <3>. QED
            BY <3>1, <3>2
    <2>. QED
        BY <2>1 DEF Sized
<1>. QED
    BY <1>1, <1>2, <1>9, <1>10 DEF Shape

\* What the driver holds exists, as long as the program is defined.
LEMMA StepShape == Shape /\ [Next]_vars => Shape'
<1>. SUFFICES ASSUME Shape, [Next]_vars
              PROVE  Shape'
    OBVIOUS
<1>1. Inv' /\ TypeInv
    BY StepInv DEF Shape, Inv
<1>2. CASE Next
    <2>1. Defined
        BY <1>2 DEF Next
    <2>2. ASSUME QuietAction
          PROVE  ShapeNext
        <3>1. /\ UNCHANGED <<scanouts, refcnt, bowidth, pixBo, cmd>>
              /\ \A v \in Windows : win'[v].back = win[v].back
            BY <1>1, <2>2, QuietFacts DEF omapVars
        <3>. QED
            BY <3>1, QuietShape
    <2>3. ASSUME NEW w \in Windows, Client(w)
          PROVE  ShapeNext
        BY <2>2, <2>3, GetBuffersShape, DestroyShape DEF Client, QuietAction
    <2>4. ASSUME NEW w \in Windows, Swap(w)
          PROVE  ShapeNext
        BY <2>1, <2>4, SwapFlipShape, SwapsShape DEF Swap
    <2>5. ASSUME Access
          PROVE  ShapeNext
        BY <2>2, <2>5 DEF QuietAction
    <2>6. ASSUME Config
          PROVE  ShapeNext
        BY <2>1, <2>2, <2>6, ResizeShape, DestroyShape DEF Config, QuietAction
    <2>7. ASSUME Return
          PROVE  ShapeNext
        BY <2>1, <2>7, SwapBlitReturnShape, SetModeMajorReturnShape, ScreenInitShape,
           RootWriteReturnShape DEF Return
    <2>8. ASSUME HandleEvent
          PROVE  ShapeNext
        BY <2>1, <2>8, HandleEventShape
    <2>9. ASSUME NEW c \in Crtcs, KernelFlip(c)
          PROVE  ShapeNext
        BY <2>2, <2>9 DEF QuietAction
    <2>10. ShapeNext
        BY <1>2, <2>3, <2>4, <2>5, <2>6, <2>7, <2>8, <2>9 DEF Next
    <2>. QED
        BY <1>1, <2>10 DEF Shape, ShapeNext
<1>3. CASE UNCHANGED vars
    <2>1. /\ UNCHANGED <<scanouts, refcnt, bowidth, pixBo, cmd>>
          /\ \A v \in Windows : win'[v].back = win[v].back
        BY <1>3 DEF vars, omapVars, boVars, flipVars
    <2>2. ShapeNext
        BY <2>1, QuietShape
    <2>. QED
        BY <1>1, <2>2 DEF Shape, ShapeNext
<1>. QED
    BY <1>2, <1>3

-----------------------------------------------------------------------------
(* The valid flags of the slots.                                           *)

\* In flip mode every slot is valid, in blit mode none is.
EnabledValid ==
    flip_mode = "ENABLED" => \A s \in Slots : scanouts[s].bo # NoBo => scanouts[s].valid
DisabledInvalid ==
    flip_mode = "DISABLED" => \A s \in Slots : scanouts[s].bo # NoBo => ~scanouts[s].valid

ModeInv == Shape /\ EnabledValid

ModeKept == EnabledValid' /\ (DisabledInvalid => DisabledInvalid')

LEMMA SameModeKept ==
    ASSUME EnabledValid, flip_mode' = flip_mode, scanouts' = scanouts
    PROVE  ModeKept
    BY DEF EnabledValid, DisabledInvalid, ModeKept

LEMMA Marked ==
    ASSUME TypeInv, NEW n, NEW s \in Slots
    PROVE  /\ Invalidated(n)[s].bo = scanouts[s].bo /\ Validated(n)[s].bo = scanouts[s].bo
           /\ s <= n /\ scanouts[s].bo # NoBo => ~Invalidated(n)[s].valid /\ Validated(n)[s].valid
    BY DEF TypeInv, TableType, SlotType, Invalidated, Validated, Filled

\* A switch that succeeds, also one that has nothing to do, leaves the slots of
\* the table it makes all valid, or all invalid.
LEMMA BlitModeInvalid ==
    ASSUME TypeInv, DisabledInvalid \/ flip_mode = "ENABLED", NEW m \in SetBlitMode, m.ret,
           NEW s \in Slots, scanouts[s].bo # NoBo
    PROVE  m.tab[s].bo = scanouts[s].bo /\ ~m.tab[s].valid
<1>1. CASE flip_mode = "DISABLED"
    BY <1>1 DEF SetBlitMode, AlreadySet, Outcome, DisabledInvalid
<1>2. CASE flip_mode # "DISABLED"
    <2>1. m.tab = Invalidated(MaxScanouts)
        BY <1>2 DEF SetBlitMode, Outcome
    <2>2. s <= MaxScanouts
        BY SizeAssumption DEF Slots
    <2>. QED
        BY <2>1, <2>2, Marked
<1>. QED
    BY <1>1, <1>2

LEMMA FlipModeValid ==
    ASSUME TypeInv, EnabledValid, NEW m \in SetFlipMode, m.ret,
           NEW s \in Slots, scanouts[s].bo # NoBo
    PROVE  m.tab[s].bo = scanouts[s].bo /\ m.tab[s].valid
<1>1. CASE flip_mode = "ENABLED"
    BY <1>1 DEF SetFlipMode, AlreadySet, Outcome, EnabledValid
<1>2. CASE flip_mode # "ENABLED"
    <2>1. m.tab = Validated(MaxScanouts)
        BY <1>2 DEF SetFlipMode, Outcome
    <2>2. s <= MaxScanouts
        BY SizeAssumption DEF Slots
    <2>. QED
        BY <2>1, <2>2, Marked
<1>. QED
    BY <1>1, <1>2

LEMMA ValidateKeepsValid ==
    ASSUME NEW tab \in TableType, NEW b, NEW s \in Slots, tab[s].valid
    PROVE  ValidateBo(tab, b)[s].valid
    BY DEF ValidateBo, TableType, SlotType

LEMMA SwapFlipMode ==
    ASSUME ModeInv, NEW w \in Windows, SwapFlip(w)
    PROVE  ModeKept
<1>0. TypeInv
    BY DEF ModeInv, Shape, Inv
<1>1. PICK m, p, b :
         /\ m \in SetFlipMode
         /\ m.ret /\ scanouts' = IF p.ret /\ p.flipped = {} THEN ValidateBo(m.tab, b) ELSE m.tab
    BY DEF SwapFlip
<1>2. flip_mode' = "ENABLED"
    BY DEF SwapFlip
<1>3. m.tab \in TableType
    BY <1>1, <1>0, SetFlipModeType DEF OutcomeOK
<1>4. ASSUME NEW s \in Slots, scanouts'[s].bo # NoBo
      PROVE  scanouts'[s].valid
    <2>1. scanouts'[s].bo = m.tab[s].bo
        BY <1>1, <1>3, ValidateKeepsBos
    <2>2. m.tab[s].bo = scanouts[s].bo
        BY <1>1, <1>0, BosKept
    <2>3. m.tab[s].valid
        BY <1>0, <1>1, <1>4, <2>1, <2>2, FlipModeValid DEF ModeInv
    <2>. QED
        BY <1>1, <1>3, <2>3, ValidateKeepsValid
<1>. QED
    BY <1>2, <1>4 DEF ModeKept, EnabledValid, DisabledInvalid

\* The blit that a swap falls back to happens in blit mode.
LEMMA BlitMode ==
    ASSUME NEW w, NEW rc, NEW m, BlitToFront(w, rc, m), m.tab \in TableType,
           flip_mode' # "ENABLED"
    PROVE  ModeKept
<1>1. \A s \in Slots : ~scanouts'[s].valid
    BY DEF BlitToFront, TableType, SlotType
<1>. QED
    BY <1>1 DEF ModeKept, EnabledValid, DisabledInvalid

LEMMA SwapFlipFallbackMode ==
    ASSUME ModeInv, NEW w \in Windows, SwapFlipFallback(w)
    PROVE  ModeKept
<1>0. TypeInv
    BY DEF ModeInv, Shape, Inv
<1>1. PICK m \in SetFlipMode : ~m.ret /\ BlitToFront(w, refcnt, m)
    BY DEF SwapFlipFallback
<1>2. flip_mode' # "ENABLED"
    BY <1>1 DEF SetFlipMode, AlreadySet, Outcome, SwapFlipFallback
<1>3. m.tab \in TableType
    BY <1>0, SetFlipModeType DEF OutcomeOK
<1>. QED
    BY <1>1, <1>2, <1>3, BlitMode

LEMMA SwapBlitReturnMode ==
    ASSUME ModeInv, BlitWorks, SwapBlitReturn
    PROVE  ModeKept
<1>0. TypeInv
    BY DEF ModeInv, Shape, Inv
<1>1. PICK m, rc :
         /\ m \in SetBlitMode
         /\ BlitToFront(call.win, rc, m) /\ flip_mode' = "DISABLED"
    BY BlitSucceeds DEF SwapBlitReturn
<1>2. m.tab \in TableType
    BY <1>1, <1>0, SetBlitModeType DEF OutcomeOK
<1>. QED
    BY <1>1, <1>2, BlitMode

LEMMA RootWriteReturnMode ==
    ASSUME ModeInv, BlitWorks, NEW x, RootWriteReturn(x)
    PROVE  ModeKept
<1>0. TypeInv
    BY DEF ModeInv, Shape, Inv
<1>1. PICK m \in SetBlitMode : scanouts' = m.tab /\ m.ret /\ flip_mode' = "DISABLED"
    BY BlitSucceeds DEF RootWriteReturn
<1>2. ASSUME DisabledInvalid, NEW s \in Slots, scanouts'[s].bo # NoBo
      PROVE  ~scanouts'[s].valid
    <2>1. scanouts[s].bo # NoBo
        BY <1>0, <1>1, <1>2, BosKept
    <2>. QED
        BY <1>0, <1>1, <1>2, <2>1, BlitModeInvalid
<1>. QED
    BY <1>1, <1>2 DEF ModeKept, EnabledValid, DisabledInvalid

\* A mode set leaves blit mode behind, and new slots are invalid.
LEMMA SetModeMajorReturnMode ==
    ASSUME ModeInv, BlitWorks, SetModeMajorReturn
    PROVE  ModeKept
<1>. DEFINE act   == Active(crtc)
            rects == CrtcRects(crtc)
            fails == "alloc" \in Faults
<1>0. TypeInv
    BY DEF ModeInv, Shape, Inv
<1>1. PICK m \in (IF flip_mode = "DISABLED" THEN SetOneCrtc(call.crtc) ELSE SetBlitMode) :
         /\ m.ret
         /\ flip_mode' = "DISABLED"
         /\ \E u \in UpdateScanouts(m.tab, act, rects, FreeBos, refcnt, fails) : scanouts' = u.tab
    <2>1. \A c : \A m \in SetOneCrtc(c) : m.ret
        BY DEF SetOneCrtc, Outcome, BlitWorks
    <2>. QED
        BY <2>1, BlitSucceeds DEF SetModeMajorReturn
<1>2. PICK u \in UpdateScanouts(m.tab, act, rects, FreeBos, refcnt, fails) : scanouts' = u.tab
    BY <1>1
<1>3. /\ act \in SUBSET Crtcs /\ FreeBos \in SUBSET Bos /\ NumCrtc <= MaxScanouts
      /\ \A c \in act : rects[c] # NoRect
    <2>1. \A c \in act : rects[c] # NoRect
        BY <1>0, DisplayAssumption DEF Active, CrtcRects, TypeInv, CrtcType, NoRect
    <2>. QED
        BY <1>0, <2>1, ActiveType, FreeBosType, DisplayAssumption
<1>4. /\ \A s \in Slots : m.tab[s].bo = scanouts[s].bo /\ m.tab[s].rect = scanouts[s].rect
      /\ m.tab \in TableType
    <2>1. m \in SetOneCrtc(call.crtc) \/ m \in SetBlitMode
        OBVIOUS
    <2>. QED
        BY <1>0, <2>1, BosKept, SetBlitModeType, SetOneCrtcType DEF OutcomeOK
<1>5. ASSUME DisabledInvalid, NEW s \in Slots, scanouts[s].bo # NoBo
      PROVE  ~m.tab[s].valid
    <2>1. CASE flip_mode = "DISABLED"
        <3>1. m.tab = scanouts
            BY <2>1 DEF SetOneCrtc, Outcome
        <3>. QED
            BY <1>5, <2>1, <3>1 DEF DisabledInvalid
    <2>2. CASE flip_mode # "DISABLED"
        BY <1>0, <1>1, <1>5, <2>2, BlitModeInvalid
    <2>. QED
        BY <2>1, <2>2
<1>6. Cardinality(Starved(m.tab, act, rects)) <= Cardinality(FreeBos)
    <2>1. Cardinality(Starved(scanouts, act, rects)) <= Cardinality(FreeBos)
        BY DEF SetModeMajorReturn
    <2>. HIDE DEF act, rects
    <2>2. ASSUME NEW c
          PROVE  {s \in Slots : m.tab[s].rect = rects[c]} = {s \in Slots : scanouts[s].rect = rects[c]}
        BY <1>4
    <2>3. Starved(m.tab, act, rects) = Starved(scanouts, act, rects)
        BY <2>2 DEF Starved, Taken
    <2>. QED
        BY <2>1, <2>3
<1>7. \A t \in Slots : m.tab[t].bo = NoBo => m.tab[t].rect = NoRect
    BY <1>4 DEF ModeInv, Shape, SlotsFilled
<1>. HIDE DEF act, rects, fails
<1>8. PICK n \in Nat : u.tab = UpdatedTable(m.tab, act, rects, FreeBos, n)
    BY <1>3, UpdateIsTable
<1>9. ASSUME DisabledInvalid, NEW s \in Slots, scanouts'[s].bo # NoBo
      PROVE  ~scanouts'[s].valid
    <2>. DEFINE table == UpdatedTable(m.tab, act, rects, FreeBos, n)
    <2>1. \/ table[s] = EmptySlot
          \/ ~table[s].valid
          \/ \E t \in Slots : /\ m.tab[t].bo = table[s].bo
                              /\ m.tab[t].valid = table[s].valid
        BY <1>3, <1>4, <1>6, <1>7, UpdatedSlot
    <2>. HIDE DEF table
    <2>2. table = scanouts'
        BY <1>2, <1>8 DEF table
    <2>3. CASE \E t \in Slots : /\ m.tab[t].bo = table[s].bo
                                /\ m.tab[t].valid = table[s].valid
        BY <1>4, <1>5, <1>9, <2>2, <2>3
    <2>. QED
        BY <1>9, <2>1, <2>2, <2>3 DEF EmptySlot
<1>. QED
    BY <1>1, <1>9 DEF ModeKept, EnabledValid, DisabledInvalid

\* A flip completes in flip mode, and the slot it gets was valid: it has columns.
LEMMA HandleEventMode ==
    ASSUME ModeInv, Defined, HandleEvent
    PROVE  ModeKept
<1>. DEFINE k == Head(events)[2]
<1>0. TypeInv /\ cmd \in CmdsType /\ scanouts \in TableType /\ bowidth \in WidthType
    BY DEF ModeInv, Shape, Inv, TypeInv
<1>1. /\ Head(events) = events[1] /\ 1 \in DOMAIN events /\ Head(events) \in Crtcs \X CmdIds
    BY <1>0 DEF HandleEvent, TypeInv
<1>2. k \in CmdIds /\ cmd[k] \in CmdType /\ k \in Live
    BY <1>0, <1>1, EventsAreLive DEF ModeInv, Shape, CmdsType, Live
<1>3. /\ flip_mode' = flip_mode
      /\ UNCHANGED scanouts \/ CompleteFlip(k)
    BY DEF HandleEvent, DropFlip
<1>. HIDE DEF k
<1>4. flip_mode = "ENABLED"
    <2>1. Cardinality(Live) # 0 /\ Cardinality(Live) \in Nat
        BY <1>2, LiveFinite, FS_EmptySet
    <2>. QED
        BY <2>1 DEF ModeInv, Shape, Inv, PendingFlipsCounts, FlipsOnlyInFlipMode
<1>5. CASE UNCHANGED scanouts
    BY <1>3, <1>5, SameModeKept DEF ModeInv
<1>6. CASE CompleteFlip(k)
    <2>. DEFINE p   == cmd[k].src
                new == pixBo[p]
                at  == [x |-> cmd[k].x, w |-> bowidth[new]]
                tab == ValidateBo(scanouts, new)
                f   == ScanoutFromSize(tab, at)
    <2>1. scanouts' = ScanoutSet(tab, at, new)
        BY <1>6 DEF CompleteFlip
    <2>2. new \in Bos /\ bowidth[new] > 0
        <3>1. p \in Pixmaps /\ p \in HeldPixmaps(win, cmd)
            BY <1>2 DEF CmdType, HeldPixmaps
        <3>2. new \in Bos
            BY <1>0, <3>1, PixBoType DEF ModeInv, Shape, Backed, BoOrNone
        <3>3. refcnt[new] > 0
            BY <1>0, <3>1, <3>2, HeldIsReferenced DEF PixIds
        <3>. QED
            BY <3>2, <3>3 DEF ModeInv, Shape, Sized
    <2>3. at # NoRect
        BY <2>2 DEF NoRect
    <2>4. tab \in TableType /\ \A s \in Slots : /\ tab[s].bo = scanouts[s].bo
                                                /\ tab[s].rect = scanouts[s].rect
        BY <1>0, ValidateBoType, ValidateKeepsBos
    <2>5. f \in Slots => scanouts[f].bo # NoBo
        <3>1. f \in Slots /\ f # 0 => tab[f].rect = at
            BY LookupFirst
        <3>2. f \in Slots => f # 0
            BY DEF Slots
        <3>. HIDE DEF f, tab, at
        <3>. QED
            BY <2>3, <2>4, <3>1, <3>2 DEF ModeInv, Shape, SlotsFilled
    <2>6. f \in Slots \cup {0}
        BY LookupType
    <2>7. \A s \in Slots : scanouts[s].valid => tab[s].valid
        BY <1>0, <2>4, ValidateKeepsValid
    <2>8. scanouts' = IF f = 0 THEN tab ELSE [tab EXCEPT ![f].bo = new]
        BY <2>1 DEF ScanoutSet
    <2>. HIDE DEF f, tab, at, new
    <2>9. ASSUME NEW s \in Slots, scanouts'[s].bo # NoBo
          PROVE  scanouts'[s].valid
        <3>1. scanouts'[s].valid = tab[s].valid /\ (s # f => scanouts'[s].bo = tab[s].bo)
            BY <2>4, <2>6, <2>8 DEF TableType, SlotType
        <3>2. scanouts[s].bo # NoBo
            BY <2>4, <2>5, <2>9, <3>1
        <3>. QED
            BY <1>4, <2>7, <3>1, <3>2 DEF ModeInv, EnabledValid
    <2>. QED
        BY <1>3, <1>4, <2>9 DEF ModeKept, EnabledValid, DisabledInvalid
<1>. QED
    BY <1>3, <1>5, <1>6

LEMMA StepMode ==
    ASSUME ModeInv, BlitWorks, Next
    PROVE  EnabledValid' /\ (DisabledInvalid /\ ~ScreenInit => DisabledInvalid')
<1>0. Defined /\ TypeInv
    BY DEF Next, ModeInv, Shape, Inv
<1>. USE DEF ModeInv
<1>1. ASSUME QuietAction
      PROVE  ModeKept
    BY <1>0, <1>1, QuietFacts, SameModeKept DEF omapVars
<1>2. ASSUME NEW w \in Windows, Client(w)
      PROVE  ModeKept
    <2>1. CASE GetBuffers(w) \/ DestroyWindow(w)
        BY <2>1, SameModeKept DEF GetBuffers, DestroyWindow, omapVars
    <2>. QED
        BY <1>1, <1>2, <2>1 DEF Client, QuietAction
<1>3. ASSUME NEW w \in Windows, Swap(w)
      PROVE  ModeKept
    <2>1. CASE SwapBlit(w)
        BY <2>1, SameModeKept DEF SwapBlit, omapVars
    <2>. QED
        BY <1>3, <2>1, SwapFlipMode, SwapFlipFallbackMode DEF Swap
<1>4. ASSUME Access
      PROVE  ModeKept
    BY <1>1, <1>4 DEF QuietAction
<1>5. ASSUME Config
      PROVE  ModeKept
    <2>1. CASE CloseScreen \/ \E d \in Widths : Resize(d)
        BY <2>1, SameModeKept DEF CloseScreen, Resize, omapVars
    <2>. QED
        BY <1>1, <1>5, <2>1 DEF Config, QuietAction
<1>6. ASSUME Return, ~ScreenInit
      PROVE  ModeKept
    BY <1>6, SwapBlitReturnMode, SetModeMajorReturnMode, RootWriteReturnMode DEF Return
<1>7. ASSUME ScreenInit
      PROVE  EnabledValid'
    BY <1>7 DEF ScreenInit, EnabledValid
<1>8. ASSUME HandleEvent
      PROVE  ModeKept
    BY <1>0, <1>8, HandleEventMode
<1>9. ASSUME NEW c \in Crtcs, KernelFlip(c)
      PROVE  ModeKept
    BY <1>1, <1>9 DEF QuietAction
<1>10. ModeKept \/ ScreenInit
    BY <1>2, <1>3, <1>4, <1>5, <1>6, <1>8, <1>9 DEF Next
<1>. QED
    BY <1>7, <1>10 DEF ModeKept

\* The first slots are new, hence invalid.
LEMMA InitMode == Init => ModeInv /\ DisabledInvalid
<1>. SUFFICES ASSUME Init
              PROVE  ModeInv /\ DisabledInvalid
    OBVIOUS
<1>. DEFINE tab   == [s \in Slots |-> EmptySlot]
            table == UpdatedTable(tab, Crtcs, InitRect, Bos \ {1}, NumCrtc)
<1>1. Shape /\ flip_mode = "DISABLED"
    BY InitShape DEF Init
<1>2. scanouts = table
    BY DEF Init, InitUpdate, UpdateDone
<1>3. /\ tab \in TableType
      /\ \A t \in Slots : tab[t].bo = NoBo /\ tab[t].rect = NoRect /\ ~tab[t].valid
    BY DEF EmptySlot, TableType, SlotType, NoRect, Rects
<1>4. /\ NumCrtc \in Nat /\ (Bos \ {1}) \in SUBSET Bos /\ Crtcs \in SUBSET Crtcs
      /\ \A c \in Crtcs : InitRect[c] # NoRect
    BY SizeAssumption, DisplayAssumption DEF NoRect
<1>5. Cardinality(Starved(tab, Crtcs, InitRect)) <= Cardinality(Bos \ {1})
    BY InitStarved
<1>. HIDE DEF tab
<1>6. ASSUME NEW s \in Slots
      PROVE  ~scanouts[s].valid
    <2>1. \/ table[s] = EmptySlot
          \/ ~table[s].valid
          \/ \E t \in Slots : tab[t].valid = table[s].valid
        BY <1>3, <1>4, <1>5, UpdatedSlot
    <2>. HIDE DEF table
    <2>. QED
        BY <1>2, <1>3, <2>1 DEF EmptySlot
<1>. QED
    BY <1>1, <1>6 DEF ModeInv, EnabledValid, DisabledInvalid

\* The screen is closed only between two generations of the server.
LEMMA StaysOpen ==
    ASSUME "regenerate" \notin Env, call.op # "close", [Next]_vars
    PROVE  call'.op # "close"
<1>1. ASSUME call' = call
      PROVE  call'.op # "close"
    BY <1>1
<1>2. CASE UNCHANGED vars
    BY <1>2 DEF vars
<1>3. ASSUME NEW w \in Windows, Client(w)
      PROVE  call'.op # "close"
    BY <1>1, <1>3 DEF Client, GetBuffers, Restack, DestroyWindow, Move
<1>4. ASSUME NEW w \in Windows, Swap(w)
      PROVE  call'.op # "close"
    BY <1>1, <1>4 DEF Swap, SwapFlip, SwapFlipFallback, SwapBlit, Idle
<1>5. CASE Access
    BY <1>1, <1>5 DEF Access, RootWrite, RootRead, RootWriteDirect, Idle
<1>6. CASE Config
    <2>1. ASSUME NEW c \in Crtcs, Unplug(c) \/ Disable(c) \/ \E r \in RectChoices : SetModeMajor(c, r)
          PROVE  call'.op # "close"
        BY <1>1, <2>1 DEF Unplug, Disable, SetModeMajor, Idle
    <2>2. ASSUME NEW d \in Widths, Resize(d)
          PROVE  call'.op # "close"
        BY <1>1, <2>2 DEF Resize
    <2>3. ~CloseScreen
        BY DEF CloseScreen
    <2>. QED
        BY <1>6, <2>1, <2>2, <2>3 DEF Config
<1>7. CASE Return
    <2>1. call' = Idle
        BY <1>7 DEF Return, SwapBlitReturn, SetModeMajorReturn, ScreenInit, RootWriteReturn
    <2>. QED
        BY <2>1 DEF Idle
<1>8. CASE HandleEvent
    BY <1>1, <1>8 DEF HandleEvent
<1>9. ASSUME NEW c \in Crtcs, KernelFlip(c)
      PROVE  call'.op # "close"
    BY <1>1, <1>9 DEF KernelFlip
<1>. QED
    BY <1>2, <1>3, <1>4, <1>5, <1>6, <1>7, <1>8, <1>9 DEF Next

LEMMA ModeStep ==
    ASSUME BlitWorks
    PROVE  /\ ModeInv /\ [Next]_vars => ModeInv'
           /\ ModeInv /\ DisabledInvalid /\ call.op # "close" /\ [Next]_vars => DisabledInvalid'
<1>1. ASSUME ModeInv, [Next]_vars
      PROVE  ModeInv' /\ (DisabledInvalid /\ call.op # "close" => DisabledInvalid')
    <2>1. Shape'
        BY <1>1, StepShape DEF ModeInv
    <2>2. CASE Next
        <3>1. ScreenInit => call.op = "close"
            BY DEF ScreenInit
        <3>. QED
            BY <1>1, <2>1, <2>2, <3>1, StepMode DEF ModeInv
    <2>3. CASE UNCHANGED vars
        BY <1>1, <2>1, <2>3, SameModeKept DEF vars, omapVars, ModeInv, ModeKept
    <2>. QED
        BY <1>1, <2>2, <2>3
<1>. QED
    BY <1>1

\* A command is freed when its last event is handled, and that is in flip mode.
LEMMA FreedInFlipMode ==
    ASSUME Inv, Next, NEW k \in CmdIds, cmd[k] # FreeCmd, cmd'[k] = FreeCmd
    PROVE  flip_mode' = "ENABLED"
<1>0. TypeInv
    BY DEF Inv
<1>1. flip_mode = "ENABLED"
    <2>1. k \in Live
        BY DEF Live
    <2>2. Cardinality(Live) # 0 /\ Cardinality(Live) \in Nat
        BY <2>1, LiveFinite, FS_EmptySet
    <2>. QED
        BY <2>2 DEF Inv, PendingFlipsCounts, FlipsOnlyInFlipMode
<1>2. cmd' # cmd
    OBVIOUS
<1>3. ~QuietAction
    BY <1>0, <1>2, QuietFacts
<1>4. ASSUME NEW w \in Windows
      PROVE  ~Client(w)
    BY <1>2, <1>3 DEF Client, GetBuffers, DestroyWindow, flipVars, QuietAction
<1>5. ASSUME NEW w \in Windows
      PROVE  ~Swap(w) \/ SwapFlip(w)
    BY <1>2 DEF Swap, SwapFlipFallback, SwapBlit, flipVars
<1>6. ~Access /\ ~Config
    BY <1>2, <1>3 DEF QuietAction, Config, Resize, CloseScreen, flipVars
<1>7. ~Return
    BY <1>2 DEF Return, SwapBlitReturn, SetModeMajorReturn, ScreenInit, RootWriteReturn, flipVars
<1>8. ASSUME NEW c \in Crtcs
      PROVE  ~KernelFlip(c)
    BY <1>3 DEF QuietAction
<1>9. CASE HandleEvent
    BY <1>1, <1>9 DEF HandleEvent
<1>10. ASSUME NEW w \in Windows, SwapFlip(w)
       PROVE  flip_mode' = "ENABLED"
    BY <1>10 DEF SwapFlip
<1>. QED
    BY <1>4, <1>5, <1>6, <1>7, <1>8, <1>9, <1>10 DEF Next

\* Slots are valid in flip mode and invalid in blit mode, if the ways back to
\* blit mode do not fail and the server does not start a new generation (the
\* table of slots survives the generation with the flags of flip mode).
THEOREM ModeMakesValid ==
    ASSUME BlitWorks, "regenerate" \notin Env
    PROVE  Spec => []ValidFollowsMode
<1>. DEFINE OpenInv == ModeInv /\ DisabledInvalid /\ call.op # "close"
<1>1. Init => OpenInv
    BY InitMode, IdleType DEF Init
<1>2. OpenInv /\ [Next]_vars => OpenInv'
    <2>. SUFFICES ASSUME OpenInv, [Next]_vars
                  PROVE  OpenInv'
        OBVIOUS
    <2>. QED
        BY ModeStep, StaysOpen
<1>3. OpenInv => ValidFollowsMode
    BY DEF ModeInv, EnabledValid, DisabledInvalid, ValidFollowsMode, Shape, Inv, TypeInv, TableType,
           SlotType
<1>. QED
    BY <1>1, <1>2, <1>3, PTL DEF Spec

\* A completed flip leaves the slot it shows valid, if the ways back to blit mode
\* do not fail.
THEOREM FlipsValidate ==
    ASSUME BlitWorks
    PROVE  Spec => FlipValidates
<1>1. Init => ModeInv
    BY InitMode
<1>2. ModeInv /\ [Next]_vars => ModeInv'
    BY ModeStep
<1>. DEFINE Validates ==
                \A k \in CmdIds : cmd[k] # FreeCmd /\ Answers(k) /\ cmd'[k] = FreeCmd =>
                    \A s \in Slots : scanouts'[s].bo # NoBo /\ scanouts'[s].bo = pixBo'[Root]
                                       => scanouts'[s].valid
<1>3. ModeInv /\ [Next]_vars => [Validates]_vars
    <2>. SUFFICES ASSUME ModeInv, Next, NEW k \in CmdIds, cmd[k] # FreeCmd, cmd'[k] = FreeCmd,
                         NEW s \in Slots, scanouts'[s].bo # NoBo
                  PROVE  scanouts'[s].valid
        OBVIOUS
    <2>1. flip_mode' = "ENABLED"
        BY FreedInFlipMode DEF ModeInv, Shape
    <2>2. EnabledValid'
        BY <1>2 DEF ModeInv
    <2>. QED
        BY <2>1, <2>2 DEF EnabledValid
<1>. QED
    BY <1>1, <1>2, <1>3, PTL DEF Spec, FlipValidates
=============================================================================
