------------------------------ MODULE Display ------------------------------
(***************************************************************************)
(* The driver at work: DRI2 swaps that flip or blit, their completion by   *)
(* page flip events, 2-D access to the screen pixmap, mode sets, resizes   *)
(* and server regeneration.                                                *)
(*                                                                         *)
(* The server is one thread, so a handler is one action, except where it   *)
(* calls drmmode_set_blit_mode (or closes the screen): that waits for the  *)
(* pending flips and runs their event handlers in the middle of the call.  *)
(* Such a handler is two actions, up to the wait (it sets call) and from   *)
(* the wait on; in between only the kernel and HandleEvent act.            *)
(***************************************************************************)
EXTENDS DisplayState

Overlap(r, t) == Cols(r) \cap Cols(t) # {}

\* The screen is as wide as the CRTCs need.
InitWidth ==
    LET right == [c \in Crtcs |-> InitRect[c].x + InitRect[c].w]
    IN  right[CHOOSE c \in Crtcs : \A d \in Crtcs : right[d] <= right[c]]

\* The modes of the first drmmode_set_mode_major calls; bo 1 is the root bo.
InitUpdate == UpdateDone([s \in Slots |-> EmptySlot], Crtcs, InitRect, Bos \ {1},
                         [b \in Bos |-> IF b = 1 THEN 2 ELSE 0])

\* The windows cover a CRTC each, the first ones on top.
InitPlace(w) == InitRect[((w - 1) % NumCrtc) + 1]
InitWindow(w) ==
    [alive |-> TRUE, rect |-> InitPlace(w), back |-> NoPix,
     clipped |-> \E v \in 1..(w - 1) : Overlap(InitPlace(v), InitPlace(w)),
     canflip |-> -1, stale |-> FALSE, pending |-> 0]

Init ==
    /\ flip_mode = "DISABLED"
    /\ scanout = 1
    /\ scanouts = InitUpdate.tab
    /\ pending_flips = 0
    /\ has_resized = FALSE
    /\ refcnt = InitUpdate.rc
    /\ bowidth = [b \in Bos |-> IF b = 1 THEN InitWidth
                                ELSE IF b <= NumCrtc + 1 THEN InitRect[b - 1].w ELSE 0]
    /\ pixBo = [p \in Pixmaps \cup {Root} |-> IF p = Root THEN 1 ELSE NoBo]
    /\ win = [w \in Windows |-> InitWindow(w)]
    /\ cmd = [k \in CmdIds |-> FreeCmd]
    /\ crtc = [c \in Crtcs |-> [rect |-> InitRect[c], enabled |-> TRUE, connected |-> TRUE]]
    /\ crtcFb = [c \in Crtcs |-> 1]
    /\ kflip = [c \in Crtcs |-> NoCmd]
    /\ events = <<>>
    /\ call = Idle
    /\ current = [b \in Bos |-> IF b = 1 THEN RootCols ELSE {}]

-----------------------------------------------------------------------------
(* DRI2 buffers and the windows of the clients.                            *)

\* The core asks for buffers of a window that has none, or whose buffers have
\* another serial number or size; a client that waits for a swap is throttled.
GetBuffers(w) ==
    /\ call = Idle
    /\ win[w].alive /\ win[w].pending = 0
    /\ win[w].back # NoPix /\ ~win[w].stale => bowidth[pixBo[win[w].back]] # win[w].rect.w
    /\ FreeBos # {}
    /\ \E p \in Nth(Pixmaps \ HeldPixmaps(win, cmd), 1), b \in Nth(FreeBos, 1) :
         LET v   == [win EXCEPT ![w] = [@ EXCEPT !.back = p, !.canflip = -1, !.stale = FALSE]]
             pix == [pixBo EXCEPT ![p] = b]
         IN  /\ win' = v
             /\ pixBo' = DropPixmaps(v, cmd, pix)
             /\ Commit(DropRefs([refcnt EXCEPT ![b] = 1], v, cmd, pix),
                       [bowidth EXCEPT ![b] = win[w].rect.w], crtcFb, current)
    /\ UNCHANGED <<omapVars, flipVars, crtc, call>>

\* Window w comes to the top: it is unclipped and covers what it overlaps.
OnTop(w, r) == [v \in Windows |->
    IF v = w THEN [win[v] EXCEPT !.rect = r, !.clipped = FALSE]
    ELSE IF win[v].alive /\ Overlap(win[v].rect, r) THEN [win[v] EXCEPT !.clipped = TRUE]
    ELSE win[v]]

Restack(w) ==
    /\ "stack" \in Env
    /\ call = Idle /\ win[w].alive
    /\ \/ win[w].clipped /\ win' = OnTop(w, win[w].rect)
       \/ ~win[w].clipped /\ win' = [win EXCEPT ![w].clipped = TRUE]
    /\ UNCHANGED <<omapVars, flipVars, boVars, pixBo, crtc, call>>

Move(w, r) ==
    /\ "move" \in Env
    /\ call = Idle /\ win[w].alive
    /\ r # win[w].rect
    /\ win' = OnTop(w, r)
    /\ UNCHANGED <<omapVars, flipVars, boVars, pixBo, crtc, call>>

DeadWindow(w) == [win[w] EXCEPT !.alive = FALSE, !.clipped = TRUE, !.back = NoPix,
                                !.canflip = -1, !.stale = FALSE, !.pending = 0]

\* The window goes and with it its buffers; a swap command that still refers to
\* the back pixmap keeps that alive.
DestroyWindow(w) ==
    /\ "destroy" \in Env /\ (win[w].pending = 0 \/ "destroy_pending" \in Env)
    /\ call = Idle /\ win[w].alive
    /\ LET v == [win EXCEPT ![w] = DeadWindow(w)]
       IN  /\ win' = v
           /\ pixBo' = DropPixmaps(v, cmd, pixBo)
           /\ Commit(DropRefs(refcnt, v, cmd, pixBo), bowidth, crtcFb, current)
    /\ UNCHANGED <<omapVars, flipVars, crtc, call>>

-----------------------------------------------------------------------------
(* OMAPDRI2ScheduleSwap.                                                   *)

CanFlip(w) == /\ ~win[w].clipped
              /\ bowidth[pixBo[win[w].back]] = win[w].rect.w
              /\ ScanoutFromSize(scanouts, win[w].rect) # 0

\* The core throttles a client to one swap; the last two conjuncts are bounds.
SwapReady(w) ==
    /\ call = Idle
    /\ win[w].alive /\ win[w].back # NoPix /\ win[w].pending = 0
    /\ Live # CmdIds
    /\ "overlap" \in Env \/ pending_flips = 0

\* previous_canflip, and the new serial number of the screen pixmap, which makes
\* the buffers of every window stale.
Remember(w, flip, pending) ==
    LET now  == IF flip THEN 1 ELSE 0
        bump == has_resized \/ win[w].canflip \notin {-1, now}
    IN  [v \in Windows |->
           IF v = w THEN [win[v] EXCEPT !.stale = @ \/ bump, !.canflip = now, !.pending = pending]
           ELSE [win[v] EXCEPT !.stale = @ \/ (bump /\ win[v].back # NoPix)]]

\* drmmode_page_flip, on CRTCs that scan out fb: it goes through the CRTCs that
\* match the window and stops at the first flip the kernel refuses, which it
\* does while one is pending and when the CRTC is off.
Matching(w) == {c \in Crtcs : /\ crtc[c].enabled /\ crtc[c].connected
                              /\ crtc[c].rect = win[w].rect}
PageFlip(w, fb) ==
    LET busy      == {c \in Matching(w) : kflip[c] # NoCmd \/ fb[c] = NoBo}
        before(c) == {d \in Matching(w) : d < c}
        stops     == IF "page_flip" \in Faults THEN Matching(w) ELSE busy
    IN  {[ret |-> FALSE, flipped |-> before(c)] : c \in {d \in stops : before(d) \cap busy = {}}}
        \cup (IF busy = {} THEN {[ret |-> TRUE, flipped |-> Matching(w)]} ELSE {})

\* Mutants: source and destination changed places; the refused flip is counted.
NewCmdSwapped(w, p) ==
    [win |-> w, src |-> Root, x |-> win[w].rect.x,
     swapCount |-> Cardinality(p.flipped), fail |-> ~p.ret]
NewCmdMiscounted(w, p) ==
    [win |-> w, src |-> win[w].back, x |-> win[w].rect.x,
     swapCount |-> Cardinality(p.flipped) + (IF p.ret THEN 0 ELSE 1), fail |-> ~p.ret]

\* The command of a swap that flips: each CRTC that flips sends an event.
NewCmd(w, p) ==
    [win |-> w, src |-> win[w].back, x |-> win[w].rect.x,
     swapCount |-> Cardinality(p.flipped), fail |-> ~p.ret]

\* The flip of some CRTCs is on its way.  If that of another one was refused the
\* swap fails, but the command stays until its events have arrived.
FlipQueued(w, p) ==
    \E k \in Nth(CmdIds \ Live, 1) :
        /\ pending_flips' = pending_flips + 1
        /\ cmd' = [cmd EXCEPT ![k] = NewCmd(w, p)]
        /\ kflip' = [c \in Crtcs |-> IF c \in p.flipped THEN k ELSE kflip[c]]
        /\ win' = Remember(w, TRUE, IF p.ret THEN 1 ELSE 0)
        /\ UNCHANGED events

\* Mutant: the command that is freed at once stays in pending_flips.
FlipNotQueuedPending(w) ==
    /\ win' = Remember(w, TRUE, 0)
    /\ pending_flips' = pending_flips + 1
    /\ UNCHANGED <<cmd, kflip, events>>

\* No CRTC flips: OMAPDRI2SwapComplete runs at once, with OMAP_SWAP_FAKE_FLIP,
\* or with OMAP_SWAP_FAIL after an error.
FlipNotQueued(w) ==
    /\ win' = Remember(w, TRUE, 0)
    /\ UNCHANGED flipVars

\* For flips, validate the per-crtc scanout: the first slot with this bo.
ValidateBo(tab, b) ==
    LET same == {s \in Slots : tab[s].bo = b}
    IN  [s \in Slots |-> IF s \in Nth(same, 1) THEN [tab[s] EXCEPT !.valid = TRUE] ELSE tab[s]]

\* OMAPDRI2CopyRegion: CopyArea draws the whole window, as far as it is visible.
RegionCopied(w, img) ==
    Drawn(img, scanout, Cols(win[w].rect) \cap RootCols, ~win[w].clipped)

\* The blit: CopyRegion draws into the screen pixmap, whose PrepareAccess (in
\* blit mode by now) backs it by the root bo, and SwapComplete for a blit
\* invalidates every slot.
BlitToFront(w, rc, m) ==
    LET old == pixBo[Root]
        cnt == IF old = scanout THEN rc ELSE Unreference(Reference(rc, scanout), old)
    IN  /\ pixBo' = [pixBo EXCEPT ![Root] = scanout]
        /\ Commit(cnt, bowidth, m.fb, RegionCopied(w, m.img))
        /\ scanouts' = [s \in Slots |-> [m.tab[s] EXCEPT !.valid = FALSE]]
        /\ has_resized' = FALSE

\* canflip and not has_resized: the screen pixmap gets the bo of the slot.
SwapFlip(w) ==
    /\ SwapReady(w) /\ CanFlip(w) /\ ~has_resized
    /\ \E m \in SetFlipMode :
         LET b  == scanouts[ScanoutFromSize(scanouts, win[w].rect)].bo
             rc == Unreference(Reference(refcnt, b), pixBo[Root])
             fb == Shown(rc, m.fb)
         IN  /\ m.ret
             /\ \E p \in PageFlip(w, fb) :
                  /\ Commit(rc, bowidth, [c \in Crtcs |-> IF c \in p.flipped THEN pixBo[win[w].back]
                                                          ELSE fb[c]], m.img)
                  /\ scanouts' = IF p.ret /\ p.flipped = {} THEN ValidateBo(m.tab, b) ELSE m.tab
                  /\ \/ p.flipped # {} /\ FlipQueued(w, p)
                     \/ p.flipped = {} /\ FlipNotQueued(w)
             /\ pixBo' = [pixBo EXCEPT ![Root] = b]
             /\ flip_mode' = "ENABLED"
    /\ UNCHANGED <<scanout, has_resized, crtc, call>>

\* The same, but flip mode cannot be set: the front buffer is put back and the
\* swap falls through to the blit.
SwapFlipFallback(w) ==
    /\ SwapReady(w) /\ CanFlip(w) /\ ~has_resized
    /\ \E m \in SetFlipMode : ~m.ret /\ BlitToFront(w, refcnt, m)
    /\ win' = Remember(w, FALSE, 0)
    /\ UNCHANGED <<flip_mode, scanout, flipVars, crtc, call>>

\* Otherwise the screen pixmap gets the root bo, and then blit mode is set.
SwapBlit(w) ==
    /\ SwapReady(w) /\ ~(CanFlip(w) /\ ~has_resized)
    /\ pixBo' = [pixBo EXCEPT ![Root] = scanout]
    /\ refcnt' = Reference(refcnt, scanout)
    /\ call' = [Idle EXCEPT !.op = "swap", !.win = w, !.old = pixBo[Root], !.canflip = CanFlip(w)]
    /\ UNCHANGED <<omapVars, flipVars, bowidth, win, crtc, crtcFb, current>>

NoWait == TRUE                                     \* mutant: nobody waits

\* drmmode_set_blit_mode waits only when it has something to do;
\* OMAPDRI2CloseScreen always waits.
WaitOver == \/ pending_flips = 0
            \/ flip_mode = "DISABLED" /\ call.op # "close"

SwapBlitReturn ==
    /\ call.op = "swap" /\ WaitOver
    /\ \E m \in SetBlitMode :
         \/ /\ m.ret
            /\ BlitToFront(call.win, Unreference(refcnt, call.old), m)
            /\ flip_mode' = "DISABLED"
            /\ win' = Remember(call.win, call.canflip, 0)
         \/ /\ ~m.ret
            /\ Commit(Unreference(refcnt, scanout), bowidth, m.fb, m.img)
            /\ scanouts' = m.tab
            /\ UNCHANGED <<flip_mode, has_resized, pixBo, win>>
    /\ call' = Idle
    /\ UNCHANGED <<scanout, flipVars, crtc>>

-----------------------------------------------------------------------------
(* The kernel completes a flip and queues its event; drmHandleEvent takes  *)
(* the first event of the queue and runs OMAPDRI2SwapComplete.             *)

KernelFlip(c) ==
    /\ kflip[c] # NoCmd
    /\ events' = Append(events, <<c, kflip[c]>>)
    /\ kflip' = [kflip EXCEPT ![c] = NoCmd]
    /\ UNCHANGED <<omapVars, boVars, pending_flips, cmd, pixBo, win, crtc, call>>

\* The end of OMAPDRI2SwapComplete: the references to the pixmaps are dropped.
CompleteCmd(k, pix, rc, img) ==
    LET c == [cmd EXCEPT ![k] = FreeCmd]
    IN  /\ cmd' = c
        /\ pending_flips' = pending_flips - 1
        /\ pixBo' = DropPixmaps(win, c, pix)
        /\ Commit(DropRefs(rc, win, c, pix), bowidth, crtcFb, img)

ExchangedHalf(pix, p) == [pix EXCEPT ![Root] = pix[p]]   \* mutant: a = b; b = a

\* OMAPPixmapExchange of a back buffer and the screen pixmap.
Exchanged(pix, p) == [pix EXCEPT ![Root] = pix[p], ![p] = pix[Root]]

\* The buffers of the back and the screen pixmap change places, and the slot at
\* the place of the flip scans out the flipped bo.
CompleteFlip(k) ==
    LET new == pixBo[cmd[k].src]
        pix == Exchanged(pixBo, cmd[k].src)
        at  == [x |-> cmd[k].x, w |-> bowidth[new]]
        tab == ValidateBo(scanouts, new)
    IN  /\ scanouts' = ScanoutSet(tab, at, new)
        /\ win' = [win EXCEPT ![cmd[k].win].pending = 0]
        /\ CompleteCmd(k, pix, ScanoutSetRefs(refcnt, tab, at, new),
                       Drawn(current, new, Cols(at), TRUE))

\* After a failed swap, or when the window is gone, nothing is exchanged.
DropFlip(k) ==
    /\ CompleteCmd(k, pixBo, refcnt, current)
    /\ UNCHANGED <<scanouts, win>>

AnswersFailed(k) == win[cmd[k].win].alive          \* mutant: fail is not looked at
Answers(k) == ~cmd[k].fail /\ win[cmd[k].win].alive

ReadsEventsIdle == call = Idle                     \* mutant: the wait reads none

\* Events are read by the server's main loop and by the loop that waits.
ReadsEvents == call = Idle \/ ~WaitOver

HandleEvent ==
    /\ events # <<>>
    /\ ReadsEvents
    /\ LET k == Head(events)[2]
       IN  \/ /\ cmd[k].swapCount > 1
              /\ cmd' = [cmd EXCEPT ![k].swapCount = @ - 1]
              /\ UNCHANGED <<scanouts, boVars, pending_flips, pixBo, win>>
           \/ cmd[k].swapCount <= 1 /\ Answers(k) /\ CompleteFlip(k)
           \/ cmd[k].swapCount <= 1 /\ ~Answers(k) /\ DropFlip(k)
    /\ events' = Tail(events)
    /\ UNCHANGED <<flip_mode, scanout, has_resized, kflip, crtc, call>>

-----------------------------------------------------------------------------
(* OMAPPrepareAccess on the screen pixmap, and the drawing that follows.   *)

RootWriteDirect(x) ==
    /\ call = Idle
    /\ pixBo[Root] = scanout
    /\ current' = Drawn(current, scanout, {x}, FALSE)
    /\ UNCHANGED <<omapVars, flipVars, refcnt, bowidth, pixBo, win, crtc, crtcFb, call>>

RootWrite ==
    /\ call = Idle
    /\ pixBo[Root] # scanout
    /\ call' = [Idle EXCEPT !.op = "write"]
    /\ UNCHANGED <<omapVars, flipVars, boVars, pixBo, win, crtc>>

RootWriteReturn(x) ==
    /\ call.op = "write" /\ WaitOver
    /\ \E m \in SetBlitMode :
         /\ scanouts' = m.tab
         /\ \/ /\ m.ret
               /\ flip_mode' = "DISABLED"
               /\ pixBo' = [pixBo EXCEPT ![Root] = scanout]
               /\ Commit(Unreference(Reference(refcnt, scanout), pixBo[Root]), bowidth, m.fb,
                         Drawn(m.img, scanout, {x}, FALSE))
            \/ /\ ~m.ret
               /\ Commit(refcnt, bowidth, m.fb, m.img)
               /\ UNCHANGED <<flip_mode, pixBo>>
    /\ call' = Idle
    /\ UNCHANGED <<scanout, has_resized, flipVars, win, crtc>>

\* A read gets the bo of the screen pixmap if that has the size of the screen;
\* else the root bo, brought up to date from the slots in flip mode.
FullSizeAny == pixBo[Root] # NoBo                  \* mutant: any bo is good enough
FullSize == bowidth[pixBo[Root]] = bowidth[scanout]
ReadsRootBo == pixBo[Root] = scanout \/ ~FullSize
UpdatesRootBo == pixBo[Root] # scanout /\ ~FullSize /\ flip_mode # "DISABLED"

RootRead ==
    /\ call = Idle
    /\ UpdatesRootBo
    /\ \E n \in {MaxScanouts} \cup
               {s - 1 : s \in {t \in Slots : "read_copy" \in Faults /\ Filled(t) /\ scanouts[t].valid}} :
         current' = CopiedToRoot(n)
    /\ UNCHANGED <<omapVars, flipVars, refcnt, bowidth, pixBo, win, crtc, crtcFb, call>>

-----------------------------------------------------------------------------
(* Outputs, modes and the size of the screen.                              *)

Unplug(c) ==
    /\ "unplug" \in Env
    /\ call = Idle
    /\ crtc' = [crtc EXCEPT ![c].connected = ~@]
    /\ UNCHANGED <<omapVars, flipVars, boVars, pixBo, win, call>>

\* The server disables a CRTC by its dpms function, which does nothing.
Disable(c) ==
    /\ "disable" \in Env
    /\ call = Idle /\ crtc[c].enabled
    /\ crtc' = [crtc EXCEPT ![c].enabled = FALSE]
    /\ UNCHANGED <<omapVars, flipVars, boVars, pixBo, win, call>>

Fits(r, width) == r.x + r.w <= width

\* The server stores the new mode in the CRTC before it calls
\* drmmode_set_mode_major, and puts the old one back if that fails.
SetModeMajor(c, r) ==
    /\ "modeset" \in Env
    /\ call = Idle
    /\ Fits(r, bowidth[scanout])
    /\ "clone" \in Env \/ \A d \in Active(crtc) \ {c} : ~Overlap(crtc[d].rect, r)
    /\ crtc' = [crtc EXCEPT ![c].rect = r, ![c].enabled = TRUE]
    /\ call' = [Idle EXCEPT !.op = "modeset", !.crtc = c, !.rect = crtc[c].rect]
    /\ UNCHANGED <<omapVars, flipVars, boVars, pixBo, win>>

\* The widths of the bos that got allocated for the slots of tab.
SlotWidths(width, tab) ==
    [b \in Bos |-> LET at == {s \in Slots : refcnt[b] = 0 /\ tab[s].bo = b}
                   IN  IF at = {} THEN width[b] ELSE tab[The(at)].rect.w]

\* In blit mode only this CRTC is set, else blit mode is.
SetOneCrtc(c) ==
    {Outcome(TRUE, scanouts, current, [crtcFb EXCEPT ![c] = scanout])}
    \cup (IF "blit_crtc" \in Faults THEN {Outcome(FALSE, scanouts, current, crtcFb)} ELSE {})

SetModeMajorReturn ==
    LET c        == call.crtc
        restored == [crtc EXCEPT ![c].rect = call.rect]
        act      == Active(crtc)
    IN  /\ call.op = "modeset" /\ WaitOver
        /\ Cardinality(Starved(scanouts, act, CrtcRects(crtc))) <= Cardinality(FreeBos)
        /\ \E m \in (IF flip_mode = "DISABLED" THEN SetOneCrtc(c) ELSE SetBlitMode) :
             \/ /\ ~m.ret
                /\ crtc' = restored
                /\ scanouts' = m.tab
                /\ Commit(refcnt, bowidth, m.fb, m.img)
                /\ UNCHANGED <<flip_mode, has_resized>>
             \/ /\ m.ret
                /\ flip_mode' = "DISABLED"
                /\ \E u \in UpdateScanouts(m.tab, act, CrtcRects(crtc), FreeBos, refcnt,
                                           "alloc" \in Faults) :
                     /\ scanouts' = u.tab
                     /\ has_resized' = (has_resized \/ u.resized)
                     /\ Commit(u.rc, SlotWidths(bowidth, u.tab), m.fb, m.img)
                     /\ crtc' = IF u.ret THEN crtc ELSE restored
        /\ call' = Idle
        /\ UNCHANGED <<scanout, flipVars, pixBo, win>>

\* OMAPModifyPixmapHeader when its data pointer is that of the root bo b: the
\* screen pixmap is backed by it.
RootBacked(rc, b) == Unreference(Reference(rc, b), pixBo[Root])

\* drmmode_xf86crtc_resize: a new root bo unless the size is the same, and the
\* screen pixmap is backed by the root bo.  The server repaints the screen.
Resize(d) ==
    LET same == d = bowidth[scanout]
    IN  /\ "resize" \in Env /\ (flip_mode = "DISABLED" \/ "resize_flip" \in Env)
        /\ call = Idle
        /\ \A c \in Active(crtc) : Fits(crtc[c].rect, d)
        /\ \E new \in (IF same THEN {scanout} ELSE Nth(FreeBos, 1)) :
             LET rc == IF same THEN refcnt
                       ELSE Unreference([refcnt EXCEPT ![new] = 1], scanout)
             IN  /\ scanout' = new
                 /\ pixBo' = [pixBo EXCEPT ![Root] = new]
                 /\ Commit(RootBacked(rc, new), [bowidth EXCEPT ![new] = d], crtcFb,
                           [b \in Bos |-> IF b = new THEN 0..(d - 1) ELSE {}])
        /\ has_resized' = (has_resized \/ ~same)
        /\ UNCHANGED <<flip_mode, scanouts, flipVars, win, crtc, call>>

-----------------------------------------------------------------------------
(* OMAPCloseScreen at the end of a server generation, when the clients are *)
(* gone, and OMAPScreenInit of the next.  The scanout table survives.      *)

CloseScreen ==
    /\ "regenerate" \in Env
    /\ call = Idle
    /\ LET v == [w \in Windows |-> DeadWindow(w)]
       IN  /\ win' = v
           /\ pixBo' = DropPixmaps(v, cmd, pixBo)
           /\ Commit(DropRefs(refcnt, v, cmd, pixBo), bowidth, crtcFb, current)
    /\ call' = [Idle EXCEPT !.op = "close"]
    /\ UNCHANGED <<omapVars, flipVars, crtc>>

\* OMAPUnmapMem drops the root bo, OMAPMapMem makes the next; the screen pixmap
\* has a reference to either.
RootReplaced(b) == Unreference(Unreference([refcnt EXCEPT ![b] = 2], scanout), pixBo[Root])

\* The root bo and the screen pixmap of the old generation go; a new root bo is
\* shown on every enabled CRTC by drmmode_set_mode_major, in blit mode.
ScreenInit ==
    LET act == Active(crtc)
    IN  /\ call.op = "close" /\ WaitOver
        /\ Cardinality(Starved(scanouts, act, CrtcRects(crtc))) < Cardinality(FreeBos)
        /\ \E new \in Nth(FreeBos, 1) :
             LET rc == RootReplaced(new)
                 u  == UpdateDone(scanouts, act, CrtcRects(crtc), FreeBos \ {new}, rc)
             IN  /\ scanout' = new
                 /\ pixBo' = [pixBo EXCEPT ![Root] = new]
                 /\ scanouts' = u.tab
                 /\ has_resized' = (has_resized \/ u.resized)
                 /\ Commit(u.rc, SlotWidths([bowidth EXCEPT ![new] = bowidth[scanout]], u.tab),
                           [c \in Crtcs |-> IF c \in act THEN new ELSE crtcFb[c]],
                           [b \in Bos |-> IF b = new THEN RootCols ELSE {}])
        /\ flip_mode' = "DISABLED"
        /\ win' = [w \in Windows |-> [win[w] EXCEPT !.alive = TRUE]]
        /\ call' = Idle
        /\ UNCHANGED <<flipVars, crtc>>

-----------------------------------------------------------------------------
Swap(w)  == SwapFlip(w) \/ SwapFlipFallback(w) \/ SwapBlit(w)
Return   == \/ SwapBlitReturn \/ SetModeMajorReturn \/ ScreenInit
            \/ \E x \in RootCols : RootWriteReturn(x)
Client(w) == GetBuffers(w) \/ Restack(w) \/ DestroyWindow(w) \/ \E r \in RectChoices : Move(w, r)
Access   == RootWrite \/ RootRead \/ \E x \in RootCols : RootWriteDirect(x)
Config   == \/ \E c \in Crtcs : Unplug(c) \/ Disable(c) \/ \E r \in RectChoices : SetModeMajor(c, r)
            \/ \E d \in Widths : Resize(d)
            \/ CloseScreen

Next == /\ Defined
        /\ \/ \E w \in Windows : Client(w) \/ Swap(w)
           \/ Access \/ Config \/ Return
           \/ HandleEvent
           \/ \E c \in Crtcs : KernelFlip(c)

\* The hardware completes flips; the server's main loop, or the wait, reads the
\* events; a wait that is over lets its handler go on.
Fairness == /\ WF_vars(HandleEvent)
            /\ WF_vars(Return)
            /\ \A c \in Crtcs : WF_vars(KernelFlip(c))

Spec == Init /\ [][Next]_vars /\ Fairness
=============================================================================
