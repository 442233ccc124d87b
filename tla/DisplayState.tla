---------------------------- MODULE DisplayState ----------------------------
(***************************************************************************)
(* The state the driver keeps about what is on the screen, with the part   *)
(* of the X server and of the kernel it depends on, and the two functions  *)
(* that switch between showing the root buffer on every CRTC (blit mode)   *)
(* and one buffer per CRTC (flip mode): drmmode_set_blit_mode and          *)
(* drmmode_set_flip_mode.  Display.tla has the actions.                    *)
(***************************************************************************)
EXTENDS Scanouts, Sequences

CONSTANTS NumWindow,    \* DRI2 windows (none of them redirected)
          NumPixmap,    \* bound: back buffer pixmaps that can exist at once
          NumCmd,       \* bound: OMAPDRISwapCmds that can be in flight
          InitRect,     \* the mode and position each CRTC starts with
          RectChoices,  \* the modes and positions it may be given
          Widths,       \* the widths the screen may be resized to
          Env,          \* what the clients, the user and the server may do
          Faults        \* which calls to the kernel may fail

EnvKinds   == {"stack", "move", "destroy", "destroy_pending", "overlap", "disable",
               "unplug", "modeset", "clone", "resize", "resize_flip", "regenerate"}
FaultKinds == {"blit_copy", "blit_crtc", "flip_copy", "flip_crtc", "read_copy",
               "page_flip", "alloc"}

ASSUME DisplayAssumption ==
    /\ NumWindow \in Nat /\ NumPixmap \in Nat /\ NumCmd \in Nat
    /\ RectChoices \subseteq {r \in Rects : r.w > 0}
    /\ InitRect \in [Crtcs -> RectChoices]
    /\ Widths \subseteq Nat \ {0}
    /\ Env \subseteq EnvKinds /\ Faults \subseteq FaultKinds
    /\ NumCrtc <= MaxScanouts /\ NumCrtc < NumBo

Windows == 1..NumWindow
Pixmaps == 1..NumPixmap
Root    == 0              \* the screen pixmap, shared by all these windows
NoPix   == -1
CmdIds  == 1..NumCmd
NoCmd   == 0

VARIABLES
    (* OMAPRec *)
    flip_mode, scanout, scanouts, pending_flips, has_resized,
    (* struct omap_bo: reference count and width *)
    refcnt, bowidth,
    (* OMAPPixmapPriv.bo of the screen pixmap and of the back buffers *)
    pixBo,
    (* the server's windows, the driver's swap commands *)
    win, cmd,
    (* xf86CrtcRec; what the kernel scans out, flips it owes, events it queued *)
    crtc, crtcFb, kflip, events,
    (* the call that is waiting for flips to complete, if one is *)
    call,
    (* history: the columns of which a bo holds the latest image *)
    current

omapVars == <<flip_mode, scanout, scanouts, has_resized>>
flipVars == <<pending_flips, cmd, kflip, events>>
boVars   == <<refcnt, bowidth, crtcFb, current>>     \* what Commit determines
vars     == <<omapVars, flipVars, boVars, pixBo, win, crtc, call>>

WinType  == [alive : BOOLEAN, clipped : BOOLEAN, rect : RectChoices,
             back : Pixmaps \cup {NoPix},     \* OMAPDRI2BufferRec.pPixmap
             canflip : {-1, 0, 1},            \* previous_canflip
             stale : BOOLEAN,                 \* serialNumber was bumped
             pending : {0, 1}]                \* swapsPending of the DRI2 core
CmdType  == [win : Windows, src : Pixmaps, x : Nat, swapCount : Nat, fail : BOOLEAN]
FreeCmd  == [win |-> 0, src |-> NoPix, x |-> 0, swapCount |-> 0, fail |-> FALSE]
CrtcType == [rect : RectChoices, enabled : BOOLEAN, connected : BOOLEAN]
CallType == [op : {"idle", "swap", "write", "modeset", "close"},
             win : Windows \cup {0}, old : Bos \cup {NoBo}, canflip : BOOLEAN,
             crtc : Crtcs \cup {0}, rect : Rects]
Idle     == [op |-> "idle", win |-> 0, old |-> NoBo, canflip |-> FALSE,
             crtc |-> 0, rect |-> NoRect]

RootCols == Cols([x |-> 0, w |-> bowidth[scanout]])
Live     == {k \in CmdIds : cmd[k] # FreeCmd}
FreeBos  == {b \in Bos : refcnt[b] = 0}
\* A pixmap lives while a DRI2 buffer or a swap command refers to it.
HeldPixmaps(w, c) == {w[v].back : v \in Windows} \cup {c[k].src : k \in CmdIds}
Active(c)  == {i \in Crtcs : c[i].enabled}
CrtcRects(c) == [i \in Crtcs |-> c[i].rect]

-----------------------------------------------------------------------------
(* The reference counts rc, the widths, the scanned out bos fb and the     *)
(* contents img after a call.  A bo whose count reached 0 is deleted: its  *)
(* framebuffer is removed, and the kernel turns off a CRTC that shows it.  *)

Shown(rc, fb) == [c \in Crtcs |-> IF fb[c] # NoBo /\ rc[fb[c]] <= 0 THEN NoBo ELSE fb[c]]
Commit(rc, width, fb, img) ==
    /\ refcnt' = rc
    /\ bowidth' = [b \in Bos |-> IF rc[b] <= 0 THEN 0 ELSE width[b]]
    /\ crtcFb' = Shown(rc, fb)
    /\ current' = [b \in Bos |-> IF rc[b] <= 0 THEN {} ELSE img[b]]

\* Drawing columns into b makes every other bo out of date there; a drawing
\* that covers the columns makes b up to date, another one keeps it so.
Drawn(img, b, cols, covers) ==
    [d \in Bos |-> IF d # b THEN img[d] \ cols
                   ELSE IF covers THEN img[d] \cup cols ELSE img[d]]

\* Dropping the pixmaps that nothing refers to any more drops their bos.
Freed(w, c, pix)        == {p \in Pixmaps : pix[p] # NoBo /\ p \notin HeldPixmaps(w, c)}
DropPixmaps(w, c, pix)  == [p \in DOMAIN pix |-> IF p \in Freed(w, c, pix) THEN NoBo ELSE pix[p]]
DropRefs(rc, w, c, pix) ==
    [b \in Bos |-> rc[b] - Cardinality({p \in Freed(w, c, pix) : pix[p] = b})]

\* The places of the driver that refer to a bo.  Freeing a bo while there are
\* some leaves the program undefined.
Holders(b) ==
    Cardinality({s \in Slots : scanouts[s].bo = b})
    + Cardinality({p \in Pixmaps \cup {Root} : pixBo[p] = b})
    + (IF scanout = b THEN 1 ELSE 0)

Defined == \A b \in Bos : Holders(b) > 0 => refcnt[b] > 0

-----------------------------------------------------------------------------
(* Mode switching.                                                         *)

\* drmmode_set_blit_crtc / drmmode_set_flip_crtc: the CRTCs they act on, and
\* what all CRTCs scan out after them, where fb was scanned out before.
BlitCrtcs == {c \in Crtcs : crtc[c].enabled}
FlipCrtcs == {c \in BlitCrtcs : ScanoutFromSize(scanouts, crtc[c].rect) # 0}
BlitTargetMissed(fb) == fb              \* mutant: drmmode_set_crtc is not called
BlitTarget(fb) == [c \in Crtcs |-> IF c \in BlitCrtcs THEN scanout ELSE fb[c]]
FlipTarget(fb) == [c \in Crtcs |-> IF c \in FlipCrtcs
                      THEN scanouts[ScanoutFromSize(scanouts, crtc[c].rect)].bo ELSE fb[c]]

\* The loop over the CRTCs in acts that sets each to to[c] fails at one of
\* them, which goes off or stays as it was.  The earlier ones in undoes are then
\* sent back to undo[c]; where that fails too they go off or stay at to[c].
Unwound(acts, to, undoes, undo) ==
    {fb \in [Crtcs -> Bos \cup {NoBo}] :
        \E bad \in acts : \A c \in Crtcs :
            \/ c < bad /\ c \in undoes /\ fb[c] \in {undo[c], to[c], NoBo}
            \/ c < bad /\ c \notin undoes /\ fb[c] = to[c]
            \/ c = bad /\ fb[c] \in {crtcFb[c], NoBo}
            \/ c > bad /\ fb[c] = crtcFb[c]}

ToBlit == [ok |-> BlitTarget(crtcFb),
           bad |-> IF "blit_crtc" \notin Faults THEN {}
                   ELSE Unwound(BlitCrtcs, BlitTarget(crtcFb),
                                FlipCrtcs, FlipTarget(BlitTarget(crtcFb)))]
ToFlip == [ok |-> FlipTarget(crtcFb),
           bad |-> IF "flip_crtc" \notin Faults THEN {}
                   ELSE Unwound(FlipCrtcs, FlipTarget(crtcFb),
                                BlitCrtcs, BlitTarget(FlipTarget(crtcFb)))]

Filled(s) == scanouts[s].bo # NoBo

\* The valid slots among the first n copied to the root bo in order, and
\* declared invalid: of overlapping slots the last one wins.
CopiedToRoot(n) ==
    LET over(x) == {s \in 1..n : Filled(s) /\ scanouts[s].valid /\ x \in Cols(scanouts[s].rect)}
        last(x) == CHOOSE s \in over(x) : \A t \in over(x) : t <= s
    IN  [current EXCEPT ![scanout] =
            {x \in RootCols : IF over(x) = {} THEN x \in @
                              ELSE x \in current[scanouts[last(x)].bo]}]
InvalidatedNone(n) == scanouts      \* mutant: scanout->valid = FALSE is missing
Invalidated(n) == [s \in Slots |-> IF s <= n /\ Filled(s)
                                   THEN [scanouts[s] EXCEPT !.valid = FALSE] ELSE scanouts[s]]

\* The root bo copied to the invalid slots among the first n, declared valid.
CopiedToSlots(n) ==
    [b \in Bos |->
        LET into == {s \in 1..n : Filled(s) /\ ~scanouts[s].valid /\ scanouts[s].bo = b}
        IN  IF into = {} THEN current[b]
            ELSE current[scanout] \cap UNION {Cols(scanouts[s].rect) : s \in into}]
ValidatedNone(n) == scanouts        \* mutant: scanout->valid = TRUE is missing
Validated(n) == [s \in Slots |-> IF s <= n /\ Filled(s)
                                 THEN [scanouts[s] EXCEPT !.valid = TRUE] ELSE scanouts[s]]

Outcome(ret, tab, img, fb) == [ret |-> ret, tab |-> tab, img |-> img, fb |-> fb]
AlreadySet == {Outcome(TRUE, scanouts, current, crtcFb)}

\* What drmmode_set_blit_mode may do once no flip is pending.
SetBlitMode ==
    LET unread == {s \in Slots : "blit_copy" \in Faults /\ Filled(s) /\ scanouts[s].valid}
        tab    == Invalidated(MaxScanouts)
        img    == CopiedToRoot(MaxScanouts)
    IN  IF flip_mode = "DISABLED" THEN AlreadySet
        ELSE {Outcome(FALSE, Invalidated(s - 1), CopiedToRoot(s - 1), crtcFb) : s \in unread}
             \cup {Outcome(FALSE, tab, img, fb) : fb \in ToBlit.bad}
             \cup {Outcome(TRUE, tab, img, ToBlit.ok)}

\* What drmmode_set_flip_mode may do.
SetFlipMode ==
    LET unread == {s \in Slots : "flip_copy" \in Faults /\ Filled(s) /\ ~scanouts[s].valid}
        tab    == Validated(MaxScanouts)
        img    == CopiedToSlots(MaxScanouts)
    IN  IF flip_mode = "ENABLED" THEN AlreadySet
        ELSE {Outcome(FALSE, Validated(s - 1), CopiedToSlots(s - 1), crtcFb) : s \in unread}
             \cup {Outcome(FALSE, tab, img, fb) : fb \in ToFlip.bad}
             \cup {Outcome(TRUE, tab, img, ToFlip.ok)}
=============================================================================
