------------------------- MODULE DisplayProperties -------------------------
(***************************************************************************)
(* What the driver promises about the screen, the buffers and the swaps.   *)
(***************************************************************************)
EXTENDS Display

TypeOK ==
    /\ flip_mode \in {"ENABLED", "DISABLED"}
    /\ scanout \in Bos
    /\ scanouts \in TableType
    /\ pending_flips \in Int
    /\ has_resized \in BOOLEAN
    /\ refcnt \in [Bos -> Int]
    /\ bowidth \in [Bos -> Nat]
    /\ pixBo \in [Pixmaps \cup {Root} -> Bos \cup {NoBo}]
    /\ win \in [Windows -> WinType]
    /\ cmd \in [CmdIds -> CmdType \cup {FreeCmd}]
    /\ crtc \in [Crtcs -> CrtcType]
    /\ crtcFb \in [Crtcs -> Bos \cup {NoBo}]
    /\ kflip \in [Crtcs -> CmdIds \cup {NoCmd}]
    /\ events \in Seq(Crtcs \X CmdIds)
    /\ call \in CallType
    /\ current \in [Bos -> SUBSET Int]

-----------------------------------------------------------------------------
(* Flips and their events.                                                 *)

\* The CRTCs whose event for command k is still to be handled.
Queued(k)      == {c \in Crtcs : \E i \in DOMAIN events : events[i] = <<c, k>>}
Flipping(k)    == {c \in Crtcs : kflip[c] = k}
Outstanding(k) == Flipping(k) \cup Queued(k)

\* A command is freed by exactly the last of its events: the events under way
\* are as many as its swapCount, whatever windows, mode switches and failed
\* flips come between.  So no event refers to a freed command.
EventsMatchSwapCount ==
    /\ \A k \in CmdIds : cmd[k].swapCount = Cardinality(Outstanding(k))
    /\ \A k \in CmdIds : Flipping(k) \cap Queued(k) = {}
    /\ \A i, j \in DOMAIN events : events[i] = events[j] => i = j

\* pending_flips counts the commands that still get an event, so a wait for it
\* to reach 0 neither ends early nor hangs.
PendingFlipsCounts == pending_flips = Cardinality(Live)

\* Flips are under way in flip mode only: nobody sets a mode, copies a slot or
\* deletes the root bo under a flip.
FlipsOnlyInFlipMode == pending_flips > 0 => flip_mode = "ENABLED"

\* A wait in the middle of a call ends.
WaitReturns == (call # Idle) ~> (call = Idle)

-----------------------------------------------------------------------------
(* The DRI2 contract.                                                      *)

Owed(w) == Cardinality({k \in Live : cmd[k].win = w /\ Answers(k)})
Contract == INSTANCE SwapContract WITH
    owed  <- [w \in Windows |-> Owed(w)],
    limit <- [w \in Windows |-> win[w].pending]

\* Every swap the driver accepted is answered exactly once, or its window goes.
AnsweredOnce == Contract!Spec

-----------------------------------------------------------------------------
(* Buffers.                                                                *)

\* Between calls a bo has one reference for the root scanout, one for each slot
\* and one for each pixmap that it backs: no leak and no early free, through all
\* exchanges of buffers and changes of the scanout table.
RefsCountHolders == call = Idle => \A b \in Bos : refcnt[b] = Holders(b)

\* What the driver holds is not freed: assert(bo->refcnt > 0).
\* (Once something is, the behaviour of the program is undefined and the model
\* stops.)
NoDanglingBo == \A b \in Bos : Holders(b) > 0 => refcnt[b] > 0

\* In flip mode the screen pixmap is backed by the bo of a slot, never by the
\* root bo: a CPU write to the screen pixmap finds that it has to leave flip mode.
FlipModeFrontIsSlot ==
    flip_mode = "ENABLED" /\ call = Idle
      => pixBo[Root] # scanout /\ \E s \in Slots : scanouts[s].bo = pixBo[Root]

\* A client that may draw its next frame draws where nobody looks: the back
\* buffer is on no enabled CRTC, in no slot, and not the root bo.
BackBufferOffScreen ==
    \A w \in Windows :
        win[w].alive /\ win[w].back # NoPix /\ win[w].pending = 0 /\ call = Idle =>
            LET b == pixBo[win[w].back]
            IN  /\ b # scanout
                /\ \A s \in Slots : scanouts[s].bo # b
                /\ \A c \in Active(crtc) : crtcFb[c] # b

-----------------------------------------------------------------------------
(* What the user sees.                                                     *)

Visible == UNION {Cols(crtc[c].rect) : c \in Active(crtc)}

\* No enabled CRTC is dark between calls.
Lit == call = Idle => \A c \in Active(crtc) : crtcFb[c] # NoBo

\* Once the flips are done every enabled CRTC shows the latest image of its
\* part of the screen, however drawing, swaps and mode switches alternated.
ShowsLatest ==
    call = Idle /\ pending_flips = 0 =>
        \A c \in Active(crtc) :
            crtcFb[c] # NoBo => Cols(crtc[c].rect) \subseteq current[crtcFb[c]]

\* A CPU read of the screen pixmap sees the latest image, from whichever of the
\* bos PrepareAccess hands out.
ReadsLatest ==
    call = Idle => Visible \subseteq
        (IF UpdatesRootBo THEN CopiedToRoot(MaxScanouts)[scanout]
         ELSE current[IF ReadsRootBo THEN scanout ELSE pixBo[Root]])

\* Slots are valid in flip mode and invalid in blit mode, so that each switch
\* copies what it has to and nothing else.
ValidFollowsMode ==
    call = Idle => \A s \in Slots :
        scanouts[s].bo # NoBo => (scanouts[s].valid <=> flip_mode = "ENABLED")

\* A completed flip leaves the slot it shows valid.
FlipValidates ==
    [][\A k \in CmdIds : cmd[k] # FreeCmd /\ Answers(k) /\ cmd'[k] = FreeCmd =>
         \A s \in Slots : scanouts'[s].bo # NoBo /\ scanouts'[s].bo = pixBo'[Root]
                            => scanouts'[s].valid]_vars
=============================================================================
