------------------------------ MODULE Pixmaps ------------------------------
(***************************************************************************)
(* Pixmaps, the buffer objects behind them and the kernel's buffers behind *)
(* those: the EXA functions that create, change and destroy pixmaps, the   *)
(* DRI2 buffers that keep pixmaps alive and tell clients the names of bos, *)
(* and the ways in which a swap moves bos from pixmap to pixmap.           *)
(*                                                                         *)
(* One CRTC, whose mode stays: one slot.  Its mode switches succeed or     *)
(* change nothing (Display has the rest of a swap).  Windows may be        *)
(* redirected to pixmaps of their own.  mem is what pixmaps and bos have   *)
(* in common, handed through the functions of a handler; a function that   *)
(* may fail returns the set of its outcomes.                               *)
(***************************************************************************)
EXTENDS Integers, FiniteSets

CONSTANTS NumWindow,
          NumPixmap,   \* bound: pixmaps besides that of the screen
          MaxPlain,    \* bound: pixmaps that the server makes for itself
          NumBo,       \* bound: bos at once
          NumSize,     \* bound: sizes of pixmaps and windows
          Env,         \* what the server may do besides
          Failing      \* what may fail: see the operators

ASSUME PixmapsAssumption ==
    /\ NumWindow \in Nat /\ NumPixmap \in Nat /\ MaxPlain \in Nat
    /\ NumBo \in Nat /\ NumBo >= 2
    /\ NumSize \in Nat \ {0}
    /\ Env \subseteq {"redirect", "resize", "resize_flip"}

Windows == 1..NumWindow
Root    == 0                     \* the screen pixmap
Pixmaps == Root..NumPixmap
NoPix   == -1
Bos     == 1..NumBo
NoBo    == 0
Empty   == 0                     \* the size of a pixmap of no width or height
Mode    == 1                     \* the size of the CRTC's mode
Sizes   == Mode..NumSize

VARIABLES
    mem,           \* the memory, see Memory below
    plain,         \* the pixmaps that the server has made for itself
    win,           \* windows and their drawable's pixmap
    buf,           \* the two OMAPDRI2BufferRecs of each window
    cmd,           \* the OMAPDRISwapCmd whose flip is under way, for each window
    call,          \* the swap that waits for flips, if one does
    has_resized,
    crashed        \* a NULL bo has been used

vars == <<mem, plain, win, buf, cmd, call, has_resized, crashed>>

PixType == [refs : Nat, size : Sizes \cup {Empty}, bo : Bos \cup {NoBo}]
Memory  == [pix     : [Pixmaps -> PixType],            \* refcnt, size, priv->bo
            refs    : [Bos -> Nat],                    \* omap_bo.refcnt
            size    : [Bos -> Sizes \cup {Empty}],     \* omap_bo.width and height
            objs    : SUBSET Bos,                      \* buffers of the kernel
            scanout : Bos, slot : Bos,                 \* root bo, bo of the one slot
            mapped  : BOOLEAN]                         \* has the root bo a mapping?
WinType == [alive : BOOLEAN, size : Sizes, pix : Pixmaps,
            stale : BOOLEAN]        \* its pixmap is not that of its buffers
BufType == [front : Pixmaps \cup {NoPix}, back : Pixmaps \cup {NoPix},
            name : Bos \cup {NoBo}]  \* of the back buffer, while a client relies on it
CmdType == [src : Pixmaps \cup {NoPix}, dst : Pixmaps \cup {NoPix}]

FreePix == [refs |-> 0, size |-> Empty, bo |-> NoBo]
NoBuf   == [front |-> NoPix, back |-> NoPix, name |-> NoBo]
NoCmd   == [src |-> NoPix, dst |-> NoPix]
Idle    == [win |-> 0, old |-> NoBo]

First(S) == {x \in S : \A y \in S : x <= y}     \* any other would do as well

Init ==
    /\ mem = [pix     |-> [p \in Pixmaps |-> IF p = Root
                               THEN [refs |-> 1, size |-> Mode, bo |-> 1] ELSE FreePix],
              refs    |-> [b \in Bos |-> IF b = 1 THEN 2 ELSE IF b = 2 THEN 1 ELSE 0],
              size    |-> [b \in Bos |-> IF b <= 2 THEN Mode ELSE Empty],
              objs    |-> {1, 2}, scanout |-> 1, slot |-> 2, mapped |-> TRUE]
    /\ plain = {}
    /\ win = [w \in Windows |-> [alive |-> TRUE, size |-> Mode, pix |-> Root, stale |-> FALSE]]
    /\ buf = [w \in Windows |-> NoBuf]
    /\ cmd = [w \in Windows |-> NoCmd]
    /\ call = Idle
    /\ has_resized = FALSE /\ crashed = FALSE

-----------------------------------------------------------------------------
(* Buffer objects.                                                         *)

Referenced(m, b) == [m EXCEPT !.refs[b] = @ + 1]

FbOnly(m, b) ==                          \* mutant: the kernel's buffer is kept
    IF b = NoBo THEN m
    ELSE [m EXCEPT !.refs[b] = @ - 1, !.size[b] = IF m.refs[b] = 1 THEN Empty ELSE @]
Unreferenced(m, b) ==
    IF b = NoBo THEN m
    ELSE LET last == m.refs[b] = 1
         IN  [m EXCEPT !.refs[b] = @ - 1, !.size[b] = IF last THEN Empty ELSE @,
                       !.objs = IF last THEN @ \ {b} ELSE @]

\* omap_bo_new: pairs of the memory and the bo.  What a back end has made goes
\* again when the framebuffer cannot be added, but not when its own queries fail.
NewBo(m, s) ==
    LET failed(x) == [m |-> x, bo |-> NoBo]
    IN  UNION {{[m |-> [m EXCEPT !.refs[b] = 1, !.size[b] = s, !.objs = @ \cup {b}], bo |-> b]}
               \cup {failed(m) : x \in {"create", "AddFB"} \cap Failing}
               \cup {failed([m EXCEPT !.objs = @ \cup {b}]) : x \in {"get_prop"} \cap Failing}
               : b \in First(Bos \ m.objs)}

\* omap_bo_map of the root bo: is the result not NULL?  A bo stays mapped.
Maps(m) == IF m.mapped \/ "map" \notin Failing THEN {TRUE} ELSE BOOLEAN

-----------------------------------------------------------------------------
(* EXA.                                                                    *)

Backed(m, p, b) == [m EXCEPT !.pix[p].bo = b]

\* The screen's bo behind pixmap p, with a reference of its own.
BackedByRoot(m, p) ==
    Backed(Unreferenced(Referenced(m, m.scanout), m.pix[p].bo), p, m.scanout)

\* The end of OMAPModifyPixmapHeader: another bo unless the size fits.
FittedAny(m, p) == {m}                   \* mutant: any bo is good enough
Fitted(m, p) ==
    LET old == m.pix[p].bo
        s   == m.pix[p].size
    IN  IF s = Empty \/ (old # NoBo /\ m.size[old] = s) THEN {m}
        ELSE {Backed(n.m, p, n.bo) : n \in NewBo(Unreferenced(m, old), s)}

KeptBo(m, p) == Backed(m, p, NoBo)       \* mutant: the previous bo is forgotten

\* What becomes of a pixmap, scratch ones included, that is pointed at memory of
\* others: its previous bo goes.
Dropped(m, p) == Backed(Unreferenced(m, m.pix[p].bo), p, NoBo)

\* OMAPModifyPixmapHeader.  data is "null", the mapping of the "root" bo, or
\* "foreign" (then the server sets the size).  A root bo that cannot be mapped
\* compares equal to no data at all.
Modified(m, p, s, data) ==
    LET sized(x) == [x EXCEPT !.pix[p].size = IF s = Empty THEN @ ELSE s]
        root(ok) == IF ok THEN "root" ELSE "null"
        tried(ok) == [m EXCEPT !.mapped = @ \/ ok]
    IN  UNION {IF data # "null" /\ data # root(ok) THEN {sized(Dropped(tried(ok), p))}
               ELSE IF data = root(ok) THEN Fitted(sized(BackedByRoot(tried(ok), p)), p)
               ELSE Fitted(sized(tried(ok)), p) : ok \in Maps(m)}

\* exaCreatePixmap: OMAPCreatePixmap makes the private record, and then the
\* header is modified, with a result nobody looks at.
Created(m, p, s) == Modified([m EXCEPT !.pix[p] = [FreePix EXCEPT !.refs = 1]], p, s, "null")

Unused(m) == First({p \in Pixmaps : m.pix[p].refs = 0})

NotHeld(m, p) == m                       \* mutant: no reference is taken
Held(m, p) == [m EXCEPT !.pix[p].refs = @ + 1]
DestroyedNow(m, p) ==                    \* mutant: whoever destroys it is the last
    IF p = NoPix THEN m ELSE [Unreferenced(m, m.pix[p].bo) EXCEPT !.pix[p] = FreePix]
Destroyed(m, p) ==
    IF p = NoPix THEN m
    ELSE IF m.pix[p].refs = 1 THEN [Unreferenced(m, m.pix[p].bo) EXCEPT !.pix[p] = FreePix]
    ELSE [m EXCEPT !.pix[p].refs = @ - 1]

\* The server's CPU writes to the screen pixmap, in blit mode by then.
RootWritten(m) == IF m.pix[Root].bo \in {NoBo, m.scanout} THEN m ELSE BackedByRoot(m, Root)

Exchanged(m, p, q) == Backed(Backed(m, p, m.pix[q].bo), q, m.pix[p].bo)

-----------------------------------------------------------------------------
(* Pixmaps of the server, and of redirected windows.                       *)

Serving == ~crashed /\ call = Idle
NoFlips == \A w \in Windows : cmd[w] = NoCmd

CreatePixmap ==
    /\ Serving /\ Cardinality(plain) < MaxPlain
    /\ \E p \in Unused(mem), s \in Sizes \cup {Empty} :
         /\ mem' \in Created(mem, p, s)
         /\ plain' = plain \cup {p}
    /\ UNCHANGED <<win, buf, cmd, call, has_resized, crashed>>

ModifyPixmapHeader ==
    /\ Serving
    /\ \E p \in plain, s \in Sizes, data \in {"null", "foreign"} : mem' \in Modified(mem, p, s, data)
    /\ UNCHANGED <<plain, win, buf, cmd, call, has_resized, crashed>>

DestroyPixmap ==
    /\ Serving
    /\ \E p \in plain : mem' = Destroyed(mem, p) /\ plain' = plain \ {p}
    /\ UNCHANGED <<win, buf, cmd, call, has_resized, crashed>>

BuffersDestroyed(m, w) == Destroyed(Destroyed(m, buf[w].front), buf[w].back)

\* A window gets a pixmap of its own, or a new one, when it is redirected or its
\* size changes, and gives it up when it is redirected no more.
OwnPixmap(w) == IF win[w].pix = Root THEN NoPix ELSE win[w].pix

Redirect(w) ==
    /\ "redirect" \in Env
    /\ Serving /\ win[w].alive
    /\ \/ \E p \in Unused(mem), s \in Sizes :
            /\ win[w].pix = Root \/ s # win[w].size
            /\ \E m \in Created(mem, p, s) : mem' = Destroyed(m, OwnPixmap(w))
            /\ win' = [win EXCEPT ![w] = [@ EXCEPT !.size = s, !.pix = p, !.stale = TRUE]]
       \/ /\ win[w].pix # Root
          /\ mem' = Destroyed(mem, win[w].pix)
          /\ win' = [win EXCEPT ![w] = [@ EXCEPT !.pix = Root, !.stale = TRUE]]
    /\ UNCHANGED <<plain, buf, cmd, call, has_resized, crashed>>

\* DRI2 destroys the buffers of a window that goes.
DestroyWindow(w) ==
    /\ Serving /\ win[w].alive
    /\ mem' = Destroyed(BuffersDestroyed(mem, w), OwnPixmap(w))
    /\ win' = [win EXCEPT ![w] = [@ EXCEPT !.alive = FALSE, !.pix = Root]]
    /\ buf' = [buf EXCEPT ![w] = NoBuf]
    /\ UNCHANGED <<plain, cmd, call, has_resized, crashed>>

\* drmmode_xf86crtc_resize; the root bo is mapped for the call.
Resize ==
    /\ "resize" \in Env /\ ("resize_flip" \in Env \/ NoFlips)
    /\ Serving
    /\ \E s \in Sizes :
         \/ /\ s # mem.size[mem.scanout]
            /\ \E n \in NewBo(mem, s) :
                 \/ n.bo = NoBo /\ mem' = n.m /\ UNCHANGED has_resized
                 \/ /\ n.bo # NoBo
                    /\ \E ok \in Maps([n.m EXCEPT !.mapped = FALSE]) :
                         mem' \in Modified([Unreferenced(n.m, mem.scanout)
                                              EXCEPT !.scanout = n.bo, !.mapped = ok],
                                           Root, s, IF ok THEN "root" ELSE "null")
                    /\ has_resized' = TRUE
         \/ /\ s = mem.size[mem.scanout]
            /\ \E ok \in Maps(mem) :
                 mem' \in Modified([mem EXCEPT !.mapped = ok], Root, s,
                                   IF ok THEN "root" ELSE "null")
            /\ UNCHANGED has_resized
    /\ UNCHANGED <<plain, win, buf, cmd, call, crashed>>

-----------------------------------------------------------------------------
(* DRI2 buffers.                                                           *)

MayAsk(w)     == Serving /\ win[w].alive /\ cmd[w] = NoCmd
HasBuffers(w) == buf[w].back # NoPix

\* OMAPDRI2CreateBuffer for both attachments: the pixmap of the window, and a new
\* one.  A bo that is NULL crashes the driver when it asks for its name.  When
\* the kernel gives no name the pixmap stays held and the core destroys the other
\* buffer.  Else the buffers of before go.
Requested(w, front, back) ==
    LET failed(m, c) == [mem |-> m, buf |-> buf[w], stale |-> win[w].stale, crashed |-> c]
        made(m) ==
            IF NoBo \in {m.pix[front].bo, m.pix[back].bo} THEN {failed(m, TRUE)}
            ELSE {[mem |-> BuffersDestroyed(m, w), stale |-> FALSE, crashed |-> FALSE,
                   buf |-> [front |-> front, back |-> back, name |-> m.pix[back].bo]]}
                 \cup IF "get_name" \in Failing
                      THEN {failed(Held(mem, front), FALSE), failed(Destroyed(m, front), FALSE)}
                      ELSE {}
    IN  UNION {made(m) : m \in Created(Held(mem, front), back, win[w].size)}

CreateBuffers(w) ==
    /\ MayAsk(w)
    /\ \E back \in Unused(mem) : \E r \in Requested(w, win[w].pix, back) :
         /\ mem' = r.mem
         /\ buf' = [buf EXCEPT ![w] = r.buf]
         /\ win' = [win EXCEPT ![w].stale = r.stale]
         /\ crashed' = r.crashed
    /\ UNCHANGED <<plain, cmd, call, has_resized>>

OldName(w) ==                           \* mutant: it is still that of the slot's bo
    [buf EXCEPT ![w].name = mem.slot]
NewName(w) == [buf EXCEPT ![w].name = mem.pix[buf[w].back].bo]

\* The core reuses buffers of the window's size, unless the serial number of the
\* window's pixmap has changed; OMAPDRI2ReuseBufferNotify for each.
ReuseBuffers(w) ==
    /\ MayAsk(w) /\ HasBuffers(w)
    /\ ~win[w].stale /\ mem.pix[buf[w].back].size = win[w].size
    /\ crashed' = (NoBo \in {mem.pix[buf[w].front].bo, mem.pix[buf[w].back].bo})
    /\ buf' = NewName(w)
    /\ UNCHANGED <<mem, plain, win, cmd, call, has_resized>>

-----------------------------------------------------------------------------
(* Swaps.  The destination of the blit or the flip is the pixmap that the  *)
(* window has now; the bo is set in the pixmap that it had when the front  *)
(* buffer was made.                                                        *)

SrcOf(w)   == buf[w].back
FrontOf(w) == buf[w].front
DstOf(w)   == win[w].pix

SwapReady(w) ==
    /\ MayAsk(w) /\ HasBuffers(w)
    /\ mem.pix[SrcOf(w)].bo # NoBo

\* omap_bo_clear_dirty(NULL)
SwapNothing(w) ==
    /\ MayAsk(w) /\ HasBuffers(w)
    /\ mem.pix[SrcOf(w)].bo = NoBo
    /\ crashed' = TRUE
    /\ UNCHANGED <<mem, plain, win, buf, cmd, call, has_resized>>

\* The window may besides be clipped, or off the CRTC.
MayFlip(w) == win[w].size = Mode /\ mem.size[mem.pix[SrcOf(w)].bo] = win[w].size /\ ~has_resized

Swapped(w) == [buf EXCEPT ![w].name = NoBo]

BlitDone(m, w) == IF DstOf(w) = Root THEN RootWritten(m) ELSE m

SlotBacked(m, p) == Backed(Unreferenced(Referenced(m, m.slot), m.pix[p].bo), p, m.slot)

\* The front buffer gets the bo of the slot; the pixmaps live until the flip is
\* done.  Of a flip that fails nothing remains but that.
SwapFlip(w) ==
    /\ SwapReady(w) /\ MayFlip(w)
    /\ LET m == SlotBacked(mem, FrontOf(w))
       IN  \/ /\ mem' = Held(Held(m, SrcOf(w)), DstOf(w))
              /\ cmd' = [cmd EXCEPT ![w] = [src |-> SrcOf(w), dst |-> DstOf(w)]]
           \/ "page_flip" \in Failing /\ mem' = m /\ UNCHANGED cmd
    /\ buf' = Swapped(w)
    /\ UNCHANGED <<plain, win, call, has_resized, crashed>>

\* Flip mode, which no flip under way has entered yet, is refused: the front
\* buffer has its bo back, and the swap blits.
SwapFlipRefused(w) ==
    /\ SwapReady(w) /\ MayFlip(w) /\ NoFlips /\ "flip_mode" \in Failing
    /\ mem' = BlitDone(mem, w)
    /\ has_resized' = FALSE
    /\ buf' = Swapped(w)
    /\ UNCHANGED <<plain, win, cmd, call, crashed>>

\* The front buffer gets the root bo, whatever pixmap it is, and then the call
\* waits for flips.
SwapBlit(w) ==
    /\ SwapReady(w)
    /\ mem' = Backed(Referenced(mem, mem.scanout), FrontOf(w), mem.scanout)
    /\ call' = [win |-> w, old |-> mem.pix[FrontOf(w)].bo]
    /\ buf' = Swapped(w)
    /\ UNCHANGED <<plain, win, cmd, has_resized, crashed>>

SwapBlitReturn ==
    /\ call # Idle /\ NoFlips
    /\ mem' = BlitDone(Unreferenced(mem, call.old), call.win)
    /\ call' = Idle /\ has_resized' = FALSE
    /\ UNCHANGED <<plain, win, buf, cmd, crashed>>

ScanoutSet(m, b) ==
    IF b # NoBo /\ m.size[b] = Mode
    THEN [Unreferenced(Referenced(m, b), m.slot) EXCEPT !.slot = b] ELSE m

\* The event of a flip, read by the main loop or by the wait: the bos of the two
\* pixmaps change places and the slot gets the one now in front.
SwapComplete(w) ==
    /\ ~crashed /\ cmd[w] # NoCmd
    /\ LET p == cmd[w].src
           q == cmd[w].dst
           x == Exchanged(mem, p, q)
           m == IF win[w].alive THEN ScanoutSet(x, x.pix[q].bo) ELSE mem
       IN  mem' = Destroyed(Destroyed(m, p), q)
    /\ cmd' = [cmd EXCEPT ![w] = NoCmd]
    /\ UNCHANGED <<plain, win, buf, call, has_resized, crashed>>

\* The server draws on the screen by CPU, after the switch to blit mode.
RootWrite ==
    /\ Serving /\ NoFlips
    /\ mem' = RootWritten(mem)
    /\ UNCHANGED <<plain, win, buf, cmd, call, has_resized, crashed>>

-----------------------------------------------------------------------------
Next ==
    \/ CreatePixmap \/ ModifyPixmapHeader \/ DestroyPixmap \/ Resize
    \/ SwapBlitReturn \/ RootWrite
    \/ \E w \in Windows :
         \/ Redirect(w) \/ DestroyWindow(w)
         \/ CreateBuffers(w) \/ ReuseBuffers(w)
         \/ SwapNothing(w) \/ SwapFlip(w) \/ SwapFlipRefused(w) \/ SwapBlit(w)
         \/ SwapComplete(w)

Spec == Init /\ [][Next]_vars

-----------------------------------------------------------------------------
(* Properties.                                                             *)

TypeOK ==
    /\ mem \in Memory
    /\ plain \subseteq Pixmaps
    /\ win \in [Windows -> WinType]
    /\ buf \in [Windows -> BufType]
    /\ cmd \in [Windows -> CmdType]
    /\ call \in [win : Windows \cup {0}, old : Bos \cup {NoBo}]
    /\ has_resized \in BOOLEAN /\ crashed \in BOOLEAN

One(P) == IF P THEN 1 ELSE 0

\* A pixmap lives as long as somebody has it: the server, a redirected window, a
\* DRI2 buffer (whose window may have another pixmap by now, or be gone), or a
\* swap whose flip is under way.
PixmapsHeld ==
    ~crashed => \A p \in Pixmaps :
        mem.pix[p].refs =
            One(p = Root) + One(p \in plain)
            + Cardinality({w \in Windows : OwnPixmap(w) = p})
            + Cardinality({w \in Windows : buf[w].front = p})
            + Cardinality({w \in Windows : buf[w].back = p})
            + Cardinality({w \in Windows : cmd[w].src = p})
            + Cardinality({w \in Windows : cmd[w].dst = p})

\* The references to a bo are those of pixmaps, root bo, slot and waiting call,
\* wherever swaps, resizes and recycled headers have moved it.
BosReferenced ==
    ~crashed => \A b \in Bos :
        mem.refs[b] =
            Cardinality({p \in Pixmaps : mem.pix[p].bo = b})
            + One(mem.scanout = b) + One(mem.slot = b) + One(call.old = b)

\* The kernel has a buffer for each bo that is referred to, and no other.
KernelBuffers == mem.objs = {b \in Bos : mem.refs[b] > 0}

\* What the server and the clients draw into has the size they think it has: the
\* bo of a pixmap of the server, unless it has none, and that of a back buffer
\* the client has asked for since its last swap.
DrawnTo == plain \cup {SrcOf(w) : w \in {v \in Windows : buf[v].name # NoBo}}
BosFit ==
    \A p \in DrawnTo :
        mem.pix[p].bo # NoBo /\ mem.pix[p].size # Empty
            => mem.size[mem.pix[p].bo] = mem.pix[p].size

\* A client that has asked for its buffers since its last swap draws into the bo
\* of its back pixmap, although a flip has moved that bo.
DrawsInBack ==
    call = Idle => \A w \in Windows :
        buf[w].name # NoBo => buf[w].name = mem.pix[SrcOf(w)].bo
=============================================================================
