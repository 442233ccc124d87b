# Verification of the armsoc X.org driver

TLA+ models, TLC runs and TLAPS proofs about the X.org video driver in this
repository (`src/`, called the code below; all paths are relative to the
repository). The driver puts the screen of an X server on a Rockchip or Exynos
display controller through the kernel's DRM interface. Its difficulty is not
drawing, which is left to the CPU, but bookkeeping: which buffer is shown by
which CRTC, which buffer backs which pixmap, and what is still owed by the
kernel, while clients swap, the server draws, and modes change.

## 1. The system

### Components

| component | code | state | operations |
|---|---|---|---|
| Scanout table | `drmmode_display.c` 146-211, 686-753; `omap_driver.h` 74-140 | `scanouts[MAX_SCANOUTS]`: a rectangle, a bo and a `valid` flag each | find by rectangle or bo, add, set, rebuild after a mode set |
| Mode switching | `drmmode_display.c` 492-684 | `flip_mode` | enter blit mode (wait for flips, copy slots to the root bo, show the root bo everywhere), enter flip mode (copy the root bo to the slots, show each slot) |
| Copies between root and slots | `drmmode_display.c` 397-490, 533-564 | none | copy the overlap of two buffers, under CPU locks |
| DRI2 | `omap_dri2.c` | `OMAPDRI2BufferRec` per window, `OMAPDRISwapCmd` per swap in flight, `pending_flips` | create and destroy buffers, schedule a swap, complete a swap |
| Page flips | `drmmode_page_flip` (1736-1790), event handlers (1860-1926) | queue of events in the kernel | flip the CRTCs that match a window, read events in the main loop and in the wait |
| EXA access | `omap_exa.c` | `OMAPPixmapPriv.bo` | prepare and finish CPU access, exchange bos of pixmaps, change and destroy pixmaps |
| Buffer objects | `omap_dumb.c` | `refcnt`, `acquire_cnt`, `acquired_exclusive`, framebuffer id | create, reference, unreference (and delete), CPU lock and unlock |
| CRTC mode setting | `drmmode_display.c` 321-395, 755-813 | `xf86CrtcRec` | set a mode, disable |
| Screen resize | `drmmode_display.c` 1525-1575 | `scanout` (the root bo), `has_resized` | replace the root bo |
| Screen life cycle | `omap_driver.c` 311-803, 897-924; `drmmode_display.c` 912-965, 1433-1523, 1581-1697, 1837-2054; `omap_exa_null.c` | file descriptor, device, records of the screen, of CRTCs, outputs and EXA, registered handlers, the tables above | Probe, PreInit with the KMS set-up, ScreenInit, CloseScreen, FreeScreen |
| VT switching | `omap_driver.c` 839-885 | the DRM master, `vtSema` | enter and leave the VT |
| Outputs and their properties | `drmmode_display.c` 967-1492 | a snapshot of the kernel's connector, a table of properties | detect, create resources, set a property, query one |
| Hotplug | `drmmode_display.c` 1795-1905 | the udev monitor | handle an event |
| Pixmaps | `omap_exa.c` 52-163 | `OMAPPixmapPriv.bo`, the size | create, change the header, destroy |
| Cursors, EDID and modes, console pixels | `drmmode_display.c` | little or none | not modelled (PROJECT.json says why for each) |

### How they interact

The X server is one thread and calls the driver through tables of functions.
All components share `OMAPRec`, one per screen. There are two ways to show the
screen:

* in **blit mode** every CRTC scans out the *root bo* (`pOMAP->scanout`), which
  also backs the screen pixmap; a swap copies the client's back buffer to it;
* in **flip mode** each CRTC scans out a bo of its own (a *slot* of
  `scanouts`); a swap of a window that covers a CRTC exactly is a page flip to
  the client's back buffer, and when the flip is done the bos of the back
  buffer and of the screen pixmap are exchanged.

`OMAPDRI2ScheduleSwap` decides between them for each swap; writing to the
screen by the CPU (`OMAPPrepareAccess`) and setting a mode
(`drmmode_set_mode_major`) go back to blit mode. A page flip is answered later
by an event. The event is read by the server's main loop
(`drmmode_wakeup_handler`), but also by `drmmode_wait_for_event`, which
`drmmode_set_blit_mode` and `OMAPCloseScreen` call until `pending_flips` is 0.
So the completion of one client's swap runs in the middle of another call. This
is the concurrency of the driver, and most hazards come from it.

The screen begins with `OMAPPreInit`, which opens the device and asks the kernel
for CRTCs and outputs, and with `OMAPScreenInit`, which runs once for each
generation of the server. While another server has the virtual terminal the driver
is not DRM master. Outputs are looked at when RandR asks, which a hotplug event
makes it do; the kernel changes its list of properties when it likes, also between
two system calls of one query.

A pixmap has a bo behind it, a bo a buffer of the kernel, and a DRI2 buffer holds
a pixmap and tells the client the kernel's name of the bo behind it. Bos move
from pixmap to pixmap: with flips, with the change to and from flip mode, with
resizes, and when the server recycles a pixmap header.

### What is hard

* Completion handlers that run inside a wait, on state the waiting call has
  already changed (`omap_dri2.c` 546-547).
* A flip of several CRTCs of which the kernel refuses a later one: the command
  has to live until exactly the events of the earlier ones have come.
* A window, or the whole server generation, that goes while a flip is in flight.
* References that travel between slots, pixmaps, the screen pixmap and the root
  bo over long sequences of swaps, mode sets, resizes and exchanges.
* `valid` flags that decide what has to be copied when the mode switches. One
  wrong flag shows or reads an old image, much later.
* Lookup of slots by rectangle: cloned CRTCs and resized ones.
* Failures of the kernel in the middle of a mode switch, a table rebuild, a
  flip.
* CPU locks taken on the bo of a pixmap and released on the bo the pixmap has
  then.
* Pointer arithmetic in the copy of buffers that overlap partly.
* Some forty calls from Probe to the end of ScreenInit that can fail, each with
  an error path of its own; some failures are ignored.
* A query in two system calls of a list that hotplug lengthens and shortens.
* DRI2 buffers that outlive the pixmap their window had when they were made.

PROJECT.json lists each under `hazards`, with its line and the properties that
would catch it.

## 2. The modules

| module | models | extends |
|---|---|---|
| `Scanouts` | the scanout table and reference counts, as functions; `drmmode_update_scanouts` as one function | |
| `UpdateLoop` | the same function loop by loop | `Scanouts` |
| `CopyRegion` | `drmmode_copy_from_to` row by row | |
| `BoLocks` | CPU locks, the copies and accesses that take them, the flips between them | |
| `DisplayState` | the shared state, the part of server and kernel it depends on, and the two mode switches | `Scanouts` |
| `Display` | every handler as actions | `DisplayState` |
| `Pixmaps` | pixmaps, DRI2 buffers with their names, bos and the kernel's buffers; windows that are redirected; the rest of a swap | |
| `Lifecycle` | Probe, PreInit, KMS set-up, ScreenInit, VT switches, CloseScreen, FreeScreen | |
| `OutputProps` | the properties of an output, the query, hotplug in the kernel | |
| `Session` | composes `Lifecycle` and `OutputProps`, with the hotplug events between them | `Lifecycle` |
| `SessionProperties` | the properties of both | `Session` |
| `SwapContract` | abstract: what DRI2 promises of swaps | |
| `DisplayProperties` | the properties, and the refinement mapping to `SwapContract` | `Display` |
| `MC*` | constants for TLC, and the views of `MCDisplay` and `MCPixmaps` | |
| `*_proofs` | theorems (section 5) | |

### Display

A variable has the name it has in the code where there is one. `refcnt`,
`bowidth` are fields of `struct omap_bo`; `pixBo` is `OMAPPixmapPriv.bo` of the
screen pixmap (`Root`) and of the back pixmaps. `win` is a window with its DRI2
buffer record; `cmd` are the swap commands, `crtc` the `xf86CrtcRec`s; `crtcFb`
is what the kernel scans out, `kflip` the flips it has accepted and `events` the
queue of events on the DRM file descriptor. `current` is history: the columns of
which a bo holds the latest image. Images are abstracted to that: drawing into a
bo makes it current at the columns drawn and every other bo not; a copy hands
currency on. The screen has one dimension (columns), which is enough for CRTCs
side by side, cloned, or of different sizes; the two-dimensional arithmetic is in
`CopyRegion`.

| code | actions |
|---|---|
| `OMAPDRI2CreateBuffer` and the core's rule when to call it | `GetBuffers` |
| `OMAPDRI2ScheduleSwap` | `SwapFlip`, `SwapFlipFallback` (flip mode refused), `SwapBlit` then `SwapBlitReturn` |
| `OMAPDRI2SwapComplete` | `HandleEvent` (with `CompleteFlip` and `DropFlip`); for swaps that complete at once, `FlipNotQueued` and `BlitToFront` |
| `drmmode_page_flip` | `PageFlip`, and `KernelFlip` for the kernel |
| `OMAPPrepareAccess` of the screen pixmap | `RootWriteDirect`, `RootWrite` then `RootWriteReturn`, `RootRead` |
| `drmmode_set_mode_major` | `SetModeMajor` then `SetModeMajorReturn` |
| `drmmode_xf86crtc_resize` | `Resize` |
| `OMAPCloseScreen`, `OMAPScreenInit` | `CloseScreen`, `ScreenInit` |
| `OMAPDRI2DestroyBuffer` | `DestroyWindow` |
| the user and the server | `Restack`, `Move`, `Unplug`, `Disable` |

A handler is one action, because the server is one thread, *except* that a call
which waits for flips is two: up to the wait (it sets `call`), and from the wait
on. In between only `KernelFlip` and `HandleEvent` can act: the wait loop reads
events and nothing else. `WaitOver` is the loop's condition and includes the
early return of a mode that is already set.

Results of functions that can fail are sets of outcomes: `SetBlitMode` and
`SetFlipMode` return one record per place where the code can stop (each copy,
each CRTC, and again while going back), `PageFlip` one per CRTC that may be
refused, `UpdateScanouts` one per allocation.

`Commit` is `omap_bo_unreference` down to 0: the bo is deleted, which removes
its framebuffer, and the kernel turns off the CRTCs that scan it out. If a count
would become negative the program's behaviour is undefined (an assertion fails,
or memory is used after it is freed); the model then stops (`Defined`), and
`NoDanglingBo` says before that what went wrong.

The environment is named in `Env`, the calls that may fail in `Faults`. They are
parameters, so that each run shows precisely under which conditions its
properties hold (section 4) and the proofs can be about all of them.

### Scanouts and UpdateLoop

`drmmode_update_scanouts` builds a new table from the enabled CRTCs, recycling
bos of the old one by size, and then drops what is left. `Display` uses it as a
function of the old table, `UpdateDone` for success and `UpdateStopped` for
each allocation that can fail. `UpdateLoop` executes the code loop by loop, on
the tables `old` and `new`, including `drmmode_scanout_add` failing on a full
table, and checks at the end that the function describes it
(`LoopComputesUpdate`).

### CopyRegion

`drmmode_copy_from_to` with its clamping (`Start`, `Extent`), its byte offsets
(`First`) and its row loop. Pixels are pairs of a row and a column; `InBounds`
compares byte offsets with the size `pitch * height` of either buffer, and
`CopiesOverlap` compares what was copied with the reference definition: the pixels
whose position on the screen both buffers cover.

### BoLocks

`acquire_cnt`, `acquired_exclusive` and the kernel's lock of each bo. A drawing
operation of the server prepares the pixmaps it uses, each once, in any order and for
reading or writing (`PrepareAccess`: the comment at `omap_exa.c` 260-263 promises no
order), draws, and finishes each that it was granted, in any order. Between operations a
swap may flip and a flip may complete; *inside* one, `PrepareAccess` of the screen pixmap
may set blit mode (`PrepareBlit`), which waits for the flip, and its completion exchanges
bos, whatever else is prepared. `FinishAccess` looks at `priv->bo` again: where it does
not find what was locked is `OnlyLandingMovesBo`. A failed assertion on `acquire_cnt` ends
the server; `phase` then says where, in `FinishAccess` or in a copy, for
`drmmode_copy_bo` unlocks what it was refused (`OnlyLandingAsserts`). A swap that blits
instead of flipping takes its locks as `PrepareBlit` does and is not repeated as an action.

### Lifecycle, OutputProps and Session

Every call of the life cycle that acquires something, or that can fail, is a step of
its own, so that each error path is a behaviour. `pc` is named after the function
that is called next (`bo_map`, `udev_new`, ...) or the place where the server rests
(`ready` after PreInit, `running`, `away`, `closed`, `deleted`, `exit`; `crashed`
where a NULL pointer is used). `held` is the set of what is acquired; CRTCs and
outputs already given to the server are counted (`num_crtc`, `num_output`), and
`hooks` counts how often a handler is registered. `Gets`, `Frees`, `Fails` and
`Passes` are the four forms of a call: each disjunct of an action is one call in the
code, with what its error label frees. `Failing` names the calls that may fail.

| code | actions |
|---|---|
| `OMAPProbe` | `Probe` |
| `OMAPPreInit` | `GetRec`, `OpenDRMMaster`, `DeviceAndOptions`, `LoadSubModules` |
| `drmmode_pre_init` in it | `KmsResources`, `CrtcPreInit`, `OutputPreInit`, `KmsUndo` (the error labels) |
| `OMAPScreenInit` | `ScreenInitStart`, `CopyFb`, `ScreenInitRendering`, `InitNullEXA`, `ScreenInitEnterVT`, `ScreenInitHooks` (with `drmmode_screen_init`, `drmmode_uevent_init`) |
| `OMAPEnterVT`, `OMAPLeaveVT` | `EnterVT`, `LeaveVT` |
| `OMAPCloseScreen`, `OMAPFreeScreen` | `CloseScreen`, `FreeScreen` |

`OutputProps` has one output. The kernel's list, the driver's snapshot and table,
and the query are separate, because each is stale in its own way.
`drmmode_output_get_property_from_connector` is a step for each system call, allocation
and label (`GetCount` at `retry`, `MallocProps`, `MallocValues`, `GetValues`, `Retry`,
`ErrAllocs`); the kernel's `Hotplug` and `ValueChanges` come between. `conn` has the
pointers of its request that are not NULL, `buffers` how often each buffer was allocated
and not freed: what an error path frees depends on what an earlier try has left in `conn`.
`seen` is history: the values the property had since
the query began. An entry past the end of a list, and memory nobody wrote, is
`Junk`.

`Session` puts them together: `vtSema` and `master` are those of `Lifecycle`, a
table is made in each generation, events go to the monitor that ScreenInit makes
and CloseScreen destroys, and nothing of the server runs while a query is under
way. `missed` is history: an event was read or thrown away without a detection. Events
of other devices, and those that are not HOTPLUG=1, change nothing and are not counted.

### Pixmaps

The functions of a handler are operators from memory to memory (`mem`: pixmaps with
reference count, size and bo; bos with reference count and size; the kernel's
buffers; root bo and slot), or to the set of possible memories when something in
them can fail. A handler is an action, but for the blit swap, which waits
(`SwapBlit`, `SwapBlitReturn`). What `Display` knows of modes, rectangles, events
and images is cut down to one CRTC whose mode stays, so that what it leaves out
fits in: pixmaps of the server, empty and recycled headers, windows with pixmaps
of their own, buffers that are created, reused and told by name, failures to
allocate, to map and to flip. Sizes are numbers: 1 is the mode of the CRTC.

| code | actions |
|---|---|
| `OMAPCreatePixmap`, `OMAPModifyPixmapHeader`, `OMAPDestroyPixmap` | `CreatePixmap`, `ModifyPixmapHeader`, `DestroyPixmap`, `Redirect` |
| `OMAPDRI2CreateBuffer`, `OMAPDRI2ReuseBufferNotify`, `OMAPDRI2DestroyBuffer` | `CreateBuffers`, `ReuseBuffers`, `DestroyWindow` (and in `CreateBuffers`) |
| `OMAPDRI2ScheduleSwap` | `SwapFlip`, `SwapFlipRefused`, `SwapBlit` then `SwapBlitReturn`, `SwapNothing` (a NULL bo) |
| `OMAPDRI2SwapComplete` | `SwapComplete`, and in the swaps that complete at once |
| `drmmode_xf86crtc_resize` | `Resize` |
| `OMAPPrepareAccess` for writing to the screen | `RootWrite` |

### SwapContract

For each window, a swap is accepted, and settled exactly once (answered by
`DRI2SwapComplete`, or dropped when the window goes); every accepted swap is
settled eventually. `DisplayProperties` maps it: what a window is owed is the
number of live commands of the window that will answer.

## 3. Plan

1. `Scanouts`, `UpdateLoop`: the table everything else looks up. *Done.*
2. `DisplayState`, `Display`, `DisplayProperties`: swaps, flips, mode switches,
   reconfiguration, with the accounting of flips first, then references, then
   what is shown. *Done.*
3. `CopyRegion`. *Done.*
4. `SwapContract` as a specification that `Display` implements. *Done: with TLC, and
   the safety half proved.*
5. `BoLocks`. *Done.*
6. `Lifecycle`: probe, PreInit, ScreenInit, CloseScreen, FreeScreen, EnterVT and
   LeaveVT, with every failure return. *Done.*
7. `OutputProps`, `Session`: the retry of the property query, hotplug. *Done.*
8. `Pixmaps`: pixmaps, DRI2 buffers and names. *Done.*
9. Theorems, in this order: type correctness and the accounting of flips, the
   bounds of the copy, the balance of locks, the life of the server and the query,
   the counts of `Pixmaps`, the copy's result, `UpdateLoop` with its refinement of the
   table function, the safety half of `SwapContract`, references and flags of
   `Display`, what backs the screen pixmap, what a client draws into, that no CRTC
   is dark, and on top of these that the latest image is shown and read. *Done.*

Composition: `Display` uses the table as functions that `UpdateLoop` justifies,
and a copy as one step whose arithmetic `CopyRegion` and whose locks `BoLocks`
justify. `Pixmaps` and `Display` overlap in the swap: `Display` has the mode
switches, several CRTCs, events and images, `Pixmaps` the pixmaps and names; a
swap does to the references in both what the code does. `Session` composes
`Lifecycle` with an instance of `OutputProps`.

## 4. Runs

`tlc -config <cfg> <module>` in this directory. All runs end with the state
space exhausted, except the last three, which end with a counterexample.

| run | states | question | bounds |
|---|---|---|---|
| `UpdateLoop` | 76,545 | does the loop compute the function, keep counts, keep what a lookup finds, end? | 3 CRTCs, 2 slots (so a table that overflows), 3 rectangles, every old table |
| `CopyRegion` | 7,126 | does the copy stay in bounds and copy the overlap? | buffers up to 3 by 3, packed and padded, at up to 2 pixels from each other |
| `Screens` | 32,944 | is the latest image shown and read, does a client draw off screen? | 2 CRTCs side by side, 2 windows, 1 flip at a time, modes may be set again and outputs unplugged |
| `Modes` | 20,388 | do flip mode, `valid` flags, backing of the screen pixmap and lit CRTCs agree? | 1 CRTC with three rectangles, 2 slots, 1 window that moves, failing copies to slots and failing flips |
| `Flips` | 175,014 | are events, commands, `pending_flips` and references consistent, through reconfiguration too? | 2 cloned CRTCs and three rectangles, 2 windows, 2 swaps in flight, windows destroyed at any time, any CRTC may refuse a flip, mode sets, resizes between two widths, new generations |
| `Liveness` | 82,700 | do waits end, are flips under way in flip mode only, and is each swap answered once, whatever fails? | 2 cloned CRTCs, 1 window that may be destroyed at any time, 2 swaps in flight, mode sets, all faults at once |
| `Locks` | 49,856 | are CPU locks balanced, and where can an unlock miss its lock? | screen, back buffer and 2 other pixmaps, prepared and finished in any order, refused locks of accesses and of copies, failing switch to blit mode |
| `Session` | 163,430 | are resources, handlers and master balanced, and is the property query right? | 2 device sections, 2 CRTCs, 1 output, 2 generations, lists of at most 2 properties with 2 values, 48 calls may fail |
| `Pixmaps` | 84,810 | do pixmaps, DRI2 buffers, bos and kernel buffers keep each other alive and fit? | 1 window that may be redirected and resized, 2 sizes, 1 pixmap of the server, 3 pixmaps besides the screen's, 5 bos, failing allocations, maps, flips and changes to flip mode |
| `FailedBlit`, `ResizeInFlip`, `SourceFirst` | | section 6 | the smallest that show it |

**Why the bounds are enough.** The interesting cases come from *two* of
something: two CRTCs (partial failure, cloning, different slots for one screen),
two windows (one flips while the other waits), two swaps in flight (events out
of the order of their calls). A third adds combinations of the same pairs; the
theorems of section 5 have no bounds. `NumBo` and `NumPixmap` are the
number of buffers that can exist at once plus spare ones; when none is free
`GetBuffers` and `SetModeMajorReturn` wait, so a leak would first cut behaviours
off, but `RefsCountHolders` is checked in every state before that.
`MaxScanouts` is 3 in the code and may not be less than the number of CRTCs in
`Display` (`DisplayAssumption`); the table that overflows is the business of
`UpdateLoop`.
`Session` needs two of a kind to leave one behind on an error path, and two
generations to carry something over; `MaxProps` 2 lets a list grow and shrink
past the property that is asked for. In `Pixmaps` a window has at most a front, a
back and a new pixmap of its own, which is `NumPixmap` 3; when no pixmap or bo is
free, for one is the server's, the operations that need one wait.

**The view.** Buffers and pixmaps are anonymous: which is where matters, not its
number, and a new one is any free one. `MCDisplay!View` names each by the first
place that holds it, so TLC explores one state of each class. It is exact: two
states with one view differ by a renaming of bos and pixmaps, under which `Next`
and all properties are invariant (`GetBuffers`, `Resize` and `ScreenInit` take the
smallest free one only to avoid equivalent successors). `Liveness` does not use it.
`MCPixmaps!View` does the same for `Pixmaps`.

**What the environment leaves out.** Each run that passes has the switches of
`Env` with which its properties are true:

* `Screens` has one swap in flight at a time (no `overlap`), and no failing copy
  from slots. `Modes` asks about one CRTC that changes its rectangle, `Screens`
  about several that keep theirs; they are two runs for their size.
* `Pixmaps` resizes the screen with no flip pending (no `resize_flip`) and has one
  window, as `BosFitThm` asks for; the theorem has any number of windows where the
  screen keeps its size. `"get_name"` and `"get_prop"` are not in its `Failing`: the code leaks
  there. `Session` has every call in `Failing` but `DropMaster`.
* What happens otherwise is in section 6. No switch is left out to hide a
  difference: the theorems about the accounting of flips are about all of them.

**Deadlock** is checked in the runs of `Display` where nothing may stop the
model. It is not in `CopyRegion` and `UpdateLoop` (they end), in `Session` (the
server ends or crashes), in `Pixmaps` (a NULL bo is used), in `Locks` and `SourceFirst`
(a failed assertion ends the server), and in `Liveness`, `FailedBlit` and `ResizeInFlip`
(the model stops when a buffer in use has been freed, and for no other reason).

**Fairness.** `HandleEvent`: while events are pending, `select` returns and the
main loop calls the wakeup handler; the wait loop blocks in the same file
descriptor. `KernelFlip(c)`: an accepted flip happens at the next vertical blank.
`Return`: the server's one thread goes on. `QueryStep` (`Session`): the same, from
one system call of a query to the next; `QueryEnds` excepts a kernel that changes
its list for ever. Nothing is assumed of clients, the user or the order in which
CRTCs flip. Fairness is weak throughout: each of these actions stays enabled until
it is taken.

**Mutants.** A definition marked `mutant` in a comment is a plausible mistake in
the definition after it; no specification uses it. PROJECT.json pairs each
property of a passing run with one, with which the property fails: the evidence
that the property depends on the code.

### The properties

`DisplayProperties`, `SessionProperties`, `UpdateLoop`, `CopyRegion`, `BoLocks` and
`Pixmaps` state each with the
code it is about. The most important:

* `EventsMatchSwapCount`: the events under way for a command are as many as its
  `swapCount`. Otherwise an event would refer to a freed command, or a command
  would never be freed.
* `PendingFlipsCounts`, `FlipsOnlyInFlipMode`, `WaitReturns`: the wait for
  flips is neither too short nor endless.
* `RefsCountHolders`, `NoDanglingBo`: a bo has one reference for each place
  that refers to it, between calls; none is used after it is freed, ever.
* `ShowsLatest`, `ReadsLatest`, `Lit`, `BackBufferOffScreen`: what the user, the
  server and the client see. `ShowsLatest` is the reason for the whole mode
  switching: an image drawn or swapped, in whatever mode, is what the CRTCs show.
* `ValidFollowsMode`, `FlipModeFrontIsSlot`, `FlipValidates`: the agreement of
  flags and modes that the former rest on.
* `AnsweredOnce`: the refinement of `SwapContract`.
* `HeldAtRest`, `HooksWhileUp`: whichever calls fail, where the server rests it
  holds what it should, with every handler registered once or not at all. `held` is a
  set, so that something lost shows and something released twice does not; after a
  failed ScreenInit the server ends, and `HooksWhileUp` says nothing of it.
* `MasterWithVT`: master just while the server has the VT, although CloseScreen
  clears `vtSema` itself and FatalError leaves the VT too.
* `CountsAccesses`, `KernelAgrees`: no order of accesses, no exchange of bos and no refused
  lock leaves a lock behind or takes one away, as long as the server lives.
  `OnlyLandingMovesBo`, `OnlyLandingAsserts`: the two ways in which an unlock does miss
  its lock, and that there is no third.
* `AnswerIsReal`, `FreedOnce`, `QueryEnds`: the query with its retry, its two buffers and
  its ways out.
* `HotplugSeen`: the driver's snapshot is stale only if an event is pending or lost; of a
  lost one (`missed`) it says nothing.
* `PixmapsHeld`, `BosReferenced`, `KernelBuffers`: each layer holds the next one
  exactly as often as it refers to it.
* `BosFit`, `DrawsInBack`: who draws into a pixmap, server or client, draws into a
  bo of the pixmap's size, and a client into the one behind its back pixmap now.

## 5. Theorems

`tlapm <module>.tla`. They hold for every value of the constants that meets the
named assumptions: `SizeAssumption` (`Scanouts`: the counts are natural, there
is a buffer), `DisplayAssumption` (`DisplayState`: at most one CRTC per slot, more
buffers than CRTCs, rectangles of positive width, initial modes among the
choices), `CopyAssumption` (`CopyRegion`: a row of a buffer fits in its pitch),
`LocksAssumption` (`BoLocks`: the other pixmaps are others),
`LifecycleAssumption` (`Lifecycle`: there is a section and a CRTC),
`SessionAssumption` (`Session`: `Junk` is no value), `PixmapsAssumption` (`Pixmaps`:
the counts are natural, there is a size, and a bo for the screen besides the root bo)
and `LoopAssumption` (`UpdateLoop`: rectangles of positive width). A theorem with a
hypothesis names the failures, or the steps of the environment, without which it
holds; with them TLC finds the counterexample (section 6).

| theorem | module | says |
|---|---|---|
| `DisplayTypes` | `Display_proofs` | `Spec => []TypeOK` |
| `EventsMatch` | `Display_proofs` | `Spec => []EventsMatchSwapCount` |
| `PendingCounts` | `Display_proofs` | `Spec => []PendingFlipsCounts` |
| `FlipsInFlipMode` | `Display_proofs` | `Spec => []FlipsOnlyInFlipMode` |
| `SwapsKeepContract` | `Display_proofs` | `Spec => Contract!Init /\ [][Contract!Next]_Contract!vars`: `Display` implements the safety half of `SwapContract` |
| `BosStayReferenced` | `Display_proofs` | `Spec => []NoDanglingBo` if `BlitWorks` |
| `RefsAreHolders` | `Display_proofs` | `Spec => []RefsCountHolders` if `BlitWorks` and no table allocation fails |
| `ModeMakesValid` | `Display_proofs` | `Spec => []ValidFollowsMode` if `BlitWorks`, in one server generation |
| `FlipsValidate` | `Display_proofs` | `Spec => FlipValidates` (an action property) if `BlitWorks` |
| `TypesThm`, `CountsThm` | `UpdateLoop_proofs` | `Spec => []TypeOK`, `Spec => []CountsHolders` |
| `LookupThm` | `UpdateLoop_proofs` | `Spec => []LookupKept` |
| `ComputesThm` | `UpdateLoop_proofs` | `Spec => []LoopComputesUpdate`: the loops implement the function that `Display` uses |
| `FrontStaysInSlot` | `DisplayScreen_proofs` | `Spec => []FlipModeFrontIsSlot` if `BlitWorks` and `Separate` |
| `BackStaysOffScreen` | `DisplayScreen_proofs` | `Spec => []BackBufferOffScreen` if `BlitWorks`, `Separate` and `Uncloned` |
| `CrtcsStayLit` | `DisplayScreen_proofs` | `Spec => []Lit` if `BlitWorks`, `Separate`, `Uncloned` and `Undisturbed` |
| `ScreenShowsLatest` | `DisplayScreen_proofs` | `Spec => []ShowsLatest` under the same hypotheses, in one server generation |
| `ReadsGetLatest` | `DisplayScreen_proofs` | `Spec => []ReadsLatest` under the same hypotheses, in one server generation |
| `CopyTypes` | `CopyRegion_proofs` | `Spec => []TypeOK` |
| `CopyStaysInside` | `CopyRegion_proofs` | `Spec => []InBounds` |
| `CopyIsOverlap` | `CopyRegion_proofs` | `Spec => []CopiesOverlap` |
| `LockTypes` | `BoLocks_proofs` | `Spec => []TypeOK`, whatever is refused |
| `LocksCountAccesses` | `BoLocks_proofs` | `Spec => []CountsAccesses`, whatever is refused |
| `LocksAgree` | `BoLocks_proofs` | `Spec => []KernelAgrees`, whatever is refused |
| `AccessesMovedByLanding` | `BoLocks_proofs` | `Spec => []OnlyLandingMovesBo`, whatever is refused |
| `AssertionsExplained` | `BoLocks_proofs` | `Spec => []OnlyLandingAsserts`, whatever is refused |
| `TypesThm` | `Pixmaps_proofs` | `Spec => []TypeOK` |
| `BosReferencedThm` | `Pixmaps_proofs` | `Spec => []BosReferenced` |
| `PixmapsHeldThm` | `Pixmaps_proofs` | `Spec => []PixmapsHeld` if naming a buffer does not fail |
| `KernelBuffersThm` | `Pixmaps_proofs` | `Spec => []KernelBuffers` if the kernel's version can be read |
| `DrawsInBackThm` | `Pixmaps_proofs` | `Spec => []DrawsInBack` |
| `BosFitThm` | `Pixmaps_proofs` | `Spec => []BosFit` if the screen is not resized, or there is one window and no resize comes during a flip |
| `NothingInUseFreedThm` | `Pixmaps_proofs` | `Spec => []NothingInUseFreed`, whatever fails |
| `TypesThm` | `Session_proofs` | `SessionSpec => []TypeOK` |
| `HeldThm` | `Session_proofs` | `SessionSpec => []HeldAtRest` |
| `HooksThm` | `Session_proofs` | `SessionSpec => []HooksWhileUp` |
| `MasterThm` | `Session_proofs` | `SessionSpec => []MasterWithVT` if `drmDropMaster` does not fail |
| `AnswerThm` | `Session_proofs` | `SessionSpec => []AnswerIsReal` |
| `FreedThm` | `Session_proofs` | `SessionSpec => []FreedOnce` |
| `HotplugThm` | `Session_proofs` | `SessionSpec => []HotplugSeen` |

**Display.** The invariant `Inv` is the conjunction of `TypeInv`, the three
properties and `LiveExpects`. It has to be one: that the command of an event is
of type `CmdType`, and not free, follows from the accounting only; the
accounting of cardinalities needs the types. `TypeInv` adds to `TypeOK` that a
mode set under way remembers a mode to go back to. `LiveExpects` (a command in
use still expects an event) is what makes `PendingFlipsCounts` inductive: when
`swapCount` goes from 1 to 0 the command must go. `FlipsOnlyInFlipMode` is needed
in turn where a call sets blit mode: `WaitOver` then says that no flip is
pending. `Scanouts_proofs` has what the table operators return,
the first part of `Display_proofs` one lemma for each operator and action (types),
its second one for each action that disturbs the accounting; the others fall
under `AccountingKept`. Four more invariants build on `Inv`, each with a lemma for
each action.

* *The contract.* `PendingIsOwed`: the core's count of a window's swaps is 1 if one live
  command will answer it and 0 if none will. With it every action is a step of
  `SwapContract` or a stutter (`ContractStep`): accepting a swap is `Accept`; an
  answer, or the end of a window that is owed one, is `Settle`; `CloseScreen` is
  `SettleAll`.
* *References.* `Surplus(b)` is the count of `b` less its holders, among them the call
  that waits (`call.old`, the front bo a blit swap has taken out before it waits).
  `RefsInv` says that no surplus is negative, that pixmaps nobody refers to are gone
  and that only a blit swap holds a bo; `ExactInv` that every surplus is 0. Where a
  handler changes the table, `Scanouts_proofs` says how the counts of
  `drmmode_update_scanouts` follow (`UpdateDone`, `UpdateStopped`). `BlitWorks` (no copy
  and no mode set on the way to blit mode fails) is needed: the failed switch of
  `FailedBlit` frees a bo that a pixmap holds. An allocation that fails leaks the table's
  bos, so `RefsAreHolders` needs more than `BosStayReferenced`.
* *What exists.* `Shape`: the screen pixmap, and each pixmap somebody has, is backed;
  an empty slot has no rectangle; a bo in use has columns. It needs no hypothesis
  besides `Defined`, the guard of `Next`. The lookups by rectangle rest on it.
* *Flags.* `ModeInv` adds that in flip mode each slot with a bo is valid. In blit mode
  each is invalid (`DisabledInvalid`) only within a generation: `OMAPScreenInit` enters
  blit mode without touching the table of the last one. The slot of a
  completed flip is valid because flips are in flip mode only (`FlipsOnlyInFlipMode`),
  where each slot is valid already.

`DisplayScreen_proofs` goes on to which bo is where. Its five theorems have hypotheses
beside `BlitWorks`; without any of them TLC finds the counterexample (section 6).

* `Separate`: one swap is in flight at a time (`"overlap"` not in `Env`) and no resize
  comes in flip mode (`"resize_flip"` not in `Env`; `ResizeInFlip` shows why). `Uncloned`: no
  CRTCs are clones (`"clone"` not in `Env`, the rectangles of `InitRect` do not overlap) and
  slots can be allocated (`"alloc"` not in `Faults`). The constants of `Modes` meet those of
  `FrontStaysInSlot`, with a CRTC that moves and failing flips and copies; those of
  `Screens` meet all, with two CRTCs, two windows and flips that one CRTC refuses.
* *The screen pixmap.* `Apart` says that the root bo, the slots' bos and the bos of all
  other pixmaps differ, and those of any two slots or two pixmaps too: each exchange
  and each `drmmode_set_blit_mode` needs it to find one place of a bo only. `InFlight` says of a
  flip under way that the slot its completion will look for is there, and has the bo of the
  screen pixmap; the proof follows it through the mode set that may come between.
  With it, and `OneFlip`, a completion exchanges a bo of a slot for the other, so
  that `FrontIsSlot`, the property also in the middle of the calls that wait, is kept.
* *The back buffers.* The property adds what the CRTCs scan out, of which the table knows
  nothing. `OffScreen`: a CRTC shows the bo of a pixmap other than the screen's only
  while a flip of it is under way. `Facing`: a CRTC that shows a slot's bo has that slot's
  rectangle. `Flight`: no CRTC shows the old front while the flip is under way, if it has
  the rectangle of the flip. `Facing` and `RectsApart` (no two CRTCs show the same part) are
  what makes the old front free of viewers when it becomes the back. `BacksOwned` (the
  source of a command is the back of its own window only) and `PendingIsOwed` then
  take the property from `OffScreen`: if the back is on a CRTC, the window waits for a
  swap. All of them speak of the CRTCs besides the one whose mode is being set
  (`Steady`), for a mode set waits for flips with its new mode in the record already.
* *No CRTC is dark.* `Lit` alone is not inductive: a CRTC keeps the number of a bo after
  the driver has dropped it. `Alight` says which bo it is: the root bo in blit mode, in flip
  mode the bo of a slot or the source of a flip under way. `Served` (each CRTC finds a slot of
  its rectangle) makes a mode switch point each CRTC at such a bo, `AllAnswer` (each
  command in use will be answered) makes a completion the only end of a flip, and
  `InFlight` and `Flight` above say that the bo it replaces in the slot is on no CRTC by
  then. `Undisturbed` names what breaks this: a resize, whose new root bo no CRTC shows
  (`"resize"`), a window that takes the bo of its flip along (`"destroy_pending"`), and a
  way to flip mode that fails half way (`"flip_crtc"`). New generations, moving CRTCs
  and refused flips are allowed. The constants of `Modes` meet all of it.
* *The latest image.* `ShowsLatest` and `ReadsLatest` are consequences of `LatestInv`:
  `ScreenInv`, `LitInv` and `ModeInv` above with `DisabledInvalid` and `ImageInv`.
  `Images` says where the latest image is: in blit mode all of it is in the root bo; in
  flip mode each slot has its part, and the root bo what no slot covers. `Placed` makes
  that inductive: the slots are on the screen, as wide as their bos and apart, so that
  a flip of one takes nothing from the others and a copy from them to the root bo does not
  depend on their order. `FrontLatest` says that the bo of the screen pixmap has the whole
  image whenever it is as wide as the root bo, which is what `PrepareAccess` goes by when
  it hands that bo out without a copy. Both directions of the switch need the valid
  flags: slots that are valid in blit mode would not be copied to (`SlotsCopied`),
  slots that are invalid in flip mode not be copied from (`AllCopied`). What a CRTC shows
  then follows from `Alight` and `Facing`, what a read sees from `AllCopied` and from
  `FrontIsSlot`: if the root bo backs the screen pixmap it is blit mode. A resize is
  excluded by `Undisturbed`; a new generation (`"regenerate"`) keeps slots flagged valid.
  The constants of `Screens` meet all of it.

**CopyRegion.** The invariant `Inv` says where the two pointers are in row `y`;
`Geometry` shows from the clamping that the rows and columns copied lie in
both buffers, `RowInside` that a row that lies in a buffer ends before its last
byte. `Copied` adds that `written` has exactly the bytes of the rows above `y`; where the
loop ends these are the overlap, and each byte comes from its own place on the screen.

**UpdateLoop.** `IInv` says of every step of both loops: the counts are those of the
holders; slots have a bo and a rectangle or are zeroed (`Filled`); the new table has no
gaps (`Packed`), serves the CRTCs it is through with (`Served`), and agrees for each
rectangle with the first slot the old one had (`Kept`, which has to speak about the old
table *before* a rectangle is reached: its slots for it are untouched). `CInv` adds the
closed forms: after the CRTCs `Done` the new table is `Table0` of their number, the old
one has lost exactly the slots they took, and the counts are those of the new bos;
during the second loop, of those dropped below `i` too. At the end the closed
forms are `UpdateDone`.

**Pixmaps.** `IInv` has the accounts of bos (`BosCounted`: what is not held by a pixmap,
the root bo or the slot is held by the waiting call), of kernel buffers (`Sound`) and
of pixmaps (`PixmapsCounted`), and three facts without which the last is not inductive:
buffers and swaps have both pixmaps or none (`Pairs`), a back pixmap is that of one
window and of its own swap (`BacksApart`), and the name a client has is that of the bo
behind it (`Named`, the reason for `DrawsInBack`). Each operator from memory to memory
has a lemma about references and holders. `PixmapsHeldThm` and `KernelBuffersThm` have a
hypothesis each: on these two paths the code loses a resource; `NothingInUseFreed` has
none, as a loss frees nothing.

`BosFitThm` is about sizes, and needs `FitInv` besides. `ScanoutsFit`: the slot's bo has
the size of the mode, and so has the root bo if nothing resizes the screen. `PlainFits`:
a pixmap of the server fits and is none of a window's. `WindowFits` says more of a
window than the property. Its back buffer, made for the pixmap the window still has
(not `stale`), fits even if no client draws into it now, for
`ReuseBuffers` hands it out again by its pixmap's size alone. While a flip is under way
it need not fit: the bo it will get is that of the flip's destination, which the
invariant says has the size of the mode, like the window. Two windows of one front
pixmap meet there: a flip or a blit of the other may put the slot's bo or the root bo
behind that pixmap in between, which is harmless as long as they have one size. `Calm` is
this hypothesis; section 6 has what happens without it. The lemmas before go from
memory to memory: each operator changes the bo of one pixmap and no size that
anything else relies on (`Apart`), or frees only what nobody holds any more
(`Survives`), because a bo that something else uses has a second reference
(`BesidesRefs`, from the accounts above). TLC found `FitInv` true in the run `Pixmaps`,
and with two windows, four pixmaps, six bos and no resize, before it was proved.

**BoLocks.** The theorems hold for accesses in any order and every refusal. The
counting property is not inductive. `Inv` says more: which bo can back which pixmap
(`Placed`), that no two accesses have locked one bo (`Distinct`), and that each bo is
either free or taken once, by the one access that has it (`Locked`). Before the screen
pixmap is asked for, each access has the bo of its pixmap (`NothingMoved`), so root bo
and slot are free when a copy starts (`CopyBosFree`), but for one case: the flip that a
write to the screen waits for makes the locked bo of the back buffer the slot, and the
copy that follows reads it. That lock is nested and given back (`PrepTaken`), so a copy
leaves every lock as it was, or is refused one by the kernel and asserts (`CopyOutcome`,
`CopyBoBalanced`). An access then locks a bo that is free (`UnusedFree`, `TakeLocked`), since
what is locked never backs another pixmap (`LockedElsewhere`). At the end,
`FinishAccess` of a pixmap whose bo has moved finds it free (`MovedFree`): it asserts, and
never takes away the lock of another access.

**Session.** `HeldAtRest` speaks of the places where the server rests only; `IInv`
says for every `pc` what is held there, in four parts (`HeldInProbe`,
`HeldInPreInit`, `HeldInKms`, `HeldInScreenInit`) and with the numbers of CRTCs,
outputs and records (`Numbers`). Each action has a lemma that it keeps `IInv`.
`HookInv` and `MasterInv` do the same for handlers and master. `QueryInv` relates
the step the query has reached to its buffers, its index and `seen`; that a value
read by `GetValues` is in `seen` needs that every change of the kernel's list while
the query runs adds the new value. `HotplugInv` adds to the property that a handler
is registered exactly while an event can be kept. `BufferInv` says at each step of a query
which pointers its request has; `FreedOnce` is a part of it, and inductive only with it:
what `retry` or `err_allocs` frees is there just then.

**Only model-checked.** Liveness (`WaitReturns`, `Terminates`, `QueryEnds` and the
fairness half of the refinement `AnsweredOnce`) is out of the prover's reach: it has no
rule for `ENABLED`. Every other property that the runs check is stated by a theorem.

## 6. Where the code and its comments disagree

Three runs show a state in which the code does what a comment or an assertion of
its own excludes (PROJECT.json `findings` has the quotes):

* `FailedBlit`: when the switch to blit mode fails in `OMAPDRI2ScheduleSwap`
  (549), the reference to the root bo is dropped but the screen pixmap keeps the
  root bo, and the bo it had before is forgotten with its reference.
* `ResizeInFlip`: a resize in flip mode backs the screen pixmap by the root bo,
  while flip mode goes on.
* `SourceFirst`: `FinishAccess` unlocks (407) what backs the pixmap now.
  1. A window swaps: a flip to its back buffer is under way, in flip mode.
  2. An operation of the server from the back buffer to the screen begins. EXA
     prepares the back buffer as its source: its bo is locked.
  3. It prepares the screen as its destination. `drmmode_set_blit_mode` (330) waits for
     the flip, whose completion exchanges the bos of back buffer and screen.
  4. The operation draws and finishes the back buffer. Its bo now is the old front, which
     nobody has locked: `assert(bo->acquire_cnt > 0)` (`omap_dumb.c` 318) fails.

  The driver refuses every accelerated copy (`omap_exa_null.c`), so such operations are
  done by the CPU, that of `OMAPDRI2CopyRegion` too. `AccessesMovedByLanding` proves that
  this is the only order in which an access loses its bo.

Other limits of the code appear when a constant of a passing run is changed. They
are no runs of their own. Each is a counterexample of at most ten states:

| state | constants that reach it | property that fails |
|---|---|---|
| A swap of one window sets the screen pixmap to the root bo, then waits; the flip of the other window completes in that wait and exchanges: the root bo becomes its back buffer. | `Screens` with `NumCmd = 2`, `"overlap"` in `Env` | `BackBufferOffScreen` |
| A mode set finds no memory for a slot and goes back to the mode the CRTC had before it was disabled, which another CRTC has by now; a flip for the two is refused by the second when the first shows the back buffer. | `Screens` with `"alloc"` in `Faults`, `"disable"` in `Env` | `BackBufferOffScreen` |
| Windows flip on two CRTCs at once; the second exchange gives a window the bo the other CRTC scans out. | the same without `"stack"` | `BackBufferOffScreen` |
| Two CRTCs have the same rectangle and each has a slot; a flip updates the first slot only, and going back to blit mode copies the stale second one over it. | `InitRect <- Cloned`, `RectChoices <- JustL`, `"stack"` in `Env` | `ShowsLatest` |
| The kernel refuses the flip of the second CRTC; the first shows the new frame, the driver has the old one. | the same with `"page_flip"` in `Faults` | `ShowsLatest` |
| A new generation starts in blit mode with slots still valid. | `LeftOnly`, `"regenerate"` in `Env` | `ValidFollowsMode` |
| A resize drops the bo that a CRTC shows; until the server sets the mode the CRTC is dark, and the swap that clears `has_resized` does not set it. | `LeftOnly`, `Widths = {1, 2}`, `"resize"` in `Env` | `Lit` |
| A CRTC refuses its slot in the switch to flip mode: `drmmode_set_flip_crtc` turns it off and the way back points only the CRTCs before it at the root bo. | `Modes` with `"flip_crtc"` in `Faults` | `Lit` |
| A window is destroyed with a flip in flight; the flipped bo goes with it and the CRTC goes dark (a TODO at `omap_dri2.c` 261 says so). | `LeftOnly`, `"destroy"`, `"destroy_pending"` in `Env` | `Lit` |
| After a failed switch to blit mode the slots are invalid; the next flip that completes looks for its slot (`omap_dri2.c` 442) before the flipped bo is put into it, and validates none. | `FailedBlit` with `NumBo = 6` | `FlipValidates` |
| The same interleaving as in the first row, seen from the pixmaps: a back buffer has the root bo, of another size. | `Pixmaps` with `NumWindow = 2`, `NumPixmap = 4`, `MaxPlain = 0`, `NumBo = 6` (and `"resize"`: without it the two sizes are one) | `BosFit` |
| A resize while a flip is pending gives the screen pixmap the new root bo, and the completion gives it to the client. | `Pixmaps` with `"resize_flip"` in `Env` | `BosFit` |
| A DRI2 buffer without a name is not cleaned up (a TODO at `omap_dri2.c` 250). | `Pixmaps` with `"get_name"` in `Failing` | `PixmapsHeld` |
| `bo_rockchip_create` fails after it has made a buffer. | `Pixmaps` with `"get_prop"` in `Failing` | `KernelBuffers` |
| `drmDropMaster` fails: the driver goes on as master without the VT. | `Session` with `"DropMaster"` in `Failing` | `MasterWithVT` |
| A table has a property of a kind without atoms: the next search that comes to it follows a NULL pointer. | `Session` with `Unhandled = {2}` and the invariant `query.pc # "crashed"` | that one |

Some are states the models reach in the runs as they are, and no property speaks of
them, because nothing in the code or its comments does:

* PreInit succeeds with a NULL device or without KMS resources; the server then
  crashes in ScreenInit, or in `OMAPFreeScreen` (917) if PreInit fails later
  (`pc = "crashed"`).
* Each generation leaks its EXA record (`exaRecords`); FreeScreen leaves the option
  table, CRTCs and outputs, as the comment at 889-895 says of some of them.
* Without memory for a new table `num_props` keeps its value next to a NULL table;
  a cached value is read past the end of a list that has become shorter; `detect`
  uses a connector that could not be read.
* `drmmode_copy_bo` (476) ignores a refused lock and unlocks all the same: the assertion of
  `omap_dumb.c` 318 fails (`phase = "copy_asserts"` in `Locks`, which has `"copy"` in
  `Failing`; `OnlyLandingAsserts` names it).
* A failed change to blit mode in a swap leaks the swap record (`omap_dri2.c` 551)
  and makes PrepareAccess fail, which EXA does not allow (`omap_exa.c` 330).
* A hotplug while the VT is away is not looked at again on return (`missed`).
* A swap that blits gives its front pixmap the root bo even if that pixmap is a
  redirected window's own; and the front buffer may be of a pixmap the window no
  longer has. What is drawn to such a window goes to the screen.
* A root bo that cannot be mapped makes `NULL == NULL` true at `omap_exa.c` 114, so
  every new pixmap begins with the root bo; one as large as the screen keeps it.

## 7. What is not modelled

* DRI2 attachments besides front and back, regions that a client copies by itself,
  GetMSC and WaitMSC (no state), the dirty flag (nobody reads it).
* In `Pixmaps`: `previous_canflip` and the serial number that makes DRI2 ask for
  new buffers after a change; the core may reuse or re-create at any time a size
  and an unchanged pixmap allow. A failed change to blit mode is in `Display` only.
* In `Lifecycle`: options, visuals, colormaps and the wrapping of functions by the
  libraries; a second screen.
* Modes of a connector, EDID, mode conversion, the names of outputs: field by field
  copies without state.
* Cursors: one system call per operation and an image that nothing else touches.
* An operation whose source and destination are both the screen may be prepared once, with
  the index of the source (`omap_exa.c` 260-263). In flip mode the CPU then writes under an
  access for reading, and nothing sets blit mode. A write to the screen in `Display`
  (`RootWrite`) is prepared as one.
* Rotation, gamma, panning, the pixels of the console.
* The second dimension in `Display`; contents of images beyond "latest or not".
* `bo_exynos.c`, whose `bo_exynos_create` uses a `bpp` that is not declared (67): only
  its lock calls are modelled.
* The order in which RandR calls resize, disable and mode set: any order that the
  guards of `Config` allow is explored.
* Reuse of XIDs: a window has one life in each server generation.
