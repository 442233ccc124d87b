------------------------------ MODULE BoLocks ------------------------------
(***************************************************************************)
(* The locks that CPU access takes on buffer objects: omap_bo_cpu_prep and *)
(* omap_bo_cpu_fini, the copies between root and slot that use them, and   *)
(* OMAPPrepareAccess / OMAPFinishAccess around one drawing operation of    *)
(* the server.  A prepared access is of a pixmap, its lock is of the bo    *)
(* that backs the pixmap, and page flips exchange bos between pixmaps.  An *)
(* unlock asserts that there is a lock; when the assertion fails, the      *)
(* server is gone.                                                         *)
(*                                                                         *)
(* One CRTC, one window with its back buffer, and other pixmaps; what the  *)
(* bos show is the business of Display.                                    *)
(***************************************************************************)
EXTENDS Integers, FiniteSets

CONSTANTS Others,     \* pixmaps that are neither screen nor back buffer
          Failing     \* calls that may fail: the lock of an access, the locks of
                      \* a copy, the switch to blit mode

ASSUME LocksAssumption ==
    /\ Others \cap {"root", "back", "rootBo", "slotBo", "backBo", "none"} = {}
    /\ Failing \subseteq {"access", "copy", "blit"}

Pixmaps == {"root", "back"} \cup Others
rootBo  == "rootBo"                     \* pOMAP->scanout
Bos     == {"rootBo", "slotBo", "backBo"} \cup Others

VARIABLES lock,      \* acquire_cnt and acquired_exclusive of a bo, kernel's lock
          bo,        \* OMAPPixmapPriv.bo
          slot,      \* pOMAP->scanouts[0].bo
          full,      \* whether the slot is as large as the screen
          flip_mode,
          flipping,  \* a page flip to the back buffer is under way
          phase,     \* of the drawing operation: "none", "prepare", "finish"; or
                     \* where an assertion failed: "copy_asserts", "finish_asserts"
          access     \* the pixmaps the operation has asked for, each with the bo
                     \* that is locked for it, or NoLock: refused, or finished

vars == <<lock, bo, slot, full, flip_mode, flipping, phase, access>>

NoLock   == "none"
Unlocked == [cnt |-> 0, exclusive |-> FALSE, kernel |-> "free"]

Init == /\ lock = [b \in Bos |-> Unlocked]
        /\ bo = [p \in Pixmaps |-> IF p = "root" THEN rootBo ELSE IF p = "back" THEN "backBo" ELSE p]
        /\ slot = "slotBo"
        /\ full \in BOOLEAN
        /\ flip_mode = "DISABLED"
        /\ flipping = FALSE
        /\ phase = "none"
        /\ access = [p \in {} |-> rootBo]
-----------------------------------------------------------------------------
(* The locks.  An outcome has the value returned and the locks after it.   *)

KernelLock(write) == IF write THEN "exclusive" ELSE "shared"

Prep(l, b, write, caller) ==
    LET taken(k) == [l EXCEPT ![b] = k]
        nested   == [l[b] EXCEPT !.cnt = @ + 1]
        first    == [cnt |-> 1, exclusive |-> write, kernel |-> KernelLock(write)]
    IN  IF l[b].cnt # 0
        THEN IF write /\ ~l[b].exclusive THEN {[ok |-> FALSE, l |-> l]}
             ELSE {[ok |-> TRUE, l |-> taken(nested)]}
        ELSE {[ok |-> TRUE, l |-> taken(first)]}
             \cup (IF caller \in Failing THEN {[ok |-> FALSE, l |-> l]} ELSE {})

FiniKept(l, b) == [l EXCEPT ![b].cnt = @ - 1]   \* mutant: the kernel's lock is kept

Fini(l, b) ==
    IF l[b].cnt = 1
    THEN [l EXCEPT ![b] = [cnt |-> 0, exclusive |-> @.exclusive, kernel |-> "free"]]
    ELSE [l EXCEPT ![b].cnt = @ - 1]

\* The locks that a copy takes, and whether each is there when it is released.
CopyLocks(l, src, dst) ==
    UNION {Prep(d.l, src, FALSE, "copy") : d \in Prep(l, dst, TRUE, "copy")}
AreHeld(l, src, dst) == l[src].cnt > 0 /\ Fini(l, src)[dst].cnt > 0

\* Mutant: the destination is not unlocked.
CopyBoLocked(l, src, dst) ==
    {Fini(s.l, src) : s \in {t \in CopyLocks(l, src, dst) : t.l[src].cnt > 0}}

\* drmmode_copy_bo ignores the results of the two preps.  The locks after a copy
\* whose assertions hold, and whether one can fail.
CopyBo(l, src, dst) ==
    {Fini(Fini(s.l, src), dst) : s \in {t \in CopyLocks(l, src, dst) : AreHeld(t.l, src, dst)}}
CopyMayAssert(l, src, dst) == \E s \in CopyLocks(l, src, dst) : ~AreHeld(s.l, src, dst)
-----------------------------------------------------------------------------
(* Page flips.                                                             *)

Exchanged == [bo EXCEPT !["root"] = bo["back"], !["back"] = bo["root"]]
Landed    == IF flipping THEN Exchanged ELSE bo

\* A swap that flips; on the way from blit mode the root is copied to the slot.
Swap == /\ phase = "none" /\ ~flipping
        /\ lock' \in IF flip_mode = "ENABLED" THEN {lock} ELSE CopyBo(lock, rootBo, slot)
        /\ bo' = [bo EXCEPT !["root"] = slot]
        /\ flip_mode' = "ENABLED" /\ flipping' = TRUE
        /\ UNCHANGED <<slot, full, phase, access>>

\* The main loop reads the event of the flip between two operations.
FlipDone == /\ phase = "none" /\ flipping
            /\ bo' = Exchanged
            /\ slot' = bo["back"]
            /\ flipping' = FALSE
            /\ UNCHANGED <<lock, full, flip_mode, phase, access>>
-----------------------------------------------------------------------------
(* A drawing operation prepares the pixmaps it uses, each once, in any     *)
(* order, for reading or writing: the index that the server gives need not *)
(* tell the use.  It draws and then finishes each that it was granted.     *)

Held        == {p \in DOMAIN access : access[p] # NoLock}
Asked(p, b) == [q \in DOMAIN access \cup {p} |-> IF q = p THEN b ELSE access[q]]

\* Access to pixmap p, backed by b, with locks l before the lock on b is taken.
Take(p, l, b, write) ==
    \E r \in Prep(l, b, write, "access") :
        /\ lock' = r.l
        /\ access' = Asked(p, IF r.ok THEN b ELSE NoLock)

Direct(p, write) == p # "root" \/ bo["root"] = rootBo \/ (~write /\ full)

Prepare(p, write) ==
    /\ Direct(p, write)
    /\ Take(p, lock, bo[p], write)
    /\ UNCHANGED <<bo, slot, full, flip_mode, flipping>>

\* Mutant: the lock is taken on the bo that is given back.
PrepareUpdatedRoot ==
    /\ ~Direct("root", FALSE)
    /\ \E l \in CopyBo(lock, slot, rootBo) : Take("root", l, rootBo, FALSE)
    /\ UNCHANGED <<bo, slot, full, flip_mode, flipping>>

\* A read of the screen pixmap in flip mode: the root bo is updated, but the
\* bo that gets locked is the one that backs the pixmap.  (A failure to update
\* it looks like a refused lock.)
PrepareUpdated ==
    /\ ~Direct("root", FALSE)
    /\ \E l \in CopyBo(lock, slot, rootBo) : Take("root", l, bo["root"], FALSE)
    /\ UNCHANGED <<bo, slot, full, flip_mode, flipping>>

\* Mutant: the lock is taken before blit mode is set.
PrepareBlitEarly ==
    /\ ~Direct("root", TRUE)
    /\ flipping' = FALSE
    /\ slot' = IF flipping THEN bo["back"] ELSE slot
    /\ Take("root", lock, Landed["root"], TRUE)
    /\ bo' = [Landed EXCEPT !["root"] = rootBo]
    /\ flip_mode' = "DISABLED" /\ UNCHANGED full

\* A write to the screen pixmap in flip mode: drmmode_set_blit_mode waits for
\* the flip, which exchanges the buffers whatever else is prepared, and copies
\* the slot to the root bo.
PrepareBlit ==
    /\ ~Direct("root", TRUE)
    /\ flipping' = FALSE
    /\ slot' = IF flipping THEN bo["back"] ELSE slot
    /\ \E l \in CopyBo(lock, slot', rootBo) :
         \/ /\ bo' = [Landed EXCEPT !["root"] = rootBo]
            /\ flip_mode' = "DISABLED"
            /\ Take("root", l, rootBo, TRUE)
         \/ /\ "blit" \in Failing
            /\ bo' = Landed
            /\ lock' = l
            /\ access' = Asked("root", NoLock)
            /\ UNCHANGED flip_mode
    /\ UNCHANGED full

Asks(p) == phase \in {"none", "prepare"} /\ p \notin DOMAIN access

PrepareAccess(p, write) ==
    /\ Asks(p)
    /\ phase' = "prepare"
    /\ \/ Prepare(p, write)
       \/ p = "root" /\ write /\ PrepareBlit
       \/ p = "root" /\ ~write /\ PrepareUpdated

Draw == /\ phase = "prepare"
        /\ phase' = "finish"
        /\ UNCHANGED <<lock, bo, slot, full, flip_mode, flipping, access>>

\* OMAPFinishAccess releases the bo that backs the pixmap now.
Finish(p) ==
    /\ phase = "finish" /\ p \in Held
    /\ lock[bo[p]].cnt > 0
    /\ lock' = Fini(lock, bo[p])
    /\ access' = [access EXCEPT ![p] = NoLock]
    /\ UNCHANGED <<bo, slot, full, flip_mode, flipping, phase>>

End == /\ phase = "finish" /\ Held = {}
       /\ phase' = "none"
       /\ access' = [p \in {} |-> rootBo]
       /\ UNCHANGED <<lock, bo, slot, full, flip_mode, flipping>>
-----------------------------------------------------------------------------
(* The end of the server: assert(bo->acquire_cnt > 0) fails.               *)

FinishAsserts(p) ==
    /\ phase = "finish" /\ p \in Held
    /\ lock[bo[p]].cnt = 0
    /\ phase' = "finish_asserts"
    /\ UNCHANGED <<lock, bo, slot, full, flip_mode, flipping, access>>

\* ... in the copy of a swap, or in one of those that an access makes.
CopyAsserts ==
    /\ \/ /\ phase = "none" /\ ~flipping /\ flip_mode = "DISABLED"
          /\ CopyMayAssert(lock, rootBo, slot)
       \/ /\ Asks("root") /\ ~Direct("root", FALSE)
          /\ CopyMayAssert(lock, slot, rootBo)
       \/ /\ Asks("root") /\ ~Direct("root", TRUE)
          /\ CopyMayAssert(lock, IF flipping THEN bo["back"] ELSE slot, rootBo)
    /\ phase' = "copy_asserts"
    /\ UNCHANGED <<lock, bo, slot, full, flip_mode, flipping, access>>

Next == \/ Swap \/ FlipDone
        \/ \E p \in Pixmaps, write \in BOOLEAN : PrepareAccess(p, write)
        \/ \E p \in Pixmaps : Finish(p) \/ FinishAsserts(p)
        \/ Draw \/ End \/ CopyAsserts

Spec == Init /\ [][Next]_vars
-----------------------------------------------------------------------------
TypeOK ==
    /\ lock \in [Bos -> [cnt : Nat, exclusive : BOOLEAN, kernel : {"free", "shared", "exclusive"}]]
    /\ bo \in [Pixmaps -> Bos] /\ slot \in Bos /\ full \in BOOLEAN
    /\ flip_mode \in {"ENABLED", "DISABLED"} /\ flipping \in BOOLEAN
    /\ phase \in {"none", "prepare", "finish", "copy_asserts", "finish_asserts"}
    /\ DOMAIN access \subseteq Pixmaps
    /\ \A p \in DOMAIN access : access[p] \in Bos \cup {NoLock}

\* As long as the server lives, a bo is locked once for each access in progress
\* that locked it, and by nothing between operations: whatever the order in
\* which the pixmaps of an operation are prepared and finished, copies,
\* exchanges of bos and refused locks leave no lock behind and take none away.
CountsAccesses ==
    \A b \in Bos : lock[b].cnt = Cardinality({p \in DOMAIN access : access[p] = b})

\* The kernel holds a lock for the driver exactly while the driver counts
\* accesses, and one that keeps the GPU out of a buffer that is drawn to.
KernelAgrees ==
    \A b \in Bos : /\ lock[b].cnt > 0 <=> lock[b].kernel # "free"
                   /\ lock[b].cnt > 0 => (lock[b].exclusive <=> lock[b].kernel = "exclusive")

\* The bo of a pixmap changes under an access in one case only: the operation
\* has prepared the back buffer and then asked for the screen, and the flip that
\* it had to wait for has made the bo it locked the front of the CRTC.
\* FinishAccess looks at the pixmap again, and for every other pixmap releases
\* what PrepareAccess has locked.
OnlyLandingMovesBo ==
    \A p \in Held :
        \/ bo[p] = access[p]
        \/ p = "back" /\ "root" \in DOMAIN access /\ ~flipping /\ access[p] = slot

\* So the assertion on the lock fails in that case, and in a copy when the
\* kernel refuses one of its locks, and never otherwise: no copy is refused a
\* lock because an access has it.
OnlyLandingAsserts ==
    /\ phase = "finish_asserts" => "back" \in Held /\ access["back"] = slot
    /\ phase = "copy_asserts" => "copy" \in Failing

\* assert(bo->acquire_cnt > 0) of omap_bo_cpu_fini (omap_dumb.c:318), where
\* FinishAccess calls it: what it releases is locked.
FinishFindsLock == phase = "finish" => \A p \in Held : lock[bo[p]].cnt > 0
=============================================================================
