--------------------------- MODULE BoLocks_proofs ---------------------------
(***************************************************************************)
(* The balance of CPU locks, for any number of pixmaps, in whichever order *)
(* an operation prepares them, and whichever locks and switches to blit    *)
(* mode fail; and the two ways in which the assertion on a lock can fail.  *)
(***************************************************************************)
EXTENDS BoLocks, FiniteSetTheorems, TLAPS

LockType  == [cnt : Nat, exclusive : BOOLEAN, kernel : {"free", "shared", "exclusive"}]
LocksType == [Bos -> LockType]

\* Which bo backs which pixmap.  No two pixmaps share one, and root bo and slot
\* back the screen pixmap or none.
Placed ==
    /\ \A p \in Others : bo[p] = p
    /\ bo["root"] = rootBo \/ bo["root"] = slot
    /\ flipping => bo["root"] = slot
    /\ flip_mode = "DISABLED" => ~flipping
    /\ \/ slot = "slotBo" /\ bo["back"] = "backBo"
       \/ slot = "backBo" /\ bo["back"] = "slotBo"

Free(k)  == k.cnt = 0 /\ k.kernel = "free"
Taken(k) == k.cnt = 1 /\ k.kernel = KernelLock(k.exclusive)

\* The locks l are those of the accesses a.
Locked(l, a) ==
    \A b \in Bos : IF \E p \in DOMAIN a : a[p] = b THEN Taken(l[b]) ELSE Free(l[b])

\* No two accesses have locked one bo.
Distinct == \A p, q \in Held : access[p] = access[q] => p = q

\* A bo is locked at most once.  The locks that a copy needs are free when it
\* starts, but for one: the slot that a flip has just made of the back buffer is
\* locked when the back buffer was prepared.
LocksInv ==
    /\ lock \in LocksType
    /\ bo \in [Pixmaps -> Bos] /\ slot \in Bos /\ full \in BOOLEAN
    /\ flip_mode \in {"ENABLED", "DISABLED"} /\ flipping \in BOOLEAN
    /\ DOMAIN access \subseteq Pixmaps
    /\ \A p \in DOMAIN access : access[p] \in Bos \cup {NoLock}
    /\ Placed
    /\ Locked(lock, access)
    /\ OnlyLandingMovesBo
    /\ Distinct

\* The invariant that is inductive.
Inv == /\ LocksInv
       /\ phase \in {"none", "prepare", "finish", "copy_asserts", "finish_asserts"}
       /\ phase = "none" => DOMAIN access = {}
       /\ OnlyLandingAsserts

-----------------------------------------------------------------------------
(* Locks.                                                                  *)

\* What comes of a lock on bo b that was free.
FreshOutcome(l, b, caller, r) ==
    /\ r.l \in LocksType
    /\ \A c \in Bos \ {b} : r.l[c] = l[c]
    /\ \/ r.ok = TRUE /\ Taken(r.l[b])
       \/ r.ok = FALSE /\ r.l = l /\ caller \in Failing

LEMMA PrepFree ==
    \A l \in LocksType, b \in Bos, write \in BOOLEAN, caller \in {"access", "copy"} :
        Free(l[b]) => \A r \in Prep(l, b, write, caller) : FreshOutcome(l, b, caller, r)
<1>. SUFFICES ASSUME NEW l \in LocksType, NEW b \in Bos, NEW write \in BOOLEAN,
                     NEW caller \in {"access", "copy"}, Free(l[b]), NEW r \in Prep(l, b, write, caller)
              PROVE  FreshOutcome(l, b, caller, r)
    OBVIOUS
<1>. DEFINE first == [cnt |-> 1, exclusive |-> write, kernel |-> KernelLock(write)]
<1>1. \/ r = [ok |-> TRUE, l |-> [l EXCEPT ![b] = first]]
      \/ r = [ok |-> FALSE, l |-> l] /\ caller \in Failing
    BY DEF Prep, Free
<1>2. first \in LockType /\ Taken(first)
    BY DEF LockType, Taken, KernelLock
<1>3. CASE r = [ok |-> TRUE, l |-> [l EXCEPT ![b] = first]]
    <2>1. r.ok = TRUE /\ r.l = [l EXCEPT ![b] = first]
        BY <1>3
    <2>2. r.l \in LocksType /\ r.l[b] = first /\ \A c \in Bos \ {b} : r.l[c] = l[c]
        BY <2>1, <1>2 DEF LocksType
    <2>. QED
        BY <2>1, <2>2, <1>2 DEF FreshOutcome
<1>4. CASE r = [ok |-> FALSE, l |-> l] /\ caller \in Failing
    BY <1>4 DEF FreshOutcome
<1>. QED
    BY <1>1, <1>3, <1>4

LEMMA FiniTaken ==
    ASSUME NEW l \in LocksType, NEW b \in Bos, Taken(l[b])
    PROVE  /\ Fini(l, b) \in LocksType
           /\ \A c \in Bos \ {b} : Fini(l, b)[c] = l[c]
           /\ Free(Fini(l, b)[b])
<1>. DEFINE k == [cnt |-> 0, exclusive |-> l[b].exclusive, kernel |-> "free"]
<1>1. l[b] \in LockType /\ l[b].cnt = 1
    BY DEF Taken, LocksType
<1>2. Fini(l, b) = [l EXCEPT ![b] = k]
    BY <1>1 DEF Fini
<1>3. k \in LockType /\ Free(k)
    BY <1>1 DEF LockType, Free
<1>. QED
    BY <1>2, <1>3 DEF LocksType

\* A read lock on a bo that is locked once, and its release.
LEMMA PrepTaken ==
    ASSUME NEW l \in LocksType, NEW b \in Bos, Taken(l[b]), NEW r \in Prep(l, b, FALSE, "copy")
    PROVE  /\ r.l \in LocksType /\ r.l[b].cnt = 2
           /\ \A c \in Bos \ {b} : r.l[c] = l[c]
           /\ Fini(r.l, b) = l
<1>. DEFINE k == [l[b] EXCEPT !.cnt = 2]
<1>1. l[b] \in LockType /\ l[b].cnt = 1
    BY DEF Taken, LocksType
<1>2. r = [ok |-> TRUE, l |-> [l EXCEPT ![b] = k]]
    BY <1>1 DEF Prep
<1>3. k \in LockType /\ k.cnt = 2 /\ [k EXCEPT !.cnt = 1] = l[b]
    BY <1>1 DEF LockType
<1>. HIDE DEF k
<1>4. r.l = [l EXCEPT ![b] = k] /\ r.l[b] = k
    BY <1>2 DEF LocksType
<1>5. Fini(r.l, b) = [r.l EXCEPT ![b] = [k EXCEPT !.cnt = 1]]
    <2>1. r.l[b].cnt # 1 /\ r.l[b].cnt - 1 = 1
        BY <1>3, <1>4
    <2>2. Fini(r.l, b) = [r.l EXCEPT ![b] = [r.l[b] EXCEPT !.cnt = r.l[b].cnt - 1]]
        BY <2>1 DEF Fini
    <2>. QED
        BY <1>4, <2>1, <2>2
<1>6. Fini(r.l, b) = [l EXCEPT ![b] = l[b]]
    BY <1>3, <1>4, <1>5 DEF LocksType
<1>. QED
    BY <1>3, <1>4, <1>6 DEF LocksType

\* A lock taken and the one before it that is still there.
LEMMA FiniOther ==
    ASSUME NEW l \in LocksType, NEW b \in Bos, NEW c \in Bos \ {b}
    PROVE  Fini(l, b)[c] = l[c]
    BY DEF Fini, LocksType

Balanced(l, m, src, dst) ==
    /\ m \in LocksType
    /\ \A c \in Bos \ {src, dst} : m[c] = l[c]
    /\ Free(m[dst])
    /\ Free(l[src]) => Free(m[src])
    /\ Taken(l[src]) => Taken(m[src])

\* A copy leaves no lock behind and takes none away, or asserts.
LEMMA CopyOutcome ==
    ASSUME NEW l \in LocksType, NEW src \in Bos, NEW dst \in Bos, src # dst,
           Free(l[src]) \/ Taken(l[src]), Free(l[dst]), NEW s \in CopyLocks(l, src, dst)
    PROVE  IF AreHeld(s.l, src, dst)
           THEN Balanced(l, Fini(Fini(s.l, src), dst), src, dst)
           ELSE "copy" \in Failing
<1>1. PICK d \in Prep(l, dst, TRUE, "copy") : s \in Prep(d.l, src, FALSE, "copy")
    BY DEF CopyLocks
<1>a. FreshOutcome(l, dst, "copy", d)
    BY PrepFree, Zenon
<1>2. d.l \in LocksType /\ \A c \in Bos \ {dst} : d.l[c] = l[c]
    BY <1>a DEF FreshOutcome
<1>3. d.l[src] = l[src]
    BY <1>2
\* The source, when its lock is granted.
<1>. DEFINE n == Fini(s.l, src)
            Granted == /\ s.l[src].cnt > 0 /\ n \in LocksType
                       /\ \A c \in Bos \ {src} : n[c] = d.l[c]
                       /\ Free(l[src]) => Free(n[src])
                       /\ Taken(l[src]) => Taken(n[src])
<1>4. Granted \/ (s.l = d.l /\ Free(l[src]) /\ "copy" \in Failing)
    <2>1. CASE Taken(l[src])
        <3>1. s.l \in LocksType /\ s.l[src].cnt = 2 /\ n = d.l
            BY <1>1, <1>2, <1>3, <2>1, PrepTaken
        <3>2. ~Free(l[src])
            BY <2>1 DEF Free, Taken
        <3>. QED
            BY <1>2, <1>3, <2>1, <3>1, <3>2
    <2>2. CASE Free(l[src])
        <3>1. FreshOutcome(d.l, src, "copy", s)
            BY <1>1, <1>2, <1>3, <2>2, PrepFree, Zenon
        <3>2. CASE s.ok = TRUE /\ Taken(s.l[src])
            <4>1. s.l \in LocksType /\ \A c \in Bos \ {src} : s.l[c] = d.l[c]
                BY <3>1 DEF FreshOutcome
            <4>2. n \in LocksType /\ Free(n[src]) /\ \A c \in Bos \ {src} : n[c] = s.l[c]
                BY <3>2, <4>1, FiniTaken
            <4>3. s.l[src].cnt > 0 /\ ~Taken(l[src])
                BY <2>2, <3>2 DEF Taken, Free
            <4>. QED
                BY <4>1, <4>2, <4>3
        <3>3. CASE s.l = d.l /\ "copy" \in Failing
            BY <2>2, <3>3
        <3>. QED
            BY <3>1, <3>2, <3>3 DEF FreshOutcome
    <2>. QED
        BY <2>1, <2>2
<1>5. CASE s.l = d.l /\ Free(l[src]) /\ "copy" \in Failing
    <2>1. s.l[src].cnt = 0
        BY <1>3, <1>5 DEF Free
    <2>. QED
        BY <1>5, <2>1 DEF AreHeld
<1>6. CASE Granted
    <2>1. n[dst] = d.l[dst]
        BY <1>6
    <2>2. CASE d.ok = TRUE /\ Taken(d.l[dst])
        <3>1. Taken(n[dst])
            BY <2>1, <2>2
        <3>2. AreHeld(s.l, src, dst)
            BY <1>6, <3>1 DEF AreHeld, Taken
        <3>3. /\ Fini(n, dst) \in LocksType /\ Free(Fini(n, dst)[dst])
              /\ \A c \in Bos \ {dst} : Fini(n, dst)[c] = n[c]
            BY <1>6, <3>1, FiniTaken
        <3>4. /\ \A c \in Bos \ {src, dst} : Fini(n, dst)[c] = l[c]
              /\ Fini(n, dst)[src] = n[src]
            BY <1>2, <1>6, <3>3
        <3>5. Balanced(l, Fini(n, dst), src, dst)
            BY <1>6, <3>3, <3>4 DEF Balanced
        <3>. QED
            BY <3>2, <3>5
    <2>3. CASE d.l = l /\ "copy" \in Failing
        <3>1. Fini(s.l, src)[dst].cnt = 0
            BY <2>1, <2>3 DEF Free
        <3>. QED
            BY <2>3, <3>1 DEF AreHeld
    <2>. QED
        BY <1>a, <2>2, <2>3 DEF FreshOutcome
<1>. QED
    BY <1>4, <1>5, <1>6

LEMMA CopyBoBalanced ==
    ASSUME NEW l \in LocksType, NEW src \in Bos, NEW dst \in Bos, src # dst,
           Free(l[src]) \/ Taken(l[src]), Free(l[dst])
    PROVE  /\ \A m \in CopyBo(l, src, dst) : Balanced(l, m, src, dst)
           /\ CopyMayAssert(l, src, dst) => "copy" \in Failing
<1>1. ASSUME NEW m \in CopyBo(l, src, dst)
      PROVE  Balanced(l, m, src, dst)
    <2>1. PICK s \in CopyLocks(l, src, dst) :
            AreHeld(s.l, src, dst) /\ m = Fini(Fini(s.l, src), dst)
        BY DEF CopyBo
    <2>. QED
        BY <2>1, CopyOutcome
<1>2. ASSUME CopyMayAssert(l, src, dst)
      PROVE  "copy" \in Failing
    <2>1. PICK s \in CopyLocks(l, src, dst) : ~AreHeld(s.l, src, dst)
        BY <1>2 DEF CopyMayAssert
    <2>. QED
        BY <2>1, CopyOutcome
<1>. QED
    BY <1>1, <1>2

LEMMA BoNames == /\ rootBo \in Bos /\ "slotBo" \in Bos /\ "backBo" \in Bos
                 /\ Others \subseteq Bos
                 /\ "root" \notin Others /\ "back" \notin Others /\ rootBo \notin Others
                 /\ "slotBo" \notin Others /\ "backBo" \notin Others
                 /\ NoLock \notin Bos
    BY LocksAssumption DEF Bos, rootBo, NoLock

\* No two pixmaps share a bo.
LEMMA Injective ==
    ASSUME Placed, NEW p \in Pixmaps, NEW q \in Pixmaps, bo[p] = bo[q]
    PROVE  p = q
    BY BoNames DEF Placed, Pixmaps, rootBo
-----------------------------------------------------------------------------
(* The steps.                                                              *)
LEMMA InitInv == Init => Inv
<1>. SUFFICES ASSUME Init PROVE Inv
    OBVIOUS
<1>1. DOMAIN access = {}
    BY DEF Init
<1>2. lock \in LocksType /\ Locked(lock, access)
    BY <1>1 DEF Init, Unlocked, LocksType, LockType, Locked, Free
<1>3. bo \in [Pixmaps -> Bos] /\ slot \in Bos
    BY BoNames DEF Init, Pixmaps
<1>4. Placed
    BY BoNames DEF Init, Placed, Pixmaps, rootBo
<1>5. LocksInv
    BY <1>1, <1>2, <1>3, <1>4 DEF Init, LocksInv, OnlyLandingMovesBo, Distinct, Held
<1>. QED
    BY <1>1, <1>5 DEF Init, Inv, OnlyLandingAsserts

\* Between operations every bo is free.
LEMMA NothingLocked ==
    ASSUME NEW l, NEW a, Locked(l, a), DOMAIN a = {}, NEW b \in Bos
    PROVE  Free(l[b])
    BY DEF Locked

\* Whatever is locked is not what backs another pixmap.
LEMMA LockedElsewhere ==
    ASSUME LocksInv, NEW q \in Held, NEW p \in Pixmaps \ {q}, p # "root" \/ "root" \notin DOMAIN access
    PROVE  access[q] # bo[p]
<1>1. q \in Pixmaps /\ q \in DOMAIN access
    BY DEF LocksInv, Held
<1>2. CASE bo[q] = access[q]
    BY <1>1, <1>2, Injective DEF LocksInv
<1>3. CASE q = "back" /\ "root" \in DOMAIN access /\ access[q] = slot
    <2>1. p \in Others
        BY <1>3 DEF Pixmaps
    <2>2. bo[p] = p /\ slot \in {"slotBo", "backBo"}
        BY <2>1 DEF LocksInv, Placed
    <2>. QED
        BY <1>3, <2>1, <2>2, BoNames
<1>. QED
    BY <1>2, <1>3 DEF LocksInv, OnlyLandingMovesBo

\* The bo of a pixmap that is not asked for is free.
LEMMA UnusedFree ==
    ASSUME LocksInv, NEW p \in Pixmaps \ DOMAIN access
    PROVE  /\ bo[p] \in Bos /\ Free(lock[bo[p]])
           /\ \A q \in Held : access[q] # bo[p]
<1>1. bo[p] \in Bos
    BY DEF LocksInv
<1>2. \A q \in Held : access[q] # bo[p]
    BY LockedElsewhere DEF Held
<1>3. \A q \in DOMAIN access : access[q] # bo[p]
    BY <1>1, <1>2, BoNames DEF Held
<1>. QED
    BY <1>1, <1>2, <1>3 DEF LocksInv, Locked

\* While the screen pixmap is not asked for, an access has the bo of its pixmap.
LEMMA NothingMoved ==
    ASSUME LocksInv, "root" \notin DOMAIN access, NEW q \in Held
    PROVE  q \in Pixmaps \ {"root"} /\ access[q] = bo[q]
    BY DEF LocksInv, OnlyLandingMovesBo, Held

\* The root bo and the slot are free then.
LEMMA CopyBosFree ==
    ASSUME LocksInv, "root" \notin DOMAIN access
    PROVE  /\ slot \in Bos /\ slot # rootBo
           /\ Free(lock[slot]) /\ Free(lock[rootBo])
<1>1. slot \in Bos /\ slot # rootBo /\ DOMAIN access \subseteq Pixmaps
    BY DEF LocksInv, Placed, rootBo
<1>2. \A p \in Pixmaps \ {"root"} : bo[p] # slot /\ bo[p] # rootBo
    BY BoNames DEF LocksInv, Placed, Pixmaps, rootBo
<1>3. \A p \in DOMAIN access : access[p] # slot /\ access[p] # rootBo
    BY <1>1, <1>2, NothingMoved, BoNames DEF Held
<1>. QED
    BY <1>1, <1>3, BoNames DEF LocksInv, Locked

\* What comes of an access to pixmap p, which bo b backs.
AccessTaken(p, b) ==
    /\ lock' \in LocksType
    /\ Locked(lock, access)'
    /\ DOMAIN access' = DOMAIN access \cup {p}
    /\ access'[p] \in {b, NoLock}
    /\ \A q \in DOMAIN access : access'[q] = access[q]

LEMMA TakeLocked ==
    ASSUME NEW l \in LocksType, NEW p \in Pixmaps \ DOMAIN access, NEW b \in Bos,
           NEW write \in BOOLEAN, Locked(l, access), Free(l[b]),
           Take(p, l, b, write)
    PROVE  AccessTaken(p, b)
<1>1. PICK r \in Prep(l, b, write, "access") :
        /\ lock' = r.l
        /\ access' = Asked(p, IF r.ok THEN b ELSE NoLock)
    BY DEF Take
<1>a. FreshOutcome(l, b, "access", r)
    BY PrepFree, Zenon
<1>2. /\ r.l \in LocksType /\ \A c \in Bos \ {b} : r.l[c] = l[c]
      /\ (r.ok = TRUE /\ Taken(r.l[b])) \/ (r.ok = FALSE /\ r.l = l)
    BY <1>a DEF FreshOutcome
<1>3. /\ DOMAIN access' = DOMAIN access \cup {p}
      /\ access'[p] = IF r.ok THEN b ELSE NoLock
      /\ \A q \in DOMAIN access : access'[q] = access[q]
    BY <1>1 DEF Asked
<1>4. Locked(lock, access)'
    <2>1. CASE r.ok = TRUE
        BY <1>1, <1>2, <1>3, <2>1 DEF Locked
    <2>2. CASE r.ok = FALSE
        BY <1>1, <1>2, <1>3, <2>2, BoNames DEF Locked
    <2>. QED
        BY <1>2, <2>1, <2>2
<1>. QED
    BY <1>1, <1>2, <1>3, <1>4 DEF AccessTaken

\* A copy leaves the locks of the accesses as they are.
LEMMA BalancedLocked ==
    ASSUME NEW m, NEW src \in Bos, NEW dst \in Bos, Locked(lock, access),
           Free(lock[dst]), Free(lock[src]) \/ Taken(lock[src]), Balanced(lock, m, src, dst)
    PROVE  /\ m \in LocksType /\ Locked(m, access)
           /\ \A b \in Bos : Free(lock[b]) => Free(m[b])
    BY DEF Locked, Balanced, Free, Taken

\* A copy between root bo and slot, either way, while neither is accessed.
LEMMA CopyLocked ==
    ASSUME LocksInv, "root" \notin DOMAIN access,
           NEW l \in CopyBo(lock, rootBo, slot) \cup CopyBo(lock, slot, rootBo)
    PROVE  /\ l \in LocksType /\ Locked(l, access)
           /\ \A b \in Bos : Free(lock[b]) => Free(l[b])
<1>1. /\ lock \in LocksType /\ rootBo \in Bos /\ slot \in Bos /\ slot # rootBo
      /\ Free(lock[slot]) /\ Free(lock[rootBo]) /\ Locked(lock, access)
    BY CopyBosFree, BoNames DEF LocksInv
<1>2. Balanced(lock, l, rootBo, slot) \/ Balanced(lock, l, slot, rootBo)
    BY <1>1, CopyBoBalanced
<1>. QED
    BY <1>1, <1>2, BalancedLocked

\* After a swap, no access is in progress.
LEMMA SwapInv ==
    ASSUME Inv, Swap
    PROVE  Inv'
<1>1. DOMAIN access = {} /\ access' = access
    BY DEF Inv, Swap
<1>2. lock' \in LocksType /\ Locked(lock', access)
    <2>1. CASE flip_mode = "ENABLED"
        BY <2>1 DEF Swap, Inv, LocksInv
    <2>2. CASE flip_mode # "ENABLED"
        BY <1>1, <2>2, CopyLocked DEF Swap, Inv
    <2>. QED
        BY <2>1, <2>2
<1>3. Placed' /\ bo' \in [Pixmaps -> Bos]
    BY BoNames DEF Inv, LocksInv, Placed, Swap, Pixmaps
<1>4. Locked(lock, access)'
    BY <1>1, <1>2 DEF Locked
<1>. QED
    BY <1>1, <1>2, <1>3, <1>4
    DEF Inv, LocksInv, Swap, OnlyLandingMovesBo, OnlyLandingAsserts, Distinct, Held

LEMMA ExchangedPlaced ==
    ASSUME LocksInv, flipping
    PROVE  /\ Exchanged \in [Pixmaps -> Bos]
           /\ Exchanged["root"] = bo["back"] /\ Exchanged["back"] = slot
           /\ \A p \in Others : Exchanged[p] = p
    BY BoNames DEF LocksInv, Placed, Exchanged, Pixmaps

LEMMA FlipDoneInv ==
    ASSUME Inv, FlipDone
    PROVE  Inv'
<1>1. DOMAIN access = {} /\ access' = access /\ lock' = lock
    BY DEF Inv, FlipDone
<1>2. bo' \in [Pixmaps -> Bos] /\ Placed' /\ slot' \in Bos
    BY ExchangedPlaced, BoNames DEF Inv, LocksInv, Placed, FlipDone
<1>3. Locked(lock, access)'
    BY <1>1 DEF Inv, LocksInv, Locked
<1>. QED
    BY <1>1, <1>2, <1>3
    DEF Inv, LocksInv, FlipDone, OnlyLandingMovesBo, OnlyLandingAsserts, Distinct, Held

\* An access that has come out as it should, with all else in its place.
LEMMA AccessInv ==
    ASSUME LocksInv, NEW p \in Pixmaps \ DOMAIN access, AccessTaken(p, bo'[p]), Placed',
           bo' \in [Pixmaps -> Bos], slot' \in Bos, flip_mode' \in {"ENABLED", "DISABLED"},
           flipping' \in BOOLEAN, full' = full,
           \A q \in Held : access[q] # bo'[p],
           \A q \in Held : \/ bo'[q] = access[q]
                          \/ /\ q = "back" /\ "root" \in DOMAIN access \cup {p}
                             /\ ~flipping' /\ access[q] = slot'
    PROVE  LocksInv'
<1>1. DOMAIN access' \subseteq Pixmaps /\ p \in DOMAIN access'
    BY DEF AccessTaken, LocksInv
<1>2. \A q \in DOMAIN access' : access'[q] \in Bos \cup {NoLock}
    BY <1>1 DEF AccessTaken, LocksInv
<1>3. \A q \in Held' : \/ q \in Held /\ access'[q] = access[q]
                       \/ q = p /\ access'[q] = bo'[p]
    BY DEF AccessTaken, Held
<1>4. Distinct'
    <2>. SUFFICES ASSUME NEW q \in Held', NEW r \in Held', access'[q] = access'[r]
                  PROVE  q = r
        BY DEF Distinct
    <2>1. CASE q \in Held /\ r \in Held /\ access'[q] = access[q] /\ access'[r] = access[r]
        BY <2>1 DEF LocksInv, Distinct
    <2>2. CASE q = p /\ access'[q] = bo'[p]
        BY <1>3, <2>2
    <2>3. CASE r = p /\ access'[r] = bo'[p]
        BY <1>3, <2>3
    <2>. QED
        BY <1>3, <2>1, <2>2, <2>3
<1>5. OnlyLandingMovesBo'
    BY <1>1, <1>3 DEF OnlyLandingMovesBo, AccessTaken
<1>. QED
    BY <1>1, <1>2, <1>4, <1>5 DEF LocksInv, AccessTaken

LEMMA PrepareInv ==
    ASSUME LocksInv, NEW p \in Pixmaps \ DOMAIN access, NEW write \in BOOLEAN,
           Prepare(p, write)
    PROVE  LocksInv'
<1>1. bo[p] \in Bos /\ Free(lock[bo[p]]) /\ \A q \in Held : access[q] # bo[p]
    BY UnusedFree
<1>2. AccessTaken(p, bo[p])
    BY <1>1, TakeLocked DEF LocksInv, Prepare
<1>3. UNCHANGED <<bo, slot, full, flip_mode, flipping>>
    BY DEF Prepare
<1>4. Placed'
    BY <1>3 DEF LocksInv, Placed
<1>. QED
    BY <1>1, <1>2, <1>3, <1>4, AccessInv DEF LocksInv, OnlyLandingMovesBo

LEMMA PrepareUpdatedInv ==
    ASSUME LocksInv, "root" \notin DOMAIN access, PrepareUpdated
    PROVE  LocksInv'
<1>1. PICK l \in CopyBo(lock, slot, rootBo) : Take("root", l, bo["root"], FALSE)
    BY DEF PrepareUpdated
<1>2. /\ l \in LocksType /\ Locked(l, access)
      /\ \A b \in Bos : Free(lock[b]) => Free(l[b])
    BY CopyLocked
<1>3. "root" \in Pixmaps \ DOMAIN access
    BY DEF Pixmaps
<1>4. /\ bo["root"] \in Bos /\ Free(l[bo["root"]])
      /\ \A q \in Held : access[q] # bo["root"]
    BY <1>2, <1>3, UnusedFree
<1>6. AccessTaken("root", bo["root"])
    BY <1>1, <1>2, <1>3, <1>4, TakeLocked, Zenon
<1>7. UNCHANGED <<bo, slot, full, flip_mode, flipping>>
    BY DEF PrepareUpdated
<1>8. Placed'
    BY <1>7 DEF LocksInv, Placed
<1>. QED
    BY <1>3, <1>4, <1>6, <1>7, <1>8, AccessInv DEF LocksInv, OnlyLandingMovesBo

\* Blit mode is set: a pending flip lands, and only the back buffer may have
\* been locked as what is now the slot.
LEMMA PrepareBlitInv ==
    ASSUME LocksInv, "root" \notin DOMAIN access, PrepareBlit
    PROVE  LocksInv'
<1>1. /\ Landed \in [Pixmaps -> Bos] /\ slot' \in {"slotBo", "backBo"}
      /\ Landed["root"] = rootBo \/ Landed["root"] = slot'
      /\ Landed["back"] \in {"slotBo", "backBo"} \ {slot'}
      /\ \A p \in Others : Landed[p] = p
    <2>1. CASE flipping
        BY <2>1, ExchangedPlaced, BoNames DEF LocksInv, Placed, PrepareBlit, Landed
    <2>2. CASE ~flipping
        BY <2>2 DEF LocksInv, Placed, PrepareBlit, Landed
    <2>. QED
        BY <2>1, <2>2
<1>2. slot' \in Bos /\ slot' # rootBo /\ rootBo \in Bos /\ "root" \in Pixmaps \ DOMAIN access
    BY <1>1, BoNames DEF rootBo, Pixmaps
<1>3. lock \in LocksType /\ Locked(lock, access) /\ Free(lock[rootBo])
    BY CopyBosFree DEF LocksInv
<1>4. PICK l \in CopyBo(lock, slot', rootBo) :
        \/ /\ bo' = [Landed EXCEPT !["root"] = rootBo]
           /\ flip_mode' = "DISABLED"
           /\ Take("root", l, rootBo, TRUE)
        \/ /\ "blit" \in Failing
           /\ bo' = Landed
           /\ lock' = l
           /\ access' = Asked("root", NoLock)
           /\ UNCHANGED flip_mode
    BY DEF PrepareBlit
<1>5. Free(lock[slot']) \/ Taken(lock[slot'])
    BY <1>2, <1>3 DEF Locked
<1>6. /\ l \in LocksType /\ Locked(l, access) /\ Free(l[rootBo])
    <2>1. Balanced(lock, l, slot', rootBo)
        BY <1>2, <1>3, <1>5, CopyBoBalanced
    <2>. QED
        BY <1>2, <1>3, <1>5, <2>1, BalancedLocked
<1>7. flipping' = FALSE /\ full' = full
    BY DEF PrepareBlit
<1>8. \A q \in Held : /\ access[q] # rootBo
                      /\ q # "root" /\ q \in Pixmaps
                      /\ (access[q] = Landed[q]) \/ (q = "back" /\ access[q] = slot')
    <2>. SUFFICES ASSUME NEW q \in Held
                  PROVE  /\ access[q] # rootBo
                         /\ q # "root" /\ q \in Pixmaps
                         /\ (access[q] = Landed[q]) \/ (q = "back" /\ access[q] = slot')
        OBVIOUS
    <2>1. q \in Pixmaps \ {"root"} /\ access[q] = bo[q]
        BY NothingMoved
    <2>2. bo[q] # rootBo
        BY <2>1, BoNames DEF LocksInv, Placed, Pixmaps, rootBo
    <2>3. CASE q = "back"
        BY <2>1, <2>2, <2>3 DEF Landed, PrepareBlit
    <2>4. CASE q \in Others
        BY <1>1, <2>1, <2>2, <2>4 DEF LocksInv, Placed
    <2>. QED
        BY <2>1, <2>3, <2>4 DEF Pixmaps
<1>9. CASE /\ bo' = [Landed EXCEPT !["root"] = rootBo]
           /\ flip_mode' = "DISABLED"
           /\ Take("root", l, rootBo, TRUE)
    <2>1. AccessTaken("root", rootBo)
        BY <1>2, <1>6, <1>9, TakeLocked, Zenon
    <2>2. /\ bo' \in [Pixmaps -> Bos] /\ bo'["root"] = rootBo
          /\ \A q \in Pixmaps \ {"root"} : bo'[q] = Landed[q]
        BY <1>1, <1>2, <1>9
    <2>3. Placed'
        BY <1>1, <1>2, <1>7, <1>9, <2>2, BoNames DEF Placed, Pixmaps
    <2>4. \A q \in Held : bo'[q] = access[q] \/ (q = "back" /\ access[q] = slot')
        BY <1>8, <2>2
    <2>. QED
        BY <1>2, <1>7, <1>8, <1>9, <2>1, <2>2, <2>3, <2>4, AccessInv
<1>10. CASE /\ bo' = Landed /\ lock' = l
            /\ access' = Asked("root", NoLock)
            /\ UNCHANGED flip_mode
    <2>1. Placed'
        BY <1>1, <1>7, <1>10 DEF Placed
    <2>2. /\ DOMAIN access' = DOMAIN access \cup {"root"} /\ access'["root"] = NoLock
          /\ \A q \in DOMAIN access : access'[q] = access[q]
        BY <1>10 DEF Asked
    <2>3. Locked(lock, access)'
        BY <1>6, <1>10, <2>2, BoNames DEF Locked
    <2>4. Held' = Held /\ \A q \in Held : access'[q] = access[q]
        BY <1>2, <2>2 DEF Held
    <2>5. OnlyLandingMovesBo' /\ Distinct'
        BY <1>7, <1>8, <1>10, <2>2, <2>4 DEF OnlyLandingMovesBo, LocksInv, Distinct
    <2>6. DOMAIN access' \subseteq Pixmaps /\ \A q \in DOMAIN access' : access'[q] \in Bos \cup {NoLock}
        BY <1>2, <2>2 DEF LocksInv
    <2>7. bo' \in [Pixmaps -> Bos] /\ slot' \in Bos /\ lock' \in LocksType
          /\ full' \in BOOLEAN /\ flipping' \in BOOLEAN /\ flip_mode' \in {"ENABLED", "DISABLED"}
        BY <1>1, <1>2, <1>6, <1>7, <1>10 DEF LocksInv
    <2>. QED
        BY <2>1, <2>3, <2>5, <2>6, <2>7 DEF LocksInv
<1>. QED
    BY <1>4, <1>9, <1>10

LEMMA PrepareAccessInv ==
    ASSUME Inv, NEW p \in Pixmaps, NEW write \in BOOLEAN, PrepareAccess(p, write)
    PROVE  Inv'
<1>1. LocksInv /\ p \in Pixmaps \ DOMAIN access /\ phase' = "prepare"
    BY DEF Inv, PrepareAccess, Asks
<1>2. CASE Prepare(p, write)
    BY <1>1, <1>2, PrepareInv DEF Inv, OnlyLandingAsserts
<1>3. CASE p = "root" /\ PrepareBlit
    BY <1>1, <1>3, PrepareBlitInv DEF Inv, OnlyLandingAsserts
<1>4. CASE p = "root" /\ PrepareUpdated
    BY <1>1, <1>4, PrepareUpdatedInv DEF Inv, OnlyLandingAsserts
<1>. QED
    BY <1>2, <1>3, <1>4 DEF PrepareAccess

\* What backs the back buffer after a flip has landed under its access is free.
LEMMA MovedFree ==
    ASSUME LocksInv, NEW p \in Held, bo[p] # access[p]
    PROVE  p = "back" /\ access[p] = slot /\ Free(lock[bo[p]])
<1>1. p = "back" /\ access[p] = slot /\ ~flipping
    BY DEF LocksInv, OnlyLandingMovesBo
<1>2. "back" \in Pixmaps /\ bo["back"] \in Bos /\ DOMAIN access \subseteq Pixmaps
    BY DEF LocksInv, Pixmaps
<1>3. \A q \in Held \ {"back"} : access[q] # bo["back"]
    BY <1>2, LockedElsewhere
<1>4. \A q \in DOMAIN access : access[q] # bo["back"]
    BY <1>1, <1>2, <1>3, BoNames DEF Held
<1>. QED
    BY <1>1, <1>2, <1>4 DEF LocksInv, Locked

\* What is unlocked is what was locked, or it is not locked at all.
LEMMA FinishInv ==
    ASSUME Inv, NEW p \in Pixmaps, Finish(p)
    PROVE  Inv'
<1>1. /\ LocksInv /\ p \in Held /\ phase' = phase /\ phase = "finish"
      /\ lock' = Fini(lock, bo[p]) /\ access' = [access EXCEPT ![p] = NoLock]
      /\ lock[bo[p]].cnt > 0
      /\ UNCHANGED <<bo, slot, full, flip_mode, flipping>>
    BY DEF Inv, Finish
<1>2. bo[p] \in Bos /\ access[p] = bo[p] /\ lock \in LocksType /\ p \in DOMAIN access
    BY <1>1, MovedFree DEF LocksInv, Free, Held
<1>3. Taken(lock[bo[p]])
    BY <1>1, <1>2 DEF LocksInv, Locked
<1>4. /\ lock' \in LocksType /\ Free(lock'[bo[p]])
      /\ \A c \in Bos \ {bo[p]} : lock'[c] = lock[c]
    BY <1>1, <1>2, <1>3, FiniTaken
<1>5. /\ DOMAIN access' = DOMAIN access /\ access'[p] = NoLock
      /\ \A q \in DOMAIN access \ {p} : access'[q] = access[q]
      /\ Held' = Held \ {p}
    BY <1>1, <1>2 DEF Held
<1>6. \A q \in DOMAIN access' : access'[q] # bo[p]
    BY <1>1, <1>2, <1>5, BoNames DEF LocksInv, Distinct, Held
<1>7. Locked(lock, access)'
    <2>. SUFFICES ASSUME NEW b \in Bos
                  PROVE  IF \E q \in DOMAIN access' : access'[q] = b
                         THEN Taken(lock'[b]) ELSE Free(lock'[b])
        BY DEF Locked
    <2>1. CASE b = bo[p]
        BY <1>4, <1>6, <2>1
    <2>2. CASE b # bo[p]
        <3>1. lock'[b] = lock[b]
            BY <1>4, <2>2
        <3>2. (\E q \in DOMAIN access' : access'[q] = b)
                <=> (\E q \in DOMAIN access : access[q] = b)
            BY <1>2, <1>5, <2>2, BoNames
        <3>. QED
            BY <1>1, <3>1, <3>2 DEF LocksInv, Locked
    <2>. QED
        BY <2>1, <2>2
<1>8. Placed'
    BY <1>1 DEF LocksInv, Placed
<1>9. OnlyLandingMovesBo' /\ Distinct'
    BY <1>1, <1>5 DEF LocksInv, OnlyLandingMovesBo, Distinct, Held
<1>10. LocksInv'
    BY <1>1, <1>4, <1>5, <1>7, <1>8, <1>9 DEF LocksInv
<1>. QED
    BY <1>1, <1>10 DEF Inv, OnlyLandingAsserts

LEMMA EndInv ==
    ASSUME Inv, End
    PROVE  Inv'
<1>1. /\ LocksInv /\ Held = {} /\ DOMAIN access' = {} /\ phase' = "none"
      /\ UNCHANGED <<lock, bo, slot, full, flip_mode, flipping>>
    BY DEF Inv, End
<1>2. Locked(lock, access)'
    BY <1>1, BoNames DEF LocksInv, Locked, Held
<1>3. Placed'
    BY <1>1 DEF LocksInv, Placed
<1>4. Held' = {}
    BY <1>1 DEF Held
<1>. QED
    BY <1>1, <1>2, <1>3, <1>4
    DEF Inv, LocksInv, OnlyLandingMovesBo, OnlyLandingAsserts, Distinct

\* Steps that leave locks and bos alone.
LEMMA LocksKept ==
    ASSUME LocksInv, UNCHANGED <<lock, bo, slot, full, flip_mode, flipping, access>>
    PROVE  LocksInv'
    BY DEF LocksInv, Placed, Locked, OnlyLandingMovesBo, Distinct, Held

\* A lock that is not there when FinishAccess releases it is the one of the back
\* buffer, on the bo that has become the slot.
LEMMA FinishAssertsInv ==
    ASSUME Inv, NEW p \in Pixmaps, FinishAsserts(p)
    PROVE  Inv'
<1>1. /\ LocksInv /\ p \in Held /\ lock[bo[p]].cnt = 0 /\ phase' = "finish_asserts"
      /\ UNCHANGED <<lock, bo, slot, full, flip_mode, flipping, access>>
    BY DEF Inv, FinishAsserts
<1>2. bo[p] # access[p]
    <2>1. p \in DOMAIN access /\ access[p] \in Bos
        BY <1>1 DEF Held, LocksInv
    <2>2. Taken(lock[access[p]])
        BY <1>1, <2>1 DEF LocksInv, Locked
    <2>. QED
        BY <1>1, <2>2 DEF Taken
<1>3. "back" \in Held /\ access["back"] = slot
    BY <1>1, <1>2, MovedFree
<1>. QED
    BY <1>1, <1>3, LocksKept DEF Inv, OnlyLandingAsserts, Held

\* The locks of a copy are free when it starts, or it only reads: when they are
\* not there, the kernel has refused one.
LEMMA CopyAssertsInv ==
    ASSUME Inv, CopyAsserts
    PROVE  Inv'
<1>1. /\ LocksInv /\ phase' = "copy_asserts"
      /\ UNCHANGED <<lock, bo, slot, full, flip_mode, flipping, access>>
    BY DEF Inv, CopyAsserts
<1>2. "root" \notin DOMAIN access
    BY DEF Inv, CopyAsserts, Asks
<1>3. /\ slot \in Bos /\ slot # rootBo /\ rootBo \in Bos
      /\ Free(lock[slot]) /\ Free(lock[rootBo]) /\ lock \in LocksType
    BY <1>1, <1>2, CopyBosFree, BoNames DEF LocksInv
<1>4. /\ bo["back"] \in Bos /\ bo["back"] # rootBo
      /\ Free(lock[bo["back"]]) \/ Taken(lock[bo["back"]])
    BY <1>1, BoNames DEF LocksInv, Placed, Locked, rootBo
<1>5. "copy" \in Failing
    <2>1. CASE CopyMayAssert(lock, rootBo, slot) \/ CopyMayAssert(lock, slot, rootBo)
        BY <1>3, <2>1, CopyBoBalanced
    <2>2. CASE CopyMayAssert(lock, bo["back"], rootBo)
        BY <1>3, <1>4, <2>2, CopyBoBalanced
    <2>. QED
        BY <2>1, <2>2 DEF CopyAsserts
<1>. QED
    BY <1>1, <1>5, LocksKept DEF Inv, OnlyLandingAsserts

LEMMA StepInv ==
    ASSUME Inv, [Next]_vars
    PROVE  Inv'
<1>1. CASE Swap
    BY <1>1, SwapInv
<1>2. CASE FlipDone
    BY <1>2, FlipDoneInv
<1>3. ASSUME NEW p \in Pixmaps, NEW write \in BOOLEAN, PrepareAccess(p, write)
      PROVE  Inv'
    BY <1>3, PrepareAccessInv, Zenon
<1>4. ASSUME NEW p \in Pixmaps, Finish(p) \/ FinishAsserts(p)
      PROVE  Inv'
    BY <1>4, FinishInv, FinishAssertsInv
<1>5. CASE Draw
    BY <1>5, LocksKept DEF Draw, Inv, OnlyLandingAsserts
<1>6. CASE End \/ CopyAsserts
    BY <1>6, EndInv, CopyAssertsInv
<1>7. CASE UNCHANGED vars
    BY <1>7, LocksKept DEF vars, Inv, OnlyLandingAsserts, Held
<1>. QED
    BY <1>1, <1>2, <1>3, <1>4, <1>5, <1>6, <1>7 DEF Next

LEMMA InvCounts == Inv => CountsAccesses
<1>. SUFFICES ASSUME Inv, NEW b \in Bos
              PROVE  lock[b].cnt = Cardinality({p \in DOMAIN access : access[p] = b})
    BY DEF CountsAccesses
<1>1. CASE \E p \in DOMAIN access : access[p] = b
    <2>1. PICK p \in DOMAIN access : access[p] = b
        BY <1>1
    <2>2. {q \in DOMAIN access : access[q] = b} = {p}
        BY <2>1, BoNames DEF Inv, LocksInv, Distinct, Held
    <2>3. lock[b].cnt = 1
        BY <1>1 DEF Inv, LocksInv, Locked, Taken
    <2>. QED
        BY <2>2, <2>3, FS_Singleton
<1>2. CASE ~ \E p \in DOMAIN access : access[p] = b
    <2>1. {q \in DOMAIN access : access[q] = b} = {}
        BY <1>2
    <2>2. lock[b].cnt = 0
        BY <1>2 DEF Inv, LocksInv, Locked, Free
    <2>. QED
        BY <2>1, <2>2, FS_EmptySet
<1>. QED
    BY <1>1, <1>2

LEMMA InvKernel == Inv => KernelAgrees
    BY DEF Inv, LocksInv, Locked, Free, Taken, KernelAgrees, KernelLock, LocksType, LockType

-----------------------------------------------------------------------------
\* Whatever fails, and in whichever order the pixmaps of an operation are prepared
\* and finished, each bo is locked once for each access in progress.
THEOREM LocksCountAccesses == Spec => []CountsAccesses
<1>1. Inv /\ [Next]_vars => Inv'
    BY StepInv
<1>. QED
    BY InitInv, InvCounts, <1>1, PTL DEF Spec

\* ... the kernel holds the locks that the driver counts,
THEOREM LocksAgree == Spec => []KernelAgrees
<1>1. Inv /\ [Next]_vars => Inv'
    BY StepInv
<1>. QED
    BY InitInv, InvKernel, <1>1, PTL DEF Spec

\* ... the bo of a pixmap changes under an access only when that is of the back
\* buffer and the flip lands that a later access to the screen waits for,
THEOREM AccessesMovedByLanding == Spec => []OnlyLandingMovesBo
<1>1. Inv /\ [Next]_vars => Inv'
    BY StepInv
<1>2. Inv => OnlyLandingMovesBo
    BY DEF Inv, LocksInv
<1>. QED
    BY InitInv, <1>1, <1>2, PTL DEF Spec

\* ... so the assertion of omap_bo_cpu_fini fails there, and in a copy that was
\* refused a lock by the kernel, and nowhere else.
THEOREM AssertionsExplained == Spec => []OnlyLandingAsserts
<1>1. Inv /\ [Next]_vars => Inv'
    BY StepInv
<1>2. Inv => OnlyLandingAsserts
    BY DEF Inv
<1>. QED
    BY InitInv, <1>1, <1>2, PTL DEF Spec

\* The types of BoLocks, of locks and of what the accesses remember.
THEOREM LockTypes == Spec => []TypeOK
<1>1. Inv /\ [Next]_vars => Inv'
    BY StepInv
<1>2. Inv => TypeOK
    BY DEF Inv, LocksInv, LocksType, LockType, TypeOK
<1>. QED
    BY InitInv, <1>1, <1>2, PTL DEF Spec
=============================================================================
