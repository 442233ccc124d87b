----------------------------- MODULE MCDisplay -----------------------------
(* A screen of two columns: a CRTC shows the left, the right or both.      *)
EXTENDS DisplayProperties

L == [x |-> 0, w |-> 1]
R == [x |-> 1, w |-> 1]
W == [x |-> 0, w |-> 2]

SideBySide == <<L, R>>
LeftOnly   == <<L>>
WholeScreen == <<W>>
Cloned     == <<L, L>>
Halves     == {L, R}
JustL      == {L}
HalvesAndWhole == {L, R, W}

(***************************************************************************)
(* Buffer objects and pixmaps are anonymous: only which of them is where   *)
(* matters, a new one is any free one.  The view names a bo by the first   *)
(* place that lists it, and a pixmap likewise, so TLC visits one state of  *)
(* those that differ in the names alone.  A bo that is listed nowhere but  *)
(* has references (it has leaked) only takes up room.  Runs that check     *)
(* liveness do not use the view.  TypeOK is in it because TLC stores the   *)
(* functions of a state unevaluated unless its view looks at them.         *)
(***************************************************************************)
First(list, x) == CHOOSE i \in DOMAIN list : list[i] = x /\ \A j \in 1..(i - 1) : list[j] # x

PixPlaces == [w \in Windows |-> win[w].back] \o [k \in CmdIds |-> cmd[k].src]
BoPlaces(pix) ==
    <<scanout, pixBo[Root], call.old>>
    \o [s \in Slots |-> scanouts[s].bo]
    \o [i \in DOMAIN pix |-> IF pix[i] = NoPix THEN NoBo ELSE pixBo[pix[i]]]
    \o crtcFb

View ==
    LET pix == PixPlaces
        bos == BoPlaces(pix)
        name == [b \in {bos[i] : i \in DOMAIN bos} |-> IF b = NoBo THEN 0 ELSE First(bos, b)]
        listed == DOMAIN name \ {NoBo}
    IN  <<[i \in DOMAIN bos |-> name[bos[i]]],
          {<<name[b], refcnt[b], bowidth[b], current[b]>> : b \in listed},
          Cardinality({b \in Bos \ listed : refcnt[b] > 0}),
          [s \in Slots |-> <<scanouts[s].rect, scanouts[s].valid>>],
          [i \in DOMAIN pix |-> IF pix[i] = NoPix THEN 0 ELSE First(pix, pix[i])],
          [w \in Windows |-> [win[w] EXCEPT !.back = 0]],
          [k \in CmdIds |-> [cmd[k] EXCEPT !.src = 0]],
          [call EXCEPT !.old = 0],
          flip_mode, has_resized, pending_flips, crtc, kflip, events,
          TypeOK>>
=============================================================================
