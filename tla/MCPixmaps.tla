----------------------------- MODULE MCPixmaps -----------------------------
(* Values for TLC. *)
EXTENDS Pixmaps, SequencesExt

\* Everything but the two failures whose resources the code loses: a query of
\* the back end's new buffer, and the name of a DRI2 buffer.
MCFailing == {"create", "AddFB", "map", "flip_mode", "page_flip"}

(***************************************************************************)
(* Pixmaps and bos are anonymous: a new one is any free one.  The view     *)
(* names each by the first place that lists it.  What is listed nowhere    *)
(* only takes up room, but is counted.                                     *)
(***************************************************************************)
Position(list, x) == CHOOSE i \in DOMAIN list : list[i] = x /\ \A j \in 1..(i - 1) : list[j] # x

PixPlaces ==
    <<NoPix, Root>>
    \o FlattenSeq([w \in Windows |->
           <<win[w].pix, buf[w].front, buf[w].back, cmd[w].src, cmd[w].dst>>])
    \o SetToSortSeq(plain, <)

BoPlaces(pix) ==
    <<NoBo, mem.scanout, mem.slot, call.old>>
    \o [i \in DOMAIN pix |-> IF pix[i] = NoPix THEN NoBo ELSE mem.pix[pix[i]].bo]
    \o [w \in Windows |-> buf[w].name]

View ==
    LET pix == PixPlaces
        bos == BoPlaces(pix)
        pixs == ToSet(pix) \ {NoPix}
        named == ToSet(bos) \ {NoBo}
    IN  <<[i \in DOMAIN pix |-> Position(pix, pix[i])],
          [i \in DOMAIN bos |-> Position(bos, bos[i])],
          {<<Position(pix, p), mem.pix[p].refs, mem.pix[p].size>> : p \in pixs},
          {<<Position(bos, b), mem.refs[b], mem.size[b], b \in mem.objs>> : b \in named},
          Cardinality({p \in Pixmaps \ pixs : mem.pix[p].refs > 0}),
          Cardinality(mem.objs \ named),
          [w \in Windows |-> <<win[w].alive, win[w].size, win[w].stale>>],
          Cardinality(plain), call.win, mem.mapped, has_resized, crashed,
          TypeOK>>
=============================================================================
