----------------------------- MODULE VirtioBlkMC -----------------------------
(***************************************************************************)
(* VirtioBlk for TLC: rings of two slots under indices of four values, two *)
(* requests at a time, an image of up to two sectors.                      *)
(***************************************************************************)
EXTENDS VirtioBlk

W == [write |-> TRUE, inram |-> TRUE]
R == [write |-> FALSE, inram |-> TRUE]

MkRequest(type, sector, bufs) == [type |-> type, sector |-> sector, bufs |-> bufs]

MCImage == {<<1>>}
MCContent == {<<>>, <<2, 1>>, <<0, 0, 0>>}

MCRequest ==
  { MkRequest("in", 0, <<R, W, W>>), MkRequest("out", 0, <<R, R>>),
    MkRequest("out", 1, <<R, [R EXCEPT !.inram = FALSE]>>), MkRequest("flush", 0, <<>>) }
=============================================================================
