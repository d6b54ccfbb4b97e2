--------------------------- MODULE MCEdmondsKarp ---------------------------
(***************************************************************************)
(* Instances of EdmondsKarp for TLC: every input of a few small cities.    *)
(***************************************************************************)
EXTENDS EdmondsKarp

SmallGrids == {<<1, 1>>, <<1, 3>>, <<2, 2>>, <<3, 2>>}
=============================================================================
