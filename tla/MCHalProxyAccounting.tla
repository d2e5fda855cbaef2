------------------------ MODULE MCHalProxyAccounting ------------------------
(***************************************************************************)
(* HalProxyAccounting on small instances.                                  *)
(***************************************************************************)
EXTENDS HalProxyAccounting

CONSTANTS w, n

PairBatches  == {<<w, w>>}

SubHalSymmetry == Permutations(SubHals)
=============================================================================
