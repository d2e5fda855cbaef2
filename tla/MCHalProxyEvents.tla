-------------------------- MODULE MCHalProxyEvents --------------------------
(***************************************************************************)
(* HalProxyEvents on small instances: a wake-up event w, another one n,    *)
(* and a few batches of them. SplitBatches may go partly to the event      *)
(* queue; PlainBatches carry no wake-up event, which keeps K out of the    *)
(* way; WakeBatches split a batch with two references.                     *)
(***************************************************************************)
EXTENDS HalProxyEvents

CONSTANTS w, n

SplitBatches == {<<w>>, <<w, n>>}
PlainBatches == {<<n>>, <<n, n, n>>}
WakeBatches  == {<<w, w>>}
=============================================================================
