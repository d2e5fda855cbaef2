------------------------- MODULE MCHalProxyDelivery -------------------------
(***************************************************************************)
(* HalProxyDelivery on a small instance: two batches that can be told      *)
(* apart, neither with wake-up events, which keeps K out of the way.       *)
(***************************************************************************)
EXTENDS HalProxyDelivery

CONSTANTS w, n

PlainBatches == {<<w>>, <<n, w, n>>}
=============================================================================
