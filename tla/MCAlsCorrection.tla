-------------------------- MODULE MCAlsCorrection --------------------------
(***************************************************************************)
(* AlsCorrection with the gains of configs/props/vendor.prop (first gain   *)
(* 0.11), and readings in the gap of the hysteresis, in its lower ranges,  *)
(* above the threshold of the gain control, and one so bright that a       *)
(* screen brighter still makes the correction be rejected.                 *)
(***************************************************************************)
EXTENDS AlsCorrection

Gains  == <<110, 282, 140, 35>>
Points == <<45, 115, 170, 0>>

PolyOf  == [black |-> 0, grey |-> 100, white |-> 160000]
GammaOf == [black |-> 0, grey |-> 130, white |-> 150000]
ScreenKinds == {"black", "grey", "white"}
=============================================================================
