------------------------------ MODULE MCDozeApp ------------------------------
(***************************************************************************)
(* DozeApp with two instances of the service, the one that runs and one    *)
(* that is gone with a busy executor: which is which makes no difference.  *)
(***************************************************************************)
EXTENDS DozeApp, TLC

InstanceSymmetry == Permutations(Instances)
=============================================================================
