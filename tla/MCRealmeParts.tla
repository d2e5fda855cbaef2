---------------------------- MODULE MCRealmeParts ----------------------------
(* Two modes with a node, one that the device lacks, and the refresh rate. *)
EXTENDS RealmeParts

MCConfigs == {"dc", "srgb", "otg"}
MCDefault == [m \in {"dc", "srgb", "otg", "rate"} |-> m = "otg"]
=============================================================================
