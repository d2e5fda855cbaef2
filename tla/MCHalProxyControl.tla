------------------------- MODULE MCHalProxyControl -------------------------
(***************************************************************************)
(* HalProxyControl with two sub-HALs out of six lines of hals.conf: the    *)
(* others are of a wrong version, export nothing or are not there. The     *)
(* first also reports handles whose first byte is not clear, which the     *)
(* proxy must leave out; the handles of the two differ, so that a call     *)
(* that went astray shows.                                                 *)
(***************************************************************************)
EXTENDS HalProxyControl, TLC

ConfigInstance == <<"wrong", "first", "missing", "both", "second", "empty">>

Library(version, static, dynamic) ==
  [version |-> version, static |-> static, direct |-> static, dynamic |-> dynamic]
Old(v) == "sensorsHalGetSubHal" :> v
New(v) == "sensorsHalGetSubHal_2_1" :> v

InstalledInstance ==
  << "wrong" :> Library(Old("2.1"), {5}, {6}),
     "wrong"  :> Library(Old("2.0"), {5}, {6}) @@
     "first"  :> Library(Old("2.0"), {1, HandleSpan + 1}, {2, HandleSpan + 2}) @@
     "both"   :> Library(Old("1.0") @@ New("2.1"), {7}, {8}),
     "second" :> Library(New("2.1"), {3}, {4}) @@
     "empty"  :> Library(<<>>, {9}, {}) >>

JoiningInstance == {1}
BulkyInstance == {0}
=============================================================================
