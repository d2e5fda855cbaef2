---------------------------- MODULE MCDeviceHals ----------------------------
(***************************************************************************)
(* DeviceHals with every grey and some colours at four opacities, some     *)
(* gestures, and partitions that come with few properties or many.         *)
(***************************************************************************)
EXTENDS DeviceHals

Color(a, r, g, b) == [alpha |-> a, red |-> r, green |-> g, blue |-> b]
ColorsInstance ==
  {Color(255, x, x, x) : x \in 0..255}
    \union {Color(a, r, g, b) : a \in {0, 1, 128, 254}, r, g, b \in {0, 100, 255}}

Sources == {"none", "bootimage", "odm", "odm_dlkm", "product", "system", "system_dlkm",
            "system_ext", "vendor", "vendor_dlkm"}
Products(key) == {<<"ro.product", s, key>> : s \in Sources}
Builds(key) == {<<"ro.build", s, key>> : s \in Sources}
BuiltInstance ==
  { {}, {<<"ro.product", "none", "device">>, <<"ro.build", "none", "product">>},
    Products("device") \union Products("model") \union Products("marketname"),
    Products("name") \union Builds("product") \union Builds("fingerprint"),
    {<<"none", "none", "ro.vendor.device">>, <<"ro.build", "vendor", "fingerprint">>} }
=============================================================================
