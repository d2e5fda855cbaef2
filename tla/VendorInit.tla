----------------------------- MODULE VendorInit -----------------------------
(***************************************************************************)
(* Property overrides at boot (init/init.cpp). The build is for several    *)
(* variants of the device; init gives the properties the identity of the   *)
(* variant the operator code stands for, before other services read them.  *)
(***************************************************************************)
EXTENDS Naturals, Sequences

CONSTANTS
  BuiltSets,           \* sets of properties the partitions may come with
  OperatorCodes,       \* numbers in OPERATOR_CODE_FILE
  RamSizes             \* sys.totalram in GiB

VARIABLES
  built,               \* the properties that were loaded from the partitions
  props,               \* name -> [part, variant] of each property
  todo                 \* the overrides to come
vars == <<built, props, todo>>

Sources == {"none", "bootimage", "odm", "odm_dlkm", "product", "system", "system_dlkm",
            "system_ext", "vendor", "vendor_dlkm"}

\* A name ro.product.<source>.<key> or ro.<source>.build.<key> is a triple.
Product(source, key) == <<"ro.product", source, key>>
Build(source, key)   == <<"ro.build", source, key>>
Plain(key)           == <<"none", "none", key>>
Heap == {"heapstartsize", "heapgrowthlimit", "heapsize", "heaptargetutilization",
         "heapminfree", "heapmaxfree"}

-----------------------------------------------------------------------------
\* One call: what it writes, and whether it adds a property that is not there.
Call(names, part, variant, add) ==
  [names |-> names, value |-> [part |-> part, variant |-> variant], add |-> add]

set_ro_build_prop(key, part, variant, product) ==
  Call(IF product THEN {Product(s, key) : s \in Sources}
                  ELSE {Build(s, key) : s \in Sources}, part, variant, FALSE)
property_override(name, part, variant) == Call({name}, part, variant, TRUE)

Fingerprinted == {"vendor", "bootimage", "odm", "none"}

ForEverySource(v) ==
  << set_ro_build_prop("model", "model", v, TRUE),
     set_ro_build_prop("device", "device", v, TRUE),
     set_ro_build_prop("name", "model", v, TRUE),
     set_ro_build_prop("product", "model", v, FALSE),
     set_ro_build_prop("marketname", "marketname", v, TRUE),
     set_ro_build_prop("fingerprint", "fingerprint", v, TRUE) >>
ForOne(v) ==
  << property_override(Product("none", "device"), "device", v),
     property_override(Plain("ro.vendor.device"), "device", v),
     property_override(Build("none", "product"), "device", v),
     property_override(Product("none", "marketname"), "marketname", v),
     property_override(Plain("ro.oplus.market.name"), "marketname", v),
     property_override(Plain("ro.vendor.oplus.market.name"), "marketname", v),
     property_override(Build("vendor", "fingerprint"), "fingerprint", v),
     property_override(Build("bootimage", "fingerprint"), "fingerprint", v),
     property_override(Build("odm", "fingerprint"), "fingerprint", v),
     property_override(Build("none", "fingerprint"), "fingerprint", v),
     property_override(Plain("bluetooth.device.default_name"), "marketname", v),
     property_override(Plain("vendor.usb.product_string"), "marketname", v) >>

\* The properties these calls and the next one are for, with those of the
\* fingerprints that they do not reach.
IdentityProperties ==
  {Product(s, key) : s \in Sources,
                     key \in {"model", "device", "name", "marketname", "fingerprint"}}
    \union {Build(s, key) : s \in Sources, key \in {"product", "fingerprint"}}
    \union {Plain(key) : key \in Heap \union
              {"ro.vendor.device", "ro.oplus.market.name", "ro.vendor.oplus.market.name",
               "bluetooth.device.default_name", "vendor.usb.product_string"}}

\* The codes that are not in the switch leave everything as it was built.
Variants(code) ==
  CASE code \in {140, 141, 146, 149} -> {"RMX2151"}
    [] code \in {94, 148}            -> {"RMX2155"}
    [] code \in {90, 92}             -> {"RMX2156"}
    [] code = 143                    -> {"RMX2161"}
    [] code \in {145, 147}           -> {"RMX2163"}
    [] OTHER                         -> {}

Identity_OneFirst(v) == ForOne(v) \o ForEverySource(v)    \* mutant: swapped
Identity(v) == ForEverySource(v) \o ForOne(v)

\* A file that cannot be read, or holds more than the number, say a newline, is
\* an error too.
set_device_props(readable, code) ==
  IF readable /\ Variants(code) # {}
  THEN Identity(CHOOSE v \in Variants(code) : TRUE) ELSE << >>

load_dalvik_properties(ram) ==
  LET size == IF ram >= 7 THEN "8192" ELSE IF ram >= 5 THEN "6144" ELSE "4096"
  IN  << Call({Plain(key) : key \in Heap}, "heap", size, TRUE) >>

vendor_load_properties(recovery, readable, code, ram) ==
  (IF recovery THEN << >> ELSE set_device_props(readable, code))
    \o load_dalvik_properties(ram)

-----------------------------------------------------------------------------
\* A property as built: it belongs to the variant the build is named for.
Stock(names) == [n \in names |-> [part |-> "any", variant |-> "stock"]]

Boots ==
  {vendor_load_properties(recovery, readable, code, ram) :
     recovery \in BOOLEAN, readable \in BOOLEAN, code \in OperatorCodes, ram \in RamSizes}
Init ==
  /\ built \in BuiltSets /\ props = Stock(built) /\ todo \in Boots

\* The next call is carried out.
Override ==
  LET call == Head(todo)
      found == IF call.add THEN call.names ELSE call.names \intersect DOMAIN props
  IN  /\ todo # << >> /\ todo' = Tail(todo)
      /\ props' = [n \in DOMAIN props \union found |->
                     IF n \in found THEN call.value ELSE props[n]]
      /\ UNCHANGED built

Reboot ==
  /\ todo = << >> /\ props' = Stock(built) /\ UNCHANGED built /\ todo' \in Boots

Next == Override \/ Reboot
Spec == Init /\ [][Next]_vars

-----------------------------------------------------------------------------
\* When init is done the properties name one device: all that stood for another
\* one have been overridden or none has, and those that are written twice (171,
\* 175) agree, whatever properties the partitions came with. The exceptions are
\* the fingerprints ro.<source>.build.fingerprint of the other sources, which
\* line 171 does not reach (it writes ro.product.<source>.fingerprint).
Missed == {Build(s, "fingerprint") : s \in Sources \ Fingerprinted}
OneIdentity ==
  todo = << >> =>
    /\ \A n, k \in DOMAIN props \ (Missed \union {Plain(key) : key \in Heap}) :
         props[n].variant = props[k].variant
    /\ \A n \in {Build("none", "product"), Product("none", "device")} \intersect DOMAIN props :
         props[n].variant # "stock" => props[n].part = "device"
=============================================================================
