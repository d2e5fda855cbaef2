------------------------------- MODULE Lights -------------------------------
(***************************************************************************)
(* The lights HAL (lights/): the backlight's brightness is computed from a *)
(* colour, scaled for the panel and written to a node of the kernel.       *)
(*                                                                         *)
(* One thread serves all calls. The largest brightness comes from a        *)
(* property or from another node and is read again in every call.          *)
(***************************************************************************)
EXTENDS Integers, Sequences

CONSTANTS
  Colors,              \* [alpha, red, green, blue] that are asked for
  Properties,          \* values of persist.vendor.light.max_brightness; 0: unset
  MaxNodes             \* what can be read from max_brightness

VARIABLES
  brightness,          \* the node
  maxBrightness,       \* that of the last call that wrote the node
  shown                \* its colour

vars == <<brightness, maxBrightness, shown>>

Dark == [alpha |-> 255, red |-> 0, green |-> 0, blue |-> 0]
Init == brightness = 0 /\ maxBrightness = 0 /\ shown = Dark

-----------------------------------------------------------------------------
brightness_table_0x7ff ==
  << 0, 1, 9, 33, 49, 73, 89, 113, 218, 299, 379, 444, 484, 540, 580, 629, 669, 685, 725,
     766, 790, 830, 854, 870, 911, 935, 951, 991, 1015, 1040, 1056, 1080, 1096, 1120, 1136,
     1160, 1160, 1160, 1160, 1225, 1225, 1241, 1265, 1265, 1281, 1281, 1305, 1305, 1322,
     1322, 1346, 1346, 1362, 1362, 1386, 1386, 1402, 1402, 1426, 1426, 1426, 1450, 1450,
     1450, 1467, 1467, 1467, 1491, 1491, 1491, 1507, 1507, 1507, 1531, 1531, 1531, 1531,
     1547, 1547, 1547, 1547, 1571, 1571, 1587, 1587, 1587, 1587, 1587, 1612, 1612, 1612,
     1636, 1636, 1636, 1636, 1636, 1652, 1652, 1652, 1652, 1652, 1676, 1676, 1676, 1676,
     1676, 1692, 1692, 1692, 1692, 1692, 1716, 1716, 1716, 1716, 1716, 1732, 1732, 1732,
     1732, 1732, 1732, 1732, 1732, 1757, 1757, 1757, 1757, 1773, 1773, 1773, 1773, 1773,
     1773, 1797, 1797, 1797, 1797, 1797, 1797, 1797, 1797, 1797, 1797, 1813, 1813, 1813,
     1813, 1813, 1813, 1813, 1837, 1837, 1837, 1837, 1837, 1837, 1837, 1861, 1861, 1861,
     1861, 1861, 1861, 1861, 1861, 1861, 1861, 1877, 1877, 1877, 1877, 1877, 1877, 1877,
     1877, 1877, 1902, 1902, 1902, 1902, 1902, 1902, 1902, 1902, 1902, 1918, 1918, 1918,
     1918, 1918, 1918, 1918, 1918, 1918, 1918, 1942, 1942, 1942, 1942, 1942, 1942, 1942,
     1942, 1942, 1942, 1958, 1958, 1958, 1958, 1958, 1958, 1958, 1958, 1958, 1958, 1958,
     1958, 1982, 1982, 1982, 1982, 1982, 1982, 1982, 1982, 1982, 1982, 1982, 1998, 1998,
     1998, 1998, 1998, 1998, 1998, 1998, 1998, 1998, 1998, 1998, 2022, 2022, 2022, 2022,
     2022, 2022, 2022, 2022, 2022, 2022, 2022, 2022, 2022, 2047, 2047 >>
brightness_table_0xfff ==
  << 0, 1, 17, 65, 97, 146, 178, 226, 436, 597, 758, 887, 968, 1080, 1161, 1258, 1338, 1371,
     1451, 1532, 1580, 1661, 1709, 1741, 1822, 1870, 1902, 1983, 2031, 2080, 2112, 2160,
     2193, 2241, 2273, 2322, 2322, 2322, 2322, 2450, 2450, 2483, 2531, 2531, 2563, 2563,
     2612, 2612, 2644, 2644, 2692, 2692, 2724, 2724, 2773, 2773, 2805, 2805, 2853, 2853,
     2853, 2902, 2902, 2902, 2934, 2934, 2934, 2982, 2982, 2982, 3015, 3015, 3015, 3063,
     3063, 3063, 3063, 3095, 3095, 3095, 3095, 3144, 3144, 3176, 3176, 3176, 3176, 3176,
     3224, 3224, 3224, 3272, 3272, 3272, 3272, 3272, 3305, 3305, 3305, 3305, 3305, 3353,
     3353, 3353, 3353, 3353, 3385, 3385, 3385, 3385, 3385, 3434, 3434, 3434, 3434, 3434,
     3466, 3466, 3466, 3466, 3466, 3466, 3466, 3466, 3514, 3514, 3514, 3514, 3546, 3546,
     3546, 3546, 3546, 3546, 3595, 3595, 3595, 3595, 3595, 3595, 3595, 3595, 3595, 3595,
     3627, 3627, 3627, 3627, 3627, 3627, 3627, 3675, 3675, 3675, 3675, 3675, 3675, 3675,
     3724, 3724, 3724, 3724, 3724, 3724, 3724, 3724, 3724, 3724, 3756, 3756, 3756, 3756,
     3756, 3756, 3756, 3756, 3756, 3804, 3804, 3804, 3804, 3804, 3804, 3804, 3804, 3804,
     3837, 3837, 3837, 3837, 3837, 3837, 3837, 3837, 3837, 3837, 3885, 3885, 3885, 3885,
     3885, 3885, 3885, 3885, 3885, 3885, 3917, 3917, 3917, 3917, 3917, 3917, 3917, 3917,
     3917, 3917, 3917, 3917, 3966, 3966, 3966, 3966, 3966, 3966, 3966, 3966, 3966, 3966,
     3966, 3998, 3998, 3998, 3998, 3998, 3998, 3998, 3998, 3998, 3998, 3998, 3998, 4046,
     4046, 4046, 4046, 4046, 4046, 4046, 4046, 4046, 4046, 4046, 4046, 4046, 4095, 4095 >>

\* Alpha dims a colour unless it is 0 or full.
Dimmed_Always(channel, alpha) == (channel * alpha) \div 255    \* mutant: 0 blacks out
Dimmed(channel, alpha) ==
  IF alpha \in 1..254 THEN (channel * alpha) \div 255 ELSE channel

getBrightness(c) ==
  (77 * Dimmed(c.red, c.alpha) + 150 * Dimmed(c.green, c.alpha)
                               + 29 * Dimmed(c.blue, c.alpha)) \div 256

scaleBrightness_Swapped(b, max) ==    \* mutant: each panel has the other's table
  IF max = 4095 THEN brightness_table_0x7ff[b + 1]
  ELSE IF max = 2047 THEN brightness_table_0xfff[b + 1]
  ELSE b
scaleBrightness(b, max) ==
  IF max = 4095 THEN brightness_table_0xfff[b + 1]
  ELSE IF max = 2047 THEN brightness_table_0x7ff[b + 1]
  ELSE b

\* The node that cannot be opened yields 0; an empty one leaves value
\* uninitialized, which may be anything.
getMaxBrightness == MaxNodes \union {0}

\* The node is read if the property is not positive.
MaxInUse ==
  {p \in Properties : p >= 1}
    \union IF \E p \in Properties : p < 1 THEN getMaxBrightness ELSE {}

\* The brightness is put together in handleBacklight; a node that cannot be
\* opened keeps what it has.
setLightState(color, max) ==
  \/ /\ brightness' = scaleBrightness(getBrightness(color), max)
     /\ maxBrightness' = max /\ shown' = color
  \/ UNCHANGED vars

Next == \E color \in Colors, max \in MaxInUse : setLightState(color, max)

Spec == Init /\ [][Next]_vars

-----------------------------------------------------------------------------
\* A colour that is at least as bright in every part, alpha too, never makes the
\* panel darker while the range stays: neither the rounding of the channels nor a
\* step of the tables falls. An alpha of 0 counts as full (67).
Opacity(c) == IF c.alpha = 0 THEN 255 ELSE c.alpha
Covers(c, d) ==
  /\ Opacity(c) >= Opacity(d)
  /\ c.red >= d.red /\ c.green >= d.green /\ c.blue >= d.blue
NeverDarker ==
  [][maxBrightness' = maxBrightness /\ Covers(shown', shown)
       => brightness' >= brightness]_vars

\* A panel of at least 255 steps is never asked for more than it has: the weights
\* of the channels add up to 256 and each table ends at its panel's maximum.
InPanelRange ==
  maxBrightness >= 255 => brightness \in 0..maxBrightness
=============================================================================
