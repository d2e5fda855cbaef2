-------------------------- MODULE VendorPartsProofs --------------------------
(***************************************************************************)
(* Of the vendor's parts for every set of colours, panels, requests, builds *)
(* and boots: the lights, the touch nodes and the properties (DeviceHals), *)
(* and the two sensors that are polled (PollSensors).                      *)
(***************************************************************************)
EXTENDS DeviceHals, PollSensors, FiniteSetTheorems, SequenceTheorems,
        WellFoundedInduction, TLAPS

-----------------------------------------------------------------------------
\* Lights.

Bytes == 0..255

\* Of the byte-by-byte arithmetic: the rounding of a product keeps the order.
LEMMA ProductsOrdered ==
  ASSUME NEW c \in Bytes, NEW d \in Bytes, NEW a \in Bytes, NEW b \in Bytes, c >= d, a >= b
  PROVE  (c * a) \div 255 >= (d * b) \div 255
<1> DEFINE x == c * a
           y == d * b
<1>1. x \in Nat /\ y \in Nat
  BY DEF Bytes
<1>2. x >= y
  <2>1. c * a >= d * a
    BY SMT DEF Bytes
  <2>2. d * a >= d * b
    BY SMT DEF Bytes
  <2>3. c * a \in Int /\ d * a \in Int /\ d * b \in Int
    BY DEF Bytes
  <2> QED BY <2>1, <2>2, <2>3
<1> HIDE DEF x, y
<1>3. x \div 255 >= y \div 255
  BY <1>1, <1>2
<1> QED BY <1>3 DEF x, y

\* A channel dimmed by an opacity is a byte, and no brighter than it was (64-71).
LEMMA ProductsBounded ==
  ASSUME NEW c \in Bytes, NEW a \in Bytes
  PROVE  (c * a) \div 255 \in Bytes /\ (c * a) \div 255 <= c
BY SMT DEF Bytes

\* Dimming (64-71) keeps a channel in its range.
LEMMA DimmedByte ==
  ASSUME NEW c \in Bytes, NEW a \in Bytes
  PROVE  Lights!Dimmed(c, a) \in Bytes
BY ProductsBounded DEF Lights!Dimmed

Opaque(a) == IF a = 0 THEN 255 ELSE a
\* More opaque, and a brighter channel, is not dimmed to less (64-71).
LEMMA DimmedOrdered ==
  ASSUME NEW c \in Bytes, NEW d \in Bytes, NEW a \in Bytes, NEW b \in Bytes,
         c >= d, Opaque(a) >= Opaque(b)
  PROVE  Lights!Dimmed(c, a) >= Lights!Dimmed(d, b)
<1>1. CASE a \in 1..254
  <2>1. b \in 1..254 /\ a >= b
    BY <1>1 DEF Opaque, Bytes
  <2> QED BY <1>1, <2>1, ProductsOrdered DEF Lights!Dimmed
<1>2. CASE a \notin 1..254
  <2>1. Lights!Dimmed(d, b) <= d
    <3>1. (d * b) \div 255 <= d
      BY ProductsBounded
    <3>2. d <= d
      BY DEF Bytes
    <3> QED BY <3>1, <3>2 DEF Lights!Dimmed
  <2>2. Lights!Dimmed(d, b) \in Bytes
    BY DimmedByte
  <2> QED BY <1>2, <2>1, <2>2 DEF Lights!Dimmed, Bytes
<1> QED BY <1>1, <1>2

\* The weights add up to 256, so that the mean of three bytes is a byte (73).
LEMMA MeanByte ==
  ASSUME NEW r \in Bytes, NEW g \in Bytes, NEW b \in Bytes
  PROVE  (77 * r + 150 * g + 29 * b) \div 256 \in Bytes
BY SMT DEF Bytes

\* The mean does not fall when no channel does (73).
LEMMA MeanOrdered ==
  ASSUME NEW r \in Bytes, NEW g \in Bytes, NEW b \in Bytes,
         NEW s \in Bytes, NEW h \in Bytes, NEW c \in Bytes, s >= r, h >= g, c >= b
  PROVE  (77 * s + 150 * h + 29 * c) \div 256 >= (77 * r + 150 * g + 29 * b) \div 256
BY SMT DEF Bytes

ColorType == [alpha : 0..255, red : 0..255, green : 0..255, blue : 0..255]

\* getBrightness (53-74) yields a byte.
LEMMA BrightnessByte ==
  ASSUME NEW c \in ColorType
  PROVE  Lights!getBrightness(c) \in Bytes
<1>1. c.alpha \in Bytes /\ c.red \in Bytes /\ c.green \in Bytes /\ c.blue \in Bytes
  BY DEF ColorType, Bytes
<1>2. /\ Lights!Dimmed(c.red, c.alpha) \in Bytes
      /\ Lights!Dimmed(c.green, c.alpha) \in Bytes
      /\ Lights!Dimmed(c.blue, c.alpha) \in Bytes
  BY <1>1, DimmedByte
<1> QED BY <1>2, MeanByte DEF Lights!getBrightness

\* More opaque and no channel darker: getBrightness (53-74) does not fall.
LEMMA BrightnessOrdered ==
  ASSUME NEW c \in ColorType, NEW d \in ColorType, Lights!Covers(c, d)
  PROVE  Lights!getBrightness(c) >= Lights!getBrightness(d)
<1>1. /\ c.alpha \in Bytes /\ c.red \in Bytes /\ c.green \in Bytes /\ c.blue \in Bytes
      /\ d.alpha \in Bytes /\ d.red \in Bytes /\ d.green \in Bytes /\ d.blue \in Bytes
  BY DEF ColorType, Bytes
<1>2. /\ Opaque(c.alpha) >= Opaque(d.alpha)
      /\ c.red >= d.red /\ c.green >= d.green /\ c.blue >= d.blue
  BY DEF Lights!Covers, Lights!Opacity, Opaque
<1>3. /\ Lights!Dimmed(c.red, c.alpha) >= Lights!Dimmed(d.red, d.alpha)
      /\ Lights!Dimmed(c.green, c.alpha) >= Lights!Dimmed(d.green, d.alpha)
      /\ Lights!Dimmed(c.blue, c.alpha) >= Lights!Dimmed(d.blue, d.alpha)
  BY <1>1, <1>2, DimmedOrdered
<1>4. /\ Lights!Dimmed(c.red, c.alpha) \in Bytes /\ Lights!Dimmed(d.red, d.alpha) \in Bytes
      /\ Lights!Dimmed(c.green, c.alpha) \in Bytes /\ Lights!Dimmed(d.green, d.alpha) \in Bytes
      /\ Lights!Dimmed(c.blue, c.alpha) \in Bytes /\ Lights!Dimmed(d.blue, d.alpha) \in Bytes
  BY <1>1, DimmedByte
<1> QED BY <1>3, <1>4, MeanOrdered DEF Lights!getBrightness

\* The indices of the tables (Light.h:15-63).
Rows == 1..256

\* Each entry is in the range of its panel.
LEMMA SmallTableInRange ==
  \A i \in Rows : Lights!brightness_table_0x7ff[i] \in Nat /\ Lights!brightness_table_0x7ff[i] <= 2047
BY SMTT(60) DEF Lights!brightness_table_0x7ff, Rows

\* The same of the finer panel.
LEMMA LargeTableInRange ==
  \A i \in Rows : Lights!brightness_table_0xfff[i] \in Nat /\ Lights!brightness_table_0xfff[i] <= 4095
BY SMTT(60) DEF Lights!brightness_table_0xfff, Rows

\* No entry is below the one before it.
LEMMA SmallTableRises ==
  \A i \in Rows \ {256} : Lights!brightness_table_0x7ff[i] <= Lights!brightness_table_0x7ff[i + 1]
BY SMTT(60) DEF Lights!brightness_table_0x7ff, Rows

\* The same of the finer panel.
LEMMA LargeTableRises ==
  \A i \in Rows \ {256} : Lights!brightness_table_0xfff[i] <= Lights!brightness_table_0xfff[i + 1]
BY SMTT(60) DEF Lights!brightness_table_0xfff, Rows

\* A set of natural numbers that is not empty has a least one. The library's
\* induction takes an operator; its theorem on minimal sets does not.
LEMMA LeastNatural ==
  ASSUME NEW T \in SUBSET Nat, T # {}
  PROVE  \E n \in T : \A m \in T : n <= m
<1> DEFINE S == {0..n : n \in T}
<1>1. S \subseteq FiniteSubsetsOf(Nat) /\ S # {}
  <2>1. ASSUME NEW n \in T PROVE 0..n \in FiniteSubsetsOf(Nat)
    BY FS_Interval DEF FiniteSubsetsOf
  <2> QED BY <2>1
<1> HIDE DEF S
<1>2. PICK s \in S : \A t \in S : <<t, s>> \notin StrictSubsetOrdering(Nat)
  BY <1>1, FS_StrictSubsetOrderingWellFounded, WFMin
<1>3. PICK n \in T : s = 0..n
  BY DEF S
<1>4. ASSUME NEW m \in T, m < n PROVE FALSE
  <2>1. 0..m \in S
    BY DEF S
  <2>2. <<0..m, 0..n>> \in StrictSubsetOrdering(Nat)
    <3>1. 0..m \in SUBSET Nat /\ 0..n \in SUBSET Nat /\ 0..m \subseteq 0..n
      BY <1>4
    <3>2. n \in 0..n /\ n \notin 0..m
      BY <1>4
    <3> QED BY <3>1, <3>2 DEF StrictSubsetOrdering
  <2> QED BY <1>2, <1>3, <2>1, <2>2
<1> QED BY <1>4

\* The row before a row that is not the first of a range.
LEMMA RowBefore ==
  ASSUME NEW j \in Rows, NEW m \in Rows, j <= m, m # j
  PROVE  m - 1 \in Rows \ {256} /\ j <= m - 1 /\ (m - 1) + 1 = m /\ ~(m <= m - 1)
BY DEF Rows

\* What does not fall from one entry to the next does not fall at all.
LEMMA StepsOrder ==
  ASSUME NEW t, \A i \in Rows : t[i] \in Nat, \A i \in Rows \ {256} : t[i] <= t[i + 1],
         NEW j \in Rows, NEW k \in Rows, j <= k
  PROVE  t[j] <= t[k]
<1> DEFINE Bad == {m \in Rows : j <= m /\ ~(t[j] <= t[m])}
<1> SUFFICES ASSUME Bad # {} PROVE FALSE
  OBVIOUS
<1>1. Bad \in SUBSET Nat
  BY DEF Rows
<1>2. PICK m \in Bad : \A n \in Bad : m <= n
  <2> HIDE DEF Bad
  <2> QED BY <1>1, LeastNatural
<1>3. m \in Rows /\ j <= m /\ ~(t[j] <= t[m])
  OBVIOUS
<1> HIDE DEF Bad
<1>8. m # j
  BY <1>3
<1>4. m - 1 \in Rows \ {256} /\ j <= m - 1 /\ (m - 1) + 1 = m
  BY <1>3, <1>8, RowBefore
<1>5. t[j] <= t[m - 1]
  <2>1. m - 1 \notin Bad
    BY <1>2, <1>3, <1>8, RowBefore
  <2> QED BY <1>4, <2>1 DEF Bad
<1>6. t[m - 1] <= t[m]
  BY <1>4
<1>7. t[j] \in Nat /\ t[m - 1] \in Nat /\ t[m] \in Nat
  BY <1>3, <1>4
<1> QED BY <1>3, <1>5, <1>6, <1>7

\* So neither table falls.
LEMMA TablesRise ==
  ASSUME NEW j \in Rows, NEW k \in Rows, j <= k
  PROVE  /\ Lights!brightness_table_0x7ff[j] <= Lights!brightness_table_0x7ff[k]
         /\ Lights!brightness_table_0xfff[j] <= Lights!brightness_table_0xfff[k]
<1>1. \A i \in Rows : Lights!brightness_table_0x7ff[i] \in Nat
  BY SmallTableInRange
<1>2. \A i \in Rows : Lights!brightness_table_0xfff[i] \in Nat
  BY LargeTableInRange
<1> QED BY <1>1, <1>2, SmallTableRises, LargeTableRises, StepsOrder

\* scaleBrightness (76-85) stays in the range of the panel.
LEMMA ScaledInRange ==
  ASSUME NEW b \in Bytes, NEW max \in Int, max >= 255
  PROVE  Lights!scaleBrightness(b, max) \in 0..max
<1>1. b + 1 \in Rows /\ b \in 0..max
  BY DEF Bytes, Rows
<1>2. /\ Lights!brightness_table_0x7ff[b + 1] \in Nat
      /\ Lights!brightness_table_0x7ff[b + 1] <= 2047
  BY <1>1, SmallTableInRange
<1>3. /\ Lights!brightness_table_0xfff[b + 1] \in Nat
      /\ Lights!brightness_table_0xfff[b + 1] <= 4095
  BY <1>1, LargeTableInRange
<1> QED BY <1>1, <1>2, <1>3 DEF Lights!scaleBrightness

\* It keeps the order of what it scales for one panel.
LEMMA ScaledOrdered ==
  ASSUME NEW b \in Bytes, NEW c \in Bytes, b <= c, NEW max
  PROVE  Lights!scaleBrightness(c, max) >= Lights!scaleBrightness(b, max)
<1>1. b + 1 \in Rows /\ c + 1 \in Rows /\ b + 1 <= c + 1
  BY DEF Bytes, Rows
<1>2. /\ Lights!brightness_table_0x7ff[b + 1] \in Nat
      /\ Lights!brightness_table_0x7ff[c + 1] \in Nat
      /\ Lights!brightness_table_0xfff[b + 1] \in Nat
      /\ Lights!brightness_table_0xfff[c + 1] \in Nat
  BY <1>1, SmallTableInRange, LargeTableInRange
<1>3. /\ Lights!brightness_table_0x7ff[c + 1] >= Lights!brightness_table_0x7ff[b + 1]
      /\ Lights!brightness_table_0xfff[c + 1] >= Lights!brightness_table_0xfff[b + 1]
  BY <1>1, <1>2, TablesRise
<1>4. c >= b
  BY DEF Bytes
<1> QED BY <1>3, <1>4 DEF Lights!scaleBrightness

\* What the panel shows is the last colour that reached it, scaled for its range.
ShownIsScaled ==
  /\ shown \in ColorType /\ maxBrightness \in Int
  /\ brightness = Lights!scaleBrightness(Lights!getBrightness(shown), maxBrightness)

\* The panel starts dark, which is 0 in every range.
LEMMA ShownInit == Lights!Init => ShownIsScaled
<1> SUFFICES ASSUME Lights!Init PROVE ShownIsScaled
  OBVIOUS
<1>1. shown = Lights!Dark /\ maxBrightness = 0 /\ brightness = 0
  BY DEF Lights!Init
<1>2. Lights!Dark \in ColorType
  BY DEF Lights!Dark, ColorType
<1>3. Lights!getBrightness(Lights!Dark) = 0
  BY DEF Lights!Dark, Lights!getBrightness, Lights!Dimmed
<1> QED BY <1>1, <1>2, <1>3 DEF ShownIsScaled, Lights!scaleBrightness

\* setLightState (113-121) writes the scaled brightness of the colour it keeps.
LEMMA ShownStep == ShownIsScaled /\ [Lights!Next]_lightsVars => ShownIsScaled'
<1> SUFFICES ASSUME ShownIsScaled, [Lights!Next]_lightsVars PROVE ShownIsScaled'
  OBVIOUS
<1>1. ASSUME NEW color \in Colors, NEW max \in Lights!MaxInUse,
             Lights!setLightState(color, max)
      PROVE  ShownIsScaled'
  <2>1. color \in ColorType
    BY LightsAssumption DEF ColorType
  <2>2. max \in Int
    BY LightsAssumption DEF Lights!MaxInUse, Lights!getMaxBrightness
  <2> QED
    BY <1>1, <2>1, <2>2 DEF Lights!setLightState, Lights!vars, ShownIsScaled
<1>2. CASE UNCHANGED lightsVars
  BY <1>2 DEF lightsVars, ShownIsScaled
<1> QED BY <1>1, <1>2 DEF Lights!Next

\* The value on the panel is in its range.
LEMMA ShownInRange == ShownIsScaled => InPanelRange
BY BrightnessByte, ScaledInRange DEF ShownIsScaled, InPanelRange, Lights!InPanelRange

\* A step from what is shown to more of it is no step to less light.
NotDarker ==
  maxBrightness' = maxBrightness /\ Lights!Covers(shown', shown) => brightness' >= brightness
\* Two colours in order are in order on the panel, when it is scaled alike.
LEMMA ShownOrdered == ShownIsScaled /\ ShownIsScaled' => NotDarker
<1> SUFFICES ASSUME ShownIsScaled, ShownIsScaled', maxBrightness' = maxBrightness,
                    Lights!Covers(shown', shown)
             PROVE  brightness' >= brightness
  BY DEF NotDarker
<1>1. Lights!getBrightness(shown') >= Lights!getBrightness(shown)
  BY BrightnessOrdered DEF ShownIsScaled
<1>2. Lights!getBrightness(shown') \in Bytes /\ Lights!getBrightness(shown) \in Bytes
  BY BrightnessByte DEF ShownIsScaled
<1>3. Lights!getBrightness(shown) <= Lights!getBrightness(shown')
  BY <1>1, <1>2 DEF Bytes
<1> QED BY <1>2, <1>3, ScaledOrdered DEF ShownIsScaled

\* The composition: a step of another part leaves the lights alone.
LEMMA LightsRun == Spec => Lights!Init /\ [][Lights!Next]_lightsVars
<1>1. Init => Lights!Init
  BY DEF Init
<1>2. [Next]_<<focus, lightsVars, touchVars, bootVars>> => [Lights!Next]_lightsVars
  BY DEF Next
<1> QED BY <1>1, <1>2, PTL DEF Spec

\* What the panel shows is, after every call of setLightState (Light.cpp:113-121),
\* the brightness of the last colour that reached it, scaled for its range (76-85).
THEOREM LightsInvariant == Spec => []ShownIsScaled
BY LightsRun, ShownInit, ShownStep, PTL

\* On a panel of at least 255 steps the value written is never beyond its maximum,
\* whichever table scaleBrightness takes (Light.cpp:76-85).
THEOREM PanelInRange == Spec => []InPanelRange
BY LightsInvariant, ShownInRange, PTL

\* A colour with no channel and no opacity below those of the one shown does not make
\* the panel darker: neither the dimming (64-71), nor the mean (73), nor the
\* tables of Light.h turn the order round.
THEOREM MoreIsNotDarker == Spec => NeverDarker
<1>1. Spec => [][NotDarker]_lightsVars
  BY LightsInvariant, ShownOrdered, PTL
<1> QED
  BY <1>1, PTL DEF NeverDarker, Lights!NeverDarker, NotDarker, lightsVars, Lights!vars

-----------------------------------------------------------------------------
\* Touch gestures and power mode.

\* The driver has a value for each node, and so has the last answer.
AnswersKept ==
  nodes \in [Touch!Nodes -> BOOLEAN] /\ answered \in [Touch!Nodes -> BOOLEAN] /\ TouchAnswersHold

\* No driver has refused anything yet, and nothing has been answered.
LEMMA TouchInit == Touch!Init => AnswersKept
BY DEF Touch!Init, AnswersKept, TouchAnswersHold, Touch!TouchAnswersHold

\* A request changes one node and what was answered for it, never those of another
\* (TouchscreenGesture.cpp:44-56; power-mode.cpp:33-46).
LEMMA TouchStep == AnswersKept /\ [Touch!Next]_touchVars => AnswersKept'
<1> SUFFICES ASSUME AnswersKept, [Touch!Next]_touchVars PROVE AnswersKept'
  OBVIOUS
<1> USE DEF AnswersKept, TouchAnswersHold, Touch!TouchAnswersHold
<1>1. CASE UNCHANGED touchVars
  BY <1>1 DEF touchVars
<1>2. ASSUME NEW n \in Touch!Nodes, NEW enabled \in BOOLEAN,
             Touch!Answer(n, enabled), Touch!Written(n, enabled)
      PROVE  AnswersKept'
  BY <1>2 DEF Touch!Answer, Touch!Written
<1>3. ASSUME NEW n \in Touch!Nodes, NEW enabled \in BOOLEAN,
             Touch!Answer(n, enabled), refused' = refused \union {n}, UNCHANGED nodes
      PROVE  AnswersKept'
  BY <1>3 DEF Touch!Answer
<1>4. CASE Touch!Fails
  BY <1>4 DEF Touch!Fails, Touch!vars
<1>5. ASSUME NEW enabled \in BOOLEAN, NEW id \in Requests, Touch!setGestureEnabled(id, enabled)
      PROVE  AnswersKept'
  <2>1. CASE id \notin Touch!getSupportedGestures
    BY <1>4, <1>5, <2>1 DEF Touch!setGestureEnabled
  <2>2. CASE id \in Touch!getSupportedGestures
    <3>1. Touch!kGestureInfoMap[id] \in Touch!Nodes
      BY <2>2 DEF Touch!Nodes
    <3>2. \/ Touch!Fails
          \/ /\ Touch!Answer(Touch!kGestureInfoMap[id], enabled)
             /\ Touch!Written(Touch!kGestureInfoMap[id], enabled)
          \/ /\ Touch!Answer(Touch!kGestureInfoMap[id], enabled)
             /\ refused' = refused \union {Touch!kGestureInfoMap[id]} /\ UNCHANGED nodes
      BY <1>5, <2>2 DEF Touch!setGestureEnabled, Touch!GestureFails
    <3> QED BY <1>2, <1>3, <1>4, <3>1, <3>2
  <2> QED BY <2>1, <2>2
<1>6. ASSUME NEW enabled \in BOOLEAN, Touch!setDeviceSpecificMode(enabled) PROVE AnswersKept'
  <2>1. Touch!Tap \in Touch!Nodes
    BY DEF Touch!Nodes
  <2> QED BY <1>2, <1>4, <1>6, <2>1 DEF Touch!setDeviceSpecificMode
<1> QED BY <1>1, <1>5, <1>6 DEF Touch!Next

\* The composition: a step of another part leaves the touch nodes alone.
LEMMA TouchRun == Spec => Touch!Init /\ [][Touch!Next]_touchVars
<1>1. Init => Touch!Init
  BY DEF Init
<1>2. [Next]_<<focus, lightsVars, touchVars, bootVars>> => [Touch!Next]_touchVars
  BY DEF Next
<1> QED BY <1>1, <1>2, PTL DEF Spec

\* What the gesture and power HALs last answered of a node is what its driver holds,
\* but for a gesture's node that refused the value when the stream was closed, after
\* fail() was asked (TouchscreenGesture.cpp:50-53; power-mode.cpp:33-46).
THEOREM AnswersHold == Spec => []TouchAnswersHold
<1>1. AnswersKept => TouchAnswersHold
  BY DEF AnswersKept
<1> QED BY <1>1, TouchRun, TouchInit, TouchStep, PTL

-----------------------------------------------------------------------------
\* Property overrides at boot.

HeapNames == {Boot!Plain(key) : key \in Boot!Heap}

\* The properties that name the device, but for those that are never reached.
Identifying == Boot!IdentityProperties \ (Boot!Missed \union HeapNames)

\* Names of different form or key are different properties.
LEMMA NamesDiffer ==
  /\ \A s, k, t, l : Boot!Product(s, k) = Boot!Product(t, l) <=> s = t /\ k = l
  /\ \A s, k, t, l : Boot!Build(s, k) = Boot!Build(t, l) <=> s = t /\ k = l
  /\ \A k, l : Boot!Plain(k) = Boot!Plain(l) <=> k = l
  /\ \A s, k, t, l : Boot!Product(s, k) # Boot!Build(t, l)
  /\ \A s, k, l : Boot!Product(s, k) # Boot!Plain(l)
  /\ \A s, k, l : Boot!Build(s, k) # Boot!Plain(l)
BY DEF Boot!Product, Boot!Build, Boot!Plain

\* What one call writes (38-45).
LEMMA OverrideOne ==
  ASSUME NEW n, NEW k, NEW v
  PROVE  /\ Boot!property_override(n, k, v).names = {n}
         /\ Boot!property_override(n, k, v).value.part = k
         /\ Boot!property_override(n, k, v).value.variant = v
BY DEF Boot!property_override, Boot!Call

ProductsOf(key) == {Boot!Product(s, key) : s \in Boot!Sources}
BuildsOf(key)   == {Boot!Build(s, key) : s \in Boot!Sources}

\* set_ro_build_prop (47-60) writes the property of every source.
LEMMA OverrideEvery ==
  ASSUME NEW key, NEW k, NEW v
  PROVE  /\ Boot!set_ro_build_prop(key, k, v, TRUE).names = ProductsOf(key)
         /\ Boot!set_ro_build_prop(key, k, v, FALSE).names = BuildsOf(key)
BY DEF Boot!set_ro_build_prop, Boot!Call, ProductsOf, BuildsOf

\* The names of the calls for the heap (100-106), which are one call here.
LEMMA OverrideHeap ==
  ASSUME NEW size
  PROVE  Boot!Call(HeapNames, "heap", size, TRUE).names = HeapNames
BY DEF Boot!Call

\* What the sequences hold does not matter to their length and order.
IsSequence(s) == \E S : s \in Seq(S)

\* A tuple of six, as the loops of 166-171 are here.
LEMMA SixIsSequence ==
  ASSUME NEW a, NEW b, NEW c, NEW d, NEW e, NEW f
  PROVE  IsSequence(<< a, b, c, d, e, f >>) /\ Len(<< a, b, c, d, e, f >>) = 6
<1>1. << a, b, c, d, e, f >> \in Seq({a, b, c, d, e, f})
  OBVIOUS
<1> QED BY <1>1 DEF IsSequence

\* A tuple of twelve, as the calls of 173-184 are here.
LEMMA TwelveIsSequence ==
  ASSUME NEW a, NEW b, NEW c, NEW d, NEW e, NEW f, NEW g, NEW h, NEW i, NEW j, NEW k, NEW l
  PROVE  /\ IsSequence(<< a, b, c, d, e, f, g, h, i, j, k, l >>)
         /\ Len(<< a, b, c, d, e, f, g, h, i, j, k, l >>) = 12
<1>1. << a, b, c, d, e, f, g, h, i, j, k, l >> \in Seq({a, b, c, d, e, f, g, h, i, j, k, l})
  OBVIOUS
<1> QED BY <1>1 DEF IsSequence

\* A tuple of one, as the calls for the heap are here.
LEMMA OneIsSequence ==
  ASSUME NEW a
  PROVE  IsSequence(<< a >>) /\ Len(<< a >>) = 1 /\ << a >>[1] = a
<1>1. << a >> \in Seq({a})
  OBVIOUS
<1> QED BY <1>1 DEF IsSequence

\* No calls at all, as outside a boot.
LEMMA NoneIsSequence == IsSequence(<< >>) /\ Len(<< >>) = 0
<1>1. << >> \in Seq({})
  OBVIOUS
<1> QED BY <1>1 DEF IsSequence

\* One list of calls after another.
LEMMA JoinedSequence ==
  ASSUME NEW s, NEW t, IsSequence(s), IsSequence(t)
  PROVE  /\ IsSequence(s \o t) /\ Len(s \o t) = Len(s) + Len(t)
         /\ Len(s) \in Nat /\ Len(t) \in Nat
         /\ \A i \in 1..Len(s) : (s \o t)[i] = s[i]
         /\ \A i \in 1..Len(t) : (s \o t)[Len(s) + i] = t[i]
<1>1. PICK S : s \in Seq(S)
  BY DEF IsSequence
<1>2. PICK T : t \in Seq(T)
  BY DEF IsSequence
<1>3. s \in Seq(S \union T) /\ t \in Seq(S \union T)
  BY <1>1, <1>2
<1>4. s \o t \in Seq(S \union T)
  BY <1>3
<1> QED BY <1>3, <1>4 DEF IsSequence

\* What remains of a list of calls when the first is carried out.
LEMMA RestOfSequence ==
  ASSUME NEW s, IsSequence(s), s # << >>
  PROVE  /\ IsSequence(Tail(s)) /\ Len(s) \in Nat \ {0} /\ Len(Tail(s)) = Len(s) - 1
         /\ Head(s) = s[1] /\ \A i \in 1..(Len(s) - 1) : Tail(s)[i] = s[i + 1]
<1>1. PICK S : s \in Seq(S)
  BY DEF IsSequence
<1> QED BY <1>1 DEF IsSequence

\* There are six calls for every source (166-171).
LEMMA ForEveryType ==
  ASSUME NEW v
  PROVE  IsSequence(Boot!ForEverySource(v)) /\ Len(Boot!ForEverySource(v)) = 6
BY SixIsSequence, Zenon DEF Boot!ForEverySource

\* There are twelve for one property (173-184).
LEMMA ForOneType ==
  ASSUME NEW v
  PROVE  IsSequence(Boot!ForOne(v)) /\ Len(Boot!ForOne(v)) = 12
BY TwelveIsSequence, Zenon DEF Boot!ForOne

\* The calls for the heap's properties (100-106) are one here.
LEMMA HeapType ==
  ASSUME NEW ram
  PROVE  /\ IsSequence(Boot!load_dalvik_properties(ram))
         /\ Len(Boot!load_dalvik_properties(ram)) = 1
         /\ Boot!load_dalvik_properties(ram)[1].names = HeapNames
<1>1. PICK size : Boot!load_dalvik_properties(ram) = << Boot!Call(HeapNames, "heap", size, TRUE) >>
  BY Zenon DEF Boot!load_dalvik_properties, HeapNames
<1> DEFINE c == Boot!Call(HeapNames, "heap", size, TRUE)
<1>2. c.names = HeapNames
  BY OverrideHeap
<1>3. Boot!load_dalvik_properties(ram) = << c >>
  BY <1>1
<1> HIDE DEF c
<1> QED BY <1>2, <1>3, OneIsSequence

\* The calls of ForEverySource, one by one (166-171).
LEMMA ForEveryCalls ==
  ASSUME NEW v
  PROVE  /\ Boot!ForEverySource(v)[1].names = ProductsOf("model")
         /\ Boot!ForEverySource(v)[2].names = ProductsOf("device")
         /\ Boot!ForEverySource(v)[3].names = ProductsOf("name")
         /\ Boot!ForEverySource(v)[4].names = BuildsOf("product")
         /\ Boot!ForEverySource(v)[5].names = ProductsOf("marketname")
         /\ Boot!ForEverySource(v)[6].names = ProductsOf("fingerprint")
         /\ \A i \in 1..6 : Boot!ForEverySource(v)[i].value.variant = v
<1>1. /\ Boot!ForEverySource(v)[1].names = ProductsOf("model")
      /\ Boot!ForEverySource(v)[1].value.variant = v
  <2>1. Boot!set_ro_build_prop("model", "model", v, TRUE).names = ProductsOf("model")
    BY OverrideEvery
  <2>2. Boot!set_ro_build_prop("model", "model", v, TRUE).value.variant = v
    BY DEF Boot!set_ro_build_prop, Boot!Call
  <2>3. Boot!ForEverySource(v)[1] = Boot!set_ro_build_prop("model", "model", v, TRUE)
    BY DEF Boot!ForEverySource
  <2> QED BY <2>1, <2>2, <2>3
<1>2. /\ Boot!ForEverySource(v)[2].names = ProductsOf("device")
      /\ Boot!ForEverySource(v)[2].value.variant = v
  <2>1. Boot!set_ro_build_prop("device", "device", v, TRUE).names = ProductsOf("device")
    BY OverrideEvery
  <2>2. Boot!set_ro_build_prop("device", "device", v, TRUE).value.variant = v
    BY DEF Boot!set_ro_build_prop, Boot!Call
  <2>3. Boot!ForEverySource(v)[2] = Boot!set_ro_build_prop("device", "device", v, TRUE)
    BY DEF Boot!ForEverySource
  <2> QED BY <2>1, <2>2, <2>3
<1>3. /\ Boot!ForEverySource(v)[3].names = ProductsOf("name")
      /\ Boot!ForEverySource(v)[3].value.variant = v
  <2>1. Boot!set_ro_build_prop("name", "model", v, TRUE).names = ProductsOf("name")
    BY OverrideEvery
  <2>2. Boot!set_ro_build_prop("name", "model", v, TRUE).value.variant = v
    BY DEF Boot!set_ro_build_prop, Boot!Call
  <2>3. Boot!ForEverySource(v)[3] = Boot!set_ro_build_prop("name", "model", v, TRUE)
    BY DEF Boot!ForEverySource
  <2> QED BY <2>1, <2>2, <2>3
<1>4. /\ Boot!ForEverySource(v)[4].names = BuildsOf("product")
      /\ Boot!ForEverySource(v)[4].value.variant = v
  <2>1. Boot!set_ro_build_prop("product", "model", v, FALSE).names = BuildsOf("product")
    BY OverrideEvery
  <2>2. Boot!set_ro_build_prop("product", "model", v, FALSE).value.variant = v
    BY DEF Boot!set_ro_build_prop, Boot!Call
  <2>3. Boot!ForEverySource(v)[4] = Boot!set_ro_build_prop("product", "model", v, FALSE)
    BY DEF Boot!ForEverySource
  <2> QED BY <2>1, <2>2, <2>3
<1>5. /\ Boot!ForEverySource(v)[5].names = ProductsOf("marketname")
      /\ Boot!ForEverySource(v)[5].value.variant = v
  <2>1. Boot!set_ro_build_prop("marketname", "marketname", v, TRUE).names = ProductsOf("marketname")
    BY OverrideEvery
  <2>2. Boot!set_ro_build_prop("marketname", "marketname", v, TRUE).value.variant = v
    BY DEF Boot!set_ro_build_prop, Boot!Call
  <2>3. Boot!ForEverySource(v)[5] = Boot!set_ro_build_prop("marketname", "marketname", v, TRUE)
    BY DEF Boot!ForEverySource
  <2> QED BY <2>1, <2>2, <2>3
<1>6. /\ Boot!ForEverySource(v)[6].names = ProductsOf("fingerprint")
      /\ Boot!ForEverySource(v)[6].value.variant = v
  <2>1. Boot!set_ro_build_prop("fingerprint", "fingerprint", v, TRUE).names = ProductsOf("fingerprint")
    BY OverrideEvery
  <2>2. Boot!set_ro_build_prop("fingerprint", "fingerprint", v, TRUE).value.variant = v
    BY DEF Boot!set_ro_build_prop, Boot!Call
  <2>3. Boot!ForEverySource(v)[6] = Boot!set_ro_build_prop("fingerprint", "fingerprint", v, TRUE)
    BY DEF Boot!ForEverySource
  <2> QED BY <2>1, <2>2, <2>3
<1> QED BY <1>1, <1>2, <1>3, <1>4, <1>5, <1>6

\* The calls of ForOne, one by one (173-184).
LEMMA ForOneCalls ==
  ASSUME NEW v
  PROVE  /\ Boot!ForOne(v)[1] = Boot!property_override(Boot!Product("none", "device"), "device", v)
         /\ Boot!ForOne(v)[2] = Boot!property_override(Boot!Plain("ro.vendor.device"), "device", v)
         /\ Boot!ForOne(v)[3] = Boot!property_override(Boot!Build("none", "product"), "device", v)
         /\ Boot!ForOne(v)[4] = Boot!property_override(Boot!Product("none", "marketname"), "marketname", v)
         /\ Boot!ForOne(v)[5] = Boot!property_override(Boot!Plain("ro.oplus.market.name"), "marketname", v)
         /\ Boot!ForOne(v)[6] = Boot!property_override(Boot!Plain("ro.vendor.oplus.market.name"), "marketname", v)
         /\ Boot!ForOne(v)[7] = Boot!property_override(Boot!Build("vendor", "fingerprint"), "fingerprint", v)
         /\ Boot!ForOne(v)[8] = Boot!property_override(Boot!Build("bootimage", "fingerprint"), "fingerprint", v)
         /\ Boot!ForOne(v)[9] = Boot!property_override(Boot!Build("odm", "fingerprint"), "fingerprint", v)
         /\ Boot!ForOne(v)[10] = Boot!property_override(Boot!Build("none", "fingerprint"), "fingerprint", v)
         /\ Boot!ForOne(v)[11] = Boot!property_override(Boot!Plain("bluetooth.device.default_name"), "marketname", v)
         /\ Boot!ForOne(v)[12] = Boot!property_override(Boot!Plain("vendor.usb.product_string"), "marketname", v)
BY DEF Boot!ForOne

\* All of them write the variant, as far as they are not for the heap.
LEMMA IdentityWritesVariant ==
  ASSUME NEW v
  PROVE  /\ \A i \in 1..6 : Boot!ForEverySource(v)[i].value.variant = v
         /\ \A i \in 1..12 : Boot!ForOne(v)[i].value.variant = v
<1>1. \A i \in 1..6 : Boot!ForEverySource(v)[i].value.variant = v
  BY ForEveryCalls
<1>2. \A i \in 1..12 : Boot!ForOne(v)[i].value.variant = v
  BY ForOneCalls, OverrideOne
<1> QED BY <1>1, <1>2

\* Each identifying property is in one of them.
LEMMA IdentityCovers ==
  ASSUME NEW v, NEW n \in Identifying
  PROVE  \/ \E i \in 1..6 : n \in Boot!ForEverySource(v)[i].names
         \/ \E i \in 1..12 : n \in Boot!ForOne(v)[i].names
<1>1. CASE \E s \in Boot!Sources, key \in {"model", "device", "name", "marketname", "fingerprint"} :
             n = Boot!Product(s, key)
  <2>1. PICK s \in Boot!Sources, key \in {"model", "device", "name", "marketname", "fingerprint"} :
          n = Boot!Product(s, key)
    BY <1>1
  <2>2. \E i \in 1..6 : n \in Boot!ForEverySource(v)[i].names
    <3>1. CASE key = "model"
      BY <2>1, <3>1, ForEveryCalls DEF ProductsOf, BuildsOf
    <3>2. CASE key = "device"
      BY <2>1, <3>2, ForEveryCalls DEF ProductsOf, BuildsOf
    <3>3. CASE key = "name"
      BY <2>1, <3>3, ForEveryCalls DEF ProductsOf, BuildsOf
    <3>4. CASE key = "marketname"
      BY <2>1, <3>4, ForEveryCalls DEF ProductsOf, BuildsOf
    <3>5. CASE key = "fingerprint"
      BY <2>1, <3>5, ForEveryCalls DEF ProductsOf, BuildsOf
    <3> QED BY <3>1, <3>2, <3>3, <3>4, <3>5
  <2> QED BY <2>2
<1>2. CASE \E s \in Boot!Sources : n = Boot!Build(s, "product")
  BY <1>2, ForEveryCalls DEF ProductsOf, BuildsOf
<1>3. CASE \E s \in Boot!Sources : n = Boot!Build(s, "fingerprint")
  <2>1. PICK s \in Boot!Sources : n = Boot!Build(s, "fingerprint")
    BY <1>3
  <2>2. s \in Boot!Fingerprinted
    BY <2>1 DEF Identifying, Boot!Missed
  <2>3. s \in {"vendor", "bootimage", "odm", "none"}
    BY <2>2 DEF Boot!Fingerprinted
  <2>4. \E i \in 1..12 : n \in Boot!ForOne(v)[i].names
    <3>1. CASE s = "vendor"
      BY <2>1, <3>1, ForOneCalls, OverrideOne
    <3>2. CASE s = "bootimage"
      BY <2>1, <3>2, ForOneCalls, OverrideOne
    <3>3. CASE s = "odm"
      BY <2>1, <3>3, ForOneCalls, OverrideOne
    <3>4. CASE s = "none"
      BY <2>1, <3>4, ForOneCalls, OverrideOne
    <3> QED BY <2>3, <3>1, <3>2, <3>3, <3>4
  <2> QED BY <2>4
<1>4. CASE \E k \in {"ro.vendor.device", "ro.oplus.market.name", "ro.vendor.oplus.market.name",
                     "bluetooth.device.default_name", "vendor.usb.product_string"} :
             n = Boot!Plain(k)
  <2>1. PICK k \in {"ro.vendor.device", "ro.oplus.market.name", "ro.vendor.oplus.market.name",
                    "bluetooth.device.default_name", "vendor.usb.product_string"} :
          n = Boot!Plain(k)
    BY <1>4
  <2>2. \E i \in 1..12 : n \in Boot!ForOne(v)[i].names
    <3>1. CASE k = "ro.vendor.device"
      BY <2>1, <3>1, ForOneCalls, OverrideOne
    <3>2. CASE k = "ro.oplus.market.name"
      BY <2>1, <3>2, ForOneCalls, OverrideOne
    <3>3. CASE k = "ro.vendor.oplus.market.name"
      BY <2>1, <3>3, ForOneCalls, OverrideOne
    <3>4. CASE k = "bluetooth.device.default_name"
      BY <2>1, <3>4, ForOneCalls, OverrideOne
    <3>5. CASE k = "vendor.usb.product_string"
      BY <2>1, <3>5, ForOneCalls, OverrideOne
    <3> QED BY <3>1, <3>2, <3>3, <3>4, <3>5
  <2> QED BY <2>2
<1> QED
  <2>1. n \in Boot!IdentityProperties /\ n \notin HeapNames
    BY DEF Identifying
  <2> QED BY <1>1, <1>2, <1>3, <1>4, <2>1 DEF Boot!IdentityProperties, HeapNames

\* The two properties that several calls write.
Twice == {Boot!Build("none", "product"), Boot!Product("none", "device")}

\* The last of these calls writes the device (173, 175).
LEMMA DeviceComesLast ==
  ASSUME NEW v
  PROVE  /\ \A n \in Twice : \E i \in 1..3 :
              n \in Boot!ForOne(v)[i].names /\ Boot!ForOne(v)[i].value.part = "device"
         /\ \A n \in Twice, i \in 4..12 : n \notin Boot!ForOne(v)[i].names
         /\ Twice \intersect HeapNames = {}
         /\ \A i \in 2..12 : Boot!Product("none", "device") \notin Boot!ForOne(v)[i].names
<1>1. /\ Boot!ForOne(v)[1].names = {Boot!Product("none", "device")}
      /\ Boot!ForOne(v)[2].names = {Boot!Plain("ro.vendor.device")}
      /\ Boot!ForOne(v)[3].names = {Boot!Build("none", "product")}
      /\ Boot!ForOne(v)[4].names = {Boot!Product("none", "marketname")}
      /\ Boot!ForOne(v)[5].names = {Boot!Plain("ro.oplus.market.name")}
      /\ Boot!ForOne(v)[6].names = {Boot!Plain("ro.vendor.oplus.market.name")}
      /\ Boot!ForOne(v)[7].names = {Boot!Build("vendor", "fingerprint")}
      /\ Boot!ForOne(v)[8].names = {Boot!Build("bootimage", "fingerprint")}
      /\ Boot!ForOne(v)[9].names = {Boot!Build("odm", "fingerprint")}
      /\ Boot!ForOne(v)[10].names = {Boot!Build("none", "fingerprint")}
      /\ Boot!ForOne(v)[11].names = {Boot!Plain("bluetooth.device.default_name")}
      /\ Boot!ForOne(v)[12].names = {Boot!Plain("vendor.usb.product_string")}
  BY ForOneCalls, OverrideOne
<1>2. Boot!ForOne(v)[1].value.part = "device" /\ Boot!ForOne(v)[3].value.part = "device"
  BY ForOneCalls, OverrideOne
<1>3. \A n \in Twice : \E i \in 1..3 :
        n \in Boot!ForOne(v)[i].names /\ Boot!ForOne(v)[i].value.part = "device"
  BY <1>1, <1>2 DEF Twice
<1>4. \A n \in Twice, i \in 4..12 : n \notin Boot!ForOne(v)[i].names
  BY <1>1, NamesDiffer DEF Twice
<1>5. \A i \in 2..12 : Boot!Product("none", "device") \notin Boot!ForOne(v)[i].names
  BY <1>1, NamesDiffer
<1>6. Twice \intersect HeapNames = {}
  BY NamesDiffer DEF Twice, HeapNames
<1> QED BY <1>3, <1>4, <1>5, <1>6

\* Of calls to come: they are for the variant v or for the heap, ...
ForVariant(s, v) ==
  \A i \in 1..Len(s) : s[i].names = HeapNames \/ s[i].value.variant = v
\* ... the last one for each of the two properties writes the device, ...
DeviceLast(s) ==
  \A n \in Twice, i \in 1..Len(s) :
    n \in s[i].names => \E j \in i..Len(s) : n \in s[j].names /\ s[j].value.part = "device"
\* ... and every identifying property is in one.
InOne(s, n) == \E i \in 1..Len(s) : n \in s[i].names

\* The places of the calls of one boot.
Everys == 1..6
Ones   == 1..12
Calls  == 1..19
\* Where each of the nineteen calls is found: six, then twelve, then the heap.
LEMMA Place ==
  /\ \A i \in Calls : i \in Int /\ (i \in Everys \/ i - 6 \in Ones \/ i = 19)
  /\ \A i \in Calls : i # 19 /\ 2 <= i - 6 => i - 6 \in Ones
  /\ \A i \in Calls : 6 + (i - 6) = i
  /\ \A i \in Calls : i <= 19 /\ i >= 1
  /\ \A i \in Everys : i \in Calls
  /\ \A i \in Ones : 6 + i \in Calls
BY DEF Everys, Ones, Calls

\* The identity of a variant, followed by the heap (187-192).
LEMMA IdentityBoot ==
  ASSUME NEW v, NEW ram, NEW s, s = Boot!Identity(v) \o Boot!load_dalvik_properties(ram)
  PROVE  /\ IsSequence(s) /\ ForVariant(s, v) /\ DeviceLast(s)
         /\ \A n \in Identifying : InOne(s, n)
<1> DEFINE a == Boot!ForEverySource(v)
           b == Boot!ForOne(v)
           h == Boot!load_dalvik_properties(ram)
<1>1. IsSequence(a) /\ Len(a) = 6 /\ IsSequence(b) /\ Len(b) = 12
  BY ForEveryType, ForOneType
<1>2. IsSequence(h) /\ Len(h) = 1 /\ h[1].names = HeapNames
  BY HeapType
<1>3. s = (a \o b) \o h
  BY DEF Boot!Identity
<1>4. /\ \A i \in Everys : a[i].value.variant = v
      /\ \A i \in Ones : b[i].value.variant = v
  BY IdentityWritesVariant DEF Everys, Ones
<1>5. \A n \in Identifying :
        (\E i \in Everys : n \in a[i].names) \/ (\E i \in Ones : n \in b[i].names)
  BY IdentityCovers DEF Everys, Ones
<1>6. /\ \A n \in Twice, i \in Ones : 4 <= i => n \notin b[i].names
      /\ Twice \intersect HeapNames = {}
      /\ \A i \in Ones : 2 <= i => Boot!Product("none", "device") \notin b[i].names
  <2>1. \A i \in Ones : (4 <= i => i \in 4..12) /\ (2 <= i => i \in 2..12)
    BY DEF Ones
  <2> QED BY <2>1, DeviceComesLast
<1>7. b[3].value.part = "device" /\ b[3].names = {Boot!Build("none", "product")}
      /\ b[1].value.part = "device" /\ b[1].names = {Boot!Product("none", "device")}
  BY ForOneCalls, OverrideOne
<1> HIDE DEF a, b, h
<1>8. /\ IsSequence(a \o b) /\ Len(a \o b) = 18
      /\ \A i \in 1..Len(a) : (a \o b)[i] = a[i]
      /\ \A i \in 1..Len(b) : (a \o b)[Len(a) + i] = b[i]
  <2>1. /\ IsSequence(a \o b) /\ Len(a \o b) = Len(a) + Len(b)
        /\ \A i \in 1..Len(a) : (a \o b)[i] = a[i]
        /\ \A i \in 1..Len(b) : (a \o b)[Len(a) + i] = b[i]
    <3>1. IsSequence(a) /\ IsSequence(b)
      BY <1>1
    <3> QED BY <3>1, JoinedSequence
  <2>2. Len(a \o b) = 18
    BY <1>1, <2>1
  <2> QED BY <2>1, <2>2
<1> DEFINE c == a \o b
<1>9. IsSequence(c) /\ Len(c) = 18 /\ s = c \o h
  BY <1>3, <1>8
<1>10. /\ \A i \in 1..Len(a) : c[i] = a[i]
       /\ \A i \in 1..Len(b) : c[Len(a) + i] = b[i]
  BY <1>8
<1> HIDE DEF c
<1>11. /\ IsSequence(s) /\ Len(s) = 19 /\ s[19] = h[1]
       /\ \A i \in 1..Len(c) : s[i] = c[i]
  <2>1. /\ IsSequence(c \o h) /\ Len(c \o h) = Len(c) + Len(h)
        /\ \A i \in 1..Len(c) : (c \o h)[i] = c[i]
        /\ \A i \in 1..Len(h) : (c \o h)[Len(c) + i] = h[i]
    <3>1. IsSequence(c) /\ IsSequence(h)
      BY <1>2, <1>9
    <3> QED BY <3>1, JoinedSequence
  <2>2. Len(c \o h) = 19 /\ (c \o h)[19] = h[1]
    <3>1. 1 \in 1..Len(h) /\ Len(c) + 1 = 19
      BY <1>2, <1>9
    <3>2. (c \o h)[Len(c) + 1] = h[1]
      BY <2>1, <3>1
    <3>3. Len(c \o h) = 19
      BY <2>1, <1>2, <1>9
    <3> QED BY <3>1, <3>2, <3>3
  <2> QED BY <1>9, <2>1, <2>2
<1>12. ASSUME NEW i \in Everys PROVE s[i] = a[i]
  <2>1. i \in 1..Len(a) /\ i \in 1..Len(c)
    BY <1>1, <1>9 DEF Everys
  <2> QED BY <2>1, <1>10, <1>11
<1>13. ASSUME NEW i \in Ones PROVE s[6 + i] = b[i]
  <2>1. i \in 1..Len(b) /\ 6 + i \in 1..Len(c) /\ Len(a) = 6
    BY <1>1, <1>9 DEF Ones
  <2>2. c[6 + i] = b[i]
    BY <2>1, <1>10
  <2>3. s[6 + i] = c[6 + i]
    BY <2>1, <1>11
  <2> QED BY <2>2, <2>3
<1>14. s[19].names = HeapNames
  BY <1>2, <1>11
<1>15. ForVariant(s, v)
  <2> SUFFICES ASSUME NEW i \in Calls PROVE s[i].names = HeapNames \/ s[i].value.variant = v
    BY <1>11 DEF ForVariant, Calls
  <2>1. CASE i \in Everys
    BY <2>1, <1>4, <1>12
  <2>2. CASE i - 6 \in Ones
    <3>1. s[6 + (i - 6)] = b[i - 6]
      BY <2>2, <1>13
    <3>2. 6 + (i - 6) = i
      BY Place
    <3>3. b[i - 6].value.variant = v
      BY <2>2, <1>4
    <3> QED BY <3>1, <3>2, <3>3
  <2>3. CASE i = 19
    BY <2>3, <1>14
  <2> QED BY <2>1, <2>2, <2>3, Place
<1>16. ASSUME NEW n \in Identifying PROVE InOne(s, n)
  <2>1. CASE \E i \in Everys : n \in a[i].names
    <3>1. PICK i \in Everys : n \in a[i].names
      BY <2>1
    <3>2. i \in Calls /\ n \in s[i].names
      BY <3>1, <1>12, Place
    <3> QED BY <3>2, <1>11 DEF InOne, Calls
  <2>2. CASE \E i \in Ones : n \in b[i].names
    <3>1. PICK i \in Ones : n \in b[i].names
      BY <2>2
    <3>2. 6 + i \in Calls
      BY Place
    <3>3. n \in s[6 + i].names
      BY <3>1, <1>13
    <3> QED BY <3>2, <3>3, <1>11 DEF InOne, Calls
  <2> QED BY <2>1, <2>2, <1>5
<1>17. DeviceLast(s)
  <2> SUFFICES ASSUME NEW n \in Twice, NEW i \in 1..Len(s), n \in s[i].names
               PROVE  \E j \in i..Len(s) : n \in s[j].names /\ s[j].value.part = "device"
    BY Zenon DEF DeviceLast
  <2>5. Len(s) = 19 /\ i \in Calls
    BY <1>11 DEF Calls
  <2>1. n \in {Boot!Build("none", "product"), Boot!Product("none", "device")}
    BY DEF Twice
  <2>2. i # 19
    BY <1>6, <1>14
  <2>3. CASE n = Boot!Build("none", "product")
    <3>1. ASSUME 4 <= i - 6, i # 19 PROVE FALSE
      <4>1. i - 6 \in Ones /\ 6 + (i - 6) = i
        BY <2>5, <3>1, Place
      <4>2. s[i] = b[i - 6]
        BY <4>1, <1>13
      <4> QED BY <3>1, <4>1, <4>2, <1>6
    <3>2. 9 \in i..Len(s)
      BY <2>2, <2>5, <3>1, Place
    <3>3. s[9] = b[3]
      <4>1. 3 \in Ones /\ 6 + 3 = 9
        BY DEF Ones
      <4> QED BY <4>1, <1>13
    <3> QED BY <2>3, <3>2, <3>3, <1>7
  <2>4. CASE n = Boot!Product("none", "device")
    <3>1. ASSUME 2 <= i - 6, i # 19 PROVE FALSE
      <4>1. i - 6 \in Ones /\ 6 + (i - 6) = i
        BY <2>5, <3>1, Place
      <4>2. s[i] = b[i - 6]
        BY <4>1, <1>13
      <4> QED BY <2>4, <3>1, <4>1, <4>2, <1>6
    <3>2. 7 \in i..Len(s)
      BY <2>2, <2>5, <3>1, Place
    <3>3. s[7] = b[1]
      <4>1. 1 \in Ones /\ 6 + 1 = 7
        BY DEF Ones
      <4> QED BY <4>1, <1>13
    <3> QED BY <2>4, <3>2, <3>3, <1>7
  <2> QED BY <2>1, <2>3, <2>4
<1> QED BY <1>11, <1>15, <1>16, <1>17

\* Every boot: the calls are for one variant, or for none but the heap (109-121,
\* 160-163).
LEMMA BootsAreForOne ==
  ASSUME NEW s \in Boot!Boots
  PROVE  /\ IsSequence(s) /\ DeviceLast(s)
         /\ \E v : ForVariant(s, v) /\ (v = "stock" \/ \A n \in Identifying : InOne(s, n))
<1>1. PICK recovery \in BOOLEAN, readable \in BOOLEAN, code \in OperatorCodes, ram \in RamSizes :
        s = Boot!vendor_load_properties(recovery, readable, code, ram)
  BY DEF Boot!Boots
<1> DEFINE h == Boot!load_dalvik_properties(ram)
<1>2. \/ s = << >> \o h
      \/ \E v : s = Boot!Identity(v) \o h
  BY <1>1 DEF Boot!vendor_load_properties, Boot!set_device_props
<1>3. CASE s = << >> \o h
  <2>1. IsSequence(h) /\ Len(h) = 1 /\ h[1].names = HeapNames
    BY HeapType
  <2> HIDE DEF h
  <2>2. s = h
    <3>1. PICK S : h \in Seq(S)
      BY <2>1 DEF IsSequence
    <3> QED BY <1>3, <3>1
  <2>3. \A i \in 1..Len(s) : s[i].names = HeapNames
    BY <2>1, <2>2
  <2>4. ForVariant(s, "stock")
    BY <2>3 DEF ForVariant
  <2>5. DeviceLast(s)
    BY <2>3, DeviceComesLast DEF DeviceLast
  <2> QED BY <2>1, <2>2, <2>4, <2>5
<1>4. ASSUME NEW v, s = Boot!Identity(v) \o h
      PROVE  /\ IsSequence(s) /\ DeviceLast(s)
             /\ \E x : ForVariant(s, x) /\ (x = "stock" \/ \A n \in Identifying : InOne(s, n))
  BY <1>4, IdentityBoot
<1> QED BY <1>2, <1>3, <1>4

\* While init runs: what the properties say, or will say after the calls to come.
Known == Boot!Missed \union HeapNames
Agreeing(v) ==
  \A n \in DOMAIN props \ Known : props[n].variant = v \/ InOne(todo, n)
Settled ==
  \A n \in Twice \intersect DOMAIN props :
    props[n].variant = "stock" \/ props[n].part = "device" \/ InOne(todo, n)
BootHolds ==
  /\ built \subseteq Boot!IdentityProperties
  /\ IsSequence(todo) /\ DeviceLast(todo) /\ Settled
  /\ \E v : ForVariant(todo, v) /\ Agreeing(v)

\* The properties as they were built are all of the stock variant.
Fresh ==
  /\ built \subseteq Boot!IdentityProperties /\ props = Boot!Stock(built)
  /\ IsSequence(todo) /\ DeviceLast(todo)
  /\ \E v : ForVariant(todo, v) /\ (v = "stock" \/ \A n \in Identifying : InOne(todo, n))

\* When init starts, all that the variant needs is still to be written.
LEMMA StockHolds == Fresh => BootHolds
<1> SUFFICES ASSUME Fresh PROVE BootHolds
  OBVIOUS
<1>1. DOMAIN props = built /\ \A n \in built : props[n].variant = "stock"
  BY DEF Fresh, Boot!Stock
<1>2. PICK v : ForVariant(todo, v) /\ (v = "stock" \/ \A n \in Identifying : InOne(todo, n))
  BY DEF Fresh
<1>3. Agreeing(v)
  BY <1>1, <1>2 DEF Fresh, Agreeing, Identifying, Known
<1>4. Settled
  BY <1>1 DEF Settled
<1> QED BY <1>2, <1>3, <1>4 DEF BootHolds, Fresh

\* Nothing is to come on a device whose properties are not looked at.
LEMMA BootInit == Init => BootHolds
<1> SUFFICES ASSUME Init PROVE Fresh
  BY StockHolds
<1>1. CASE focus = "boot"
  <2>1. built \in BuiltSets /\ props = Boot!Stock(built) /\ todo \in Boot!Boots
    BY <1>1 DEF Init, Boot!Init
  <2> QED BY <2>1, BootAssumption, BootsAreForOne DEF Fresh
<1>2. CASE focus # "boot"
  <2>1. built = {} /\ props = Boot!Stock(built) /\ todo = << >>
    BY <1>2 DEF Init
  <2>2. IsSequence(todo) /\ Len(todo) = 0
    BY <2>1, NoneIsSequence
  <2>3. DeviceLast(todo) /\ ForVariant(todo, "stock")
    BY <2>2 DEF DeviceLast, ForVariant
  <2> QED BY <2>1, <2>2, <2>3 DEF Fresh
<1> QED BY <1>1, <1>2

\* A call carried out (38-45): what it was to write, it has written.
LEMMA OverrideStep == BootHolds /\ Boot!Override => BootHolds'
<1> SUFFICES ASSUME BootHolds, Boot!Override PROVE BootHolds'
  OBVIOUS
<1> DEFINE call == Head(todo)
           found == IF call.add THEN call.names ELSE call.names \intersect DOMAIN props
<1>1. /\ todo # << >> /\ todo' = Tail(todo) /\ built' = built
      /\ props' = [n \in DOMAIN props \union found |-> IF n \in found THEN call.value ELSE props[n]]
  BY DEF Boot!Override
<1>2. /\ IsSequence(todo') /\ Len(todo) \in Nat \ {0} /\ Len(todo') = Len(todo) - 1
      /\ call = todo[1] /\ \A i \in 1..Len(todo') : todo'[i] = todo[i + 1]
  <2>1. IsSequence(todo)
    BY DEF BootHolds
  <2> QED BY <1>1, <2>1, RestOfSequence
<1>3. /\ found \subseteq call.names /\ DOMAIN props \intersect call.names \subseteq found
      /\ DOMAIN props' = DOMAIN props \union found
      /\ \A n \in found : props'[n] = call.value
      /\ \A n \in DOMAIN props \ found : props'[n] = props[n]
  BY <1>1
<1> HIDE DEF call, found
<1>4. ASSUME NEW n, InOne(todo, n), n \notin call.names PROVE InOne(todo', n)
  <2>1. PICK i \in 1..Len(todo) : n \in todo[i].names
    BY <1>4 DEF InOne
  <2>2. i # 1
    BY <1>2, <1>4, <2>1
  <2>3. i - 1 \in 1..Len(todo') /\ (i - 1) + 1 = i
    BY <1>2, <2>2
  <2>4. todo'[i - 1] = todo[i]
    BY <1>2, <2>3
  <2> QED BY <2>1, <2>3, <2>4 DEF InOne
<1>5. DeviceLast(todo')
  <2> SUFFICES ASSUME NEW n \in Twice, NEW i \in 1..Len(todo'), n \in todo'[i].names
               PROVE  \E j \in i..Len(todo') : n \in todo'[j].names /\ todo'[j].value.part = "device"
    BY DEF DeviceLast
  <2>1. i + 1 \in 1..Len(todo) /\ todo'[i] = todo[i + 1]
    BY <1>2
  <2>2. PICK j \in (i + 1)..Len(todo) : n \in todo[j].names /\ todo[j].value.part = "device"
    BY <2>1 DEF BootHolds, DeviceLast
  <2>3. j - 1 \in i..Len(todo') /\ j - 1 \in 1..Len(todo') /\ (j - 1) + 1 = j
    BY <1>2
  <2>4. todo'[j - 1] = todo[j]
    BY <1>2, <2>3
  <2> QED BY <2>2, <2>3, <2>4
<1>6. Settled'
  <2> SUFFICES ASSUME NEW n \in Twice, n \in DOMAIN props'
               PROVE  props'[n].variant = "stock" \/ props'[n].part = "device" \/ InOne(todo', n)
    BY DEF Settled
  <2>1. CASE n \notin call.names
    <3>1. n \in DOMAIN props \ found
      BY <2>1, <1>3
    <3>2. props[n].variant = "stock" \/ props[n].part = "device" \/ InOne(todo, n)
      BY <3>1 DEF BootHolds, Settled
    <3> QED BY <2>1, <3>1, <3>2, <1>3, <1>4
  <2>2. CASE n \in call.names
    <3>1. props'[n] = call.value
      BY <2>2, <1>3
    <3>2. 1 \in 1..Len(todo)
      BY <1>2
    <3>3. PICK j \in 1..Len(todo) : n \in todo[j].names /\ todo[j].value.part = "device"
      BY <2>2, <3>2, <1>2 DEF BootHolds, DeviceLast
    <3>4. CASE j = 1
      BY <3>1, <3>3, <3>4, <1>2
    <3>5. CASE j # 1
      <4>1. j - 1 \in 1..Len(todo') /\ (j - 1) + 1 = j
        BY <3>5, <1>2
      <4>2. todo'[j - 1] = todo[j]
        BY <4>1, <1>2
      <4> QED BY <3>3, <4>1, <4>2 DEF InOne
    <3> QED BY <3>4, <3>5
  <2> QED BY <2>1, <2>2
<1>7. PICK v : ForVariant(todo, v) /\ Agreeing(v)
  BY DEF BootHolds
<1>8. ForVariant(todo', v)
  <2> SUFFICES ASSUME NEW i \in 1..Len(todo')
               PROVE  todo'[i].names = HeapNames \/ todo'[i].value.variant = v
    BY DEF ForVariant
  <2>1. i + 1 \in 1..Len(todo) /\ todo'[i] = todo[i + 1]
    BY <1>2
  <2> QED BY <2>1, <1>7 DEF ForVariant
<1>9. Agreeing(v)'
  <2> SUFFICES ASSUME NEW n \in DOMAIN props' \ Known
               PROVE  props'[n].variant = v \/ InOne(todo', n)
    BY DEF Agreeing
  <2>1. CASE n \notin call.names
    <3>1. n \in DOMAIN props \ found
      BY <2>1, <1>3
    <3> QED BY <2>1, <3>1, <1>3, <1>4, <1>7 DEF Agreeing
  <2>2. CASE n \in call.names
    <3>1. n \in found
      BY <2>2, <1>3
    <3>2. call.names # HeapNames
      BY <2>2 DEF Known
    <3>3. 1 \in 1..Len(todo)
      BY <1>2
    <3>4. call.value.variant = v
      BY <3>2, <3>3, <1>2, <1>7 DEF ForVariant
    <3> QED BY <3>1, <3>4, <1>3
  <2> QED BY <2>1, <2>2
<1>10. built' \subseteq Boot!IdentityProperties
  BY <1>1 DEF BootHolds
<1> QED BY <1>2, <1>5, <1>6, <1>8, <1>9, <1>10 DEF BootHolds

\* A reboot brings back the properties as built, and calls for one variant.
LEMMA RebootStep == BootHolds /\ Boot!Reboot => BootHolds'
<1> SUFFICES ASSUME BootHolds, Boot!Reboot PROVE BootHolds'
  OBVIOUS
<1>1. /\ built' = built /\ built' \subseteq Boot!IdentityProperties
      /\ props' = Boot!Stock(built') /\ todo' \in Boot!Boots
  BY DEF Boot!Reboot, BootHolds
<1>2. Fresh'
  BY <1>1, BootsAreForOne DEF Fresh
<1> QED BY <1>2, StockHolds, PTL

\* Every step of init keeps it: a call, a reboot, or none.
LEMMA BootStep == BootHolds /\ [Boot!Next]_bootVars => BootHolds'
<1> SUFFICES ASSUME BootHolds, [Boot!Next]_bootVars PROVE BootHolds'
  OBVIOUS
<1>1. CASE UNCHANGED bootVars
  BY <1>1 DEF bootVars, BootHolds, Settled, Agreeing
<1> QED BY <1>1, OverrideStep, RebootStep DEF Boot!Next

\* When nothing is to come, the properties agree.
LEMMA BootAgrees == BootHolds => OneIdentity
<1> SUFFICES ASSUME BootHolds, todo = << >>
             PROVE  /\ \A n, k \in DOMAIN props \ Known : props[n].variant = props[k].variant
                    /\ \A n \in Twice \intersect DOMAIN props :
                         props[n].variant # "stock" => props[n].part = "device"
  BY DEF OneIdentity, Boot!OneIdentity, Known, HeapNames, Twice
<1>1. \A n : ~InOne(todo, n)
  <2>1. Len(todo) = 0
    BY NoneIsSequence
  <2> QED BY <2>1 DEF InOne
<1>2. PICK v : Agreeing(v)
  BY DEF BootHolds
<1> QED BY <1>1, <1>2 DEF BootHolds, Agreeing, Settled

\* The composition: a step of another part leaves the properties alone.
LEMMA BootRun == Spec => Init /\ [][Boot!Next]_bootVars
<1>1. [Next]_<<focus, lightsVars, touchVars, bootVars>> => [Boot!Next]_bootVars
  BY DEF Next
<1> QED BY <1>1, PTL DEF Spec

\* While vendor_load_properties (init.cpp:187-192) runs, what it has not yet put
\* right is still to be written by a call to come: for one and the same variant.
THEOREM BootInvariant == Spec => []BootHolds
BY BootRun, BootInit, BootStep, PTL

\* When it has run, every property that names the device is of the same variant,
\* but for those no call reaches, and the two that several calls write hold the
\* device's name (173, 175), on a first boot and after any number of others.
THEOREM OneDevice == Spec => []OneIdentity
BY BootInvariant, BootAgrees, PTL

-----------------------------------------------------------------------------
\* The finger sensor.

UdfpsHolds == Udfps!TypeOK /\ Udfps!UnseenPends

\* poll has seen nothing, and there is nothing to see.
LEMMA UdfpsInit == Udfps!Init => UdfpsHolds
BY DEF Udfps!Init, UdfpsHolds, Udfps!TypeOK, Udfps!UnseenPends

\* The steps of poll (udfps_hal.cpp): what it read, it has seen.
LEMMA PollInv == UdfpsHolds /\ (Udfps!Poll \/ Udfps!PollFails) => UdfpsHolds'
<1> SUFFICES ASSUME UdfpsHolds, Udfps!Poll \/ Udfps!PollFails PROVE UdfpsHolds'
  OBVIOUS
<1> USE DEF UdfpsHolds, Udfps!TypeOK, Udfps!UnseenPends, Udfps!device
<1>1. CASE Udfps!CallPoll \/ Udfps!WaitEvent \/ Udfps!WaitFails \/ Udfps!SeekFails
  BY <1>1 DEF Udfps!CallPoll, Udfps!WaitEvent, Udfps!WaitFails, Udfps!SeekFails
<1>2. CASE Udfps!SeekState
  BY <1>2 DEF Udfps!SeekState, Udfps!Rewind
<1>3. CASE Udfps!ReadState
  <2>1. CASE Udfps!ReadNothing /\ ppc' = "wait"
    BY <1>3, <2>1 DEF Udfps!ReadState, Udfps!ReadNothing
  <2>2. CASE Udfps!ReadText
    BY <1>3, <2>2 DEF Udfps!ReadState, Udfps!ReadText, Udfps!ReadNothing
  <2> QED
    BY <1>3, <2>1, <2>2 DEF Udfps!ReadState
<1>4. CASE Udfps!ReadBadState \/ Udfps!ReadFails
  BY <1>4 DEF Udfps!ReadBadState, Udfps!ReadFails, Udfps!ReadText, Udfps!ReadNoText,
     Udfps!Unseen
<1>5. CASE Udfps!Return
  BY <1>5 DEF Udfps!Return
<1> QED
  BY <1>1, <1>2, <1>3, <1>4, <1>5 DEF Udfps!Poll, Udfps!PollFails

\* The steps of activate and flush, which read the state as poll does.
LEMMA FlushInv ==
  UdfpsHolds /\ (Udfps!Activate \/ Udfps!Flush \/ Udfps!FlushStepFails) => UdfpsHolds'
<1> SUFFICES ASSUME UdfpsHolds, Udfps!Activate \/ Udfps!Flush \/ Udfps!FlushStepFails
             PROVE  UdfpsHolds'
  OBVIOUS
<1> USE DEF UdfpsHolds, Udfps!TypeOK, Udfps!UnseenPends, Udfps!device
<1>1. CASE \/ Udfps!Activate \/ Udfps!FlushWait \/ Udfps!FlushEnds
           \/ Udfps!FlushFails \/ Udfps!FlushSeekFails
  BY <1>1 DEF Udfps!Activate, Udfps!FlushWait, Udfps!FlushEnds, Udfps!FlushFails,
     Udfps!FlushSeekFails
<1>2. CASE Udfps!FlushSeek
  BY <1>2 DEF Udfps!FlushSeek, Udfps!Rewind
<1>3. CASE Udfps!FlushRead \/ Udfps!FlushReadFails
  BY <1>3 DEF Udfps!FlushRead, Udfps!FlushReadFails, Udfps!ReadNothing, Udfps!ReadText,
     Udfps!ReadNoText, Udfps!Unseen
<1> QED
  BY <1>1, <1>2, <1>3 DEF Udfps!Flush, Udfps!FlushStepFails

\* Every step of the sensor and of the finger.
LEMMA UdfpsStep == UdfpsHolds /\ [Udfps!Next]_udfpsVars => UdfpsHolds'
<1> SUFFICES ASSUME UdfpsHolds, [Udfps!Next]_udfpsVars PROVE UdfpsHolds'
  OBVIOUS
<1>1. CASE Udfps!Touch
  BY <1>1 DEF Udfps!Touch, Udfps!Press, Udfps!Lift, UdfpsHolds, Udfps!TypeOK, Udfps!UnseenPends
<1>2. CASE Udfps!Poll \/ Udfps!PollFails
  BY <1>2, PollInv
<1>3. CASE Udfps!Activate \/ Udfps!Flush \/ Udfps!FlushStepFails
  BY <1>3, FlushInv
<1>4. CASE UNCHANGED udfpsVars
  BY <1>4 DEF udfpsVars, UdfpsHolds, Udfps!TypeOK, Udfps!UnseenPends
<1> QED
  BY <1>1, <1>2, <1>3, <1>4 DEF Udfps!Next

\* The composition: a step of one sensor leaves the other alone.
LEMMA SensorsRun ==
  FairSpec => /\ Udfps!Init /\ [][Udfps!Next]_udfpsVars
              /\ Virtual!Init /\ [][Virtual!Next]_virtualVars
<1>1. SensorsInit => Udfps!Init /\ Virtual!Init
  BY DEF SensorsInit
<1>2. [SensorsNext]_sensorsVars => [Udfps!Next]_udfpsVars /\ [Virtual!Next]_virtualVars
  BY DEF SensorsNext, sensorsVars
<1> QED BY <1>1, <1>2, PTL DEF FairSpec

\* The variables keep their types, and a press that neither thread has seen is
\* still pending at the driver: a read consumes a notification only together with
\* the text, also when the other thread moved the offset (udfps_hal.cpp:48-63).
THEOREM UdfpsInvariant == FairSpec => [](Udfps!TypeOK /\ Udfps!UnseenPends)
<1>1. FairSpec => []UdfpsHolds
  BY SensorsRun, UdfpsInit, UdfpsStep, PTL
<1> QED
  BY <1>1, PTL DEF UdfpsHolds

\* The flush reads past the end only what poll has read since its lseek.
RoundHolds == apc = "read" /\ pending => ~atEnd

\* While nobody touches the sensor no step of either thread breaks that: an lseek
\* clears the offset, and what sets it takes the notification.
LEMMA RoundStep ==
  ASSUME RoundHolds, [Udfps!Next /\ ~Udfps!Touch]_udfpsVars
  PROVE  /\ RoundHolds'
         /\ ~pending => ~pending'
         /\ [Udfps!FlushRead => ~pending']_udfpsVars
<1> USE DEF RoundHolds, Udfps!device, Udfps!FlushRead
<1>1. CASE \/ Udfps!CallPoll \/ Udfps!WaitEvent \/ Udfps!WaitFails \/ Udfps!SeekFails
           \/ Udfps!Return
  BY <1>1 DEF Udfps!CallPoll, Udfps!WaitEvent, Udfps!WaitFails, Udfps!SeekFails,
     Udfps!Return
<1>2. CASE Udfps!SeekState
  BY <1>2 DEF Udfps!SeekState, Udfps!Rewind
<1>3. CASE Udfps!ReadState \/ Udfps!ReadBadState \/ Udfps!ReadFails
  BY <1>3 DEF Udfps!ReadState, Udfps!ReadBadState, Udfps!ReadFails, Udfps!ReadNothing,
     Udfps!ReadText, Udfps!ReadNoText
<1>4. CASE \/ Udfps!Activate \/ Udfps!FlushWait \/ Udfps!FlushEnds
           \/ Udfps!FlushFails \/ Udfps!FlushSeekFails
  BY <1>4 DEF Udfps!Activate, Udfps!FlushWait, Udfps!FlushEnds, Udfps!FlushFails,
     Udfps!FlushSeekFails
<1>5. CASE Udfps!FlushSeek
  BY <1>5 DEF Udfps!FlushSeek, Udfps!Rewind
<1>6. CASE Udfps!FlushRead
  BY <1>6 DEF Udfps!ReadNothing, Udfps!ReadText
<1>7. ASSUME Udfps!FlushReadFails PROVE apc' = "wait" /\ (~pending => ~pending')
  BY <1>7 DEF Udfps!FlushReadFails, Udfps!ReadNoText
<1>8. CASE UNCHANGED udfpsVars
  BY <1>8 DEF udfpsVars
<1> QED
  BY <1>1, <1>2, <1>3, <1>4, <1>5, <1>6, <1>7, <1>8
     DEF Udfps!Next, Udfps!Poll, Udfps!Flush, Udfps!PollFails, Udfps!FlushStepFails

\* From any state on in which the flush is not about to read and from
\* which the node is quiet, its first round is its last that finds anything: the
\* safety half of ActivateReturns.
THEOREM QuietFlushIsOneRound ==
  apc # "read" /\ [][Udfps!Next /\ ~Udfps!Touch]_udfpsVars
    => Udfps!RoundTakesAll /\ Udfps!StaysTaken
<1> DEFINE Quiet == [Udfps!Next /\ ~Udfps!Touch]_udfpsVars
<1>1. apc # "read" => RoundHolds
  BY DEF RoundHolds
<1>2. RoundHolds /\ Quiet =>
        /\ RoundHolds' /\ (~pending => ~pending')
        /\ [Udfps!FlushRead => ~pending']_(Udfps!vars)
  BY RoundStep DEF udfpsVars, Udfps!vars, Udfps!device
<1> QED BY <1>1, <1>2, PTL DEF Udfps!RoundTakesAll, Udfps!StaysTaken

-----------------------------------------------------------------------------
\* The pickup sensor.

\* What left the device has the numbers up to Left; the rest is in its queue.
Left == Len(handles) - Len(dev)
Pickups(n) == {i \in 1..n : handles[i] = "pickup" /\ i \notin lost}
Increasing(s) == \A j, k \in 1..Len(s) : j < k => s[j] < s[k]

QueueHolds ==
  /\ handles \in Seq({"pickup", "unknown"}) /\ dev \in Seq(Nat) /\ Left \in Nat
  /\ \A k \in 1..Len(dev) : dev[k] = Left + k
  /\ vpc \in {"out", "wait", "read", "convert"}
  /\ vpc = "read" => dev # << >>
  /\ vpc = "convert" => Left > 0 /\ event = Left /\ event \notin lost
  /\ lost \subseteq 1..Left

HandedHolds ==
  /\ handed \in Seq(Nat) /\ Increasing(handed)
  /\ \A k \in 1..Len(handed) : handed[k] \in Pickups(Virtual!Taken)
  /\ \A i \in Pickups(Virtual!Taken) : \E k \in 1..Len(handed) : handed[k] = i

\* Nothing has arrived and nothing was returned.
LEMMA VirtualInit == Virtual!Init => QueueHolds /\ HandedHolds
<1> SUFFICES ASSUME Virtual!Init PROVE QueueHolds /\ HandedHolds
  OBVIOUS
<1>1. /\ dev = << >> /\ vpc = "out" /\ handles = << >> /\ lost = {} /\ handed = << >>
      /\ Left = 0 /\ Virtual!Taken = 0
  BY DEF Virtual!Init, Left, Virtual!Taken
<1> QED BY <1>1 DEF QueueHolds, HandedHolds, Increasing, Pickups

\* The pickups that have left the device and been converted stay what they are,
\* also when an event arrives or the next one is read.
LEMMA SamePickups ==
  ASSUME QueueHolds, HandedHolds, handed' = handed, Virtual!Taken' = Virtual!Taken,
         \A i \in 1..Virtual!Taken : handles'[i] = handles[i] /\ (i \in lost' <=> i \in lost)
  PROVE  HandedHolds'
BY DEF HandedHolds, Increasing, Pickups

\* An event being converted has left the device, but is not yet returned.
LEMMA TakenLeft ==
  QueueHolds => Virtual!Taken \in Nat /\ Virtual!Taken = Left - (IF vpc = "convert" THEN 1 ELSE 0)
BY DEF QueueHolds, Virtual!Taken, Left

\* The kernel queues an event behind the others.
LEMMA ArriveStep ==
  ASSUME QueueHolds, HandedHolds, NEW h \in {"pickup", "unknown"}, Virtual!Arrive(h)
  PROVE  QueueHolds' /\ HandedHolds'
<1>1. /\ handles' = Append(handles, h) /\ dev' = Append(dev, Len(handles) + 1)
      /\ UNCHANGED <<event, vpc, lost, handed>>
  BY DEF Virtual!Arrive
<1>2. /\ handles' \in Seq({"pickup", "unknown"}) /\ Len(handles') = Len(handles) + 1
      /\ \A i \in 1..Len(handles) : handles'[i] = handles[i]
  BY <1>1 DEF QueueHolds
<1>3. /\ dev' \in Seq(Nat) /\ Len(dev') = Len(dev) + 1
      /\ \A k \in 1..Len(dev) : dev'[k] = dev[k]
      /\ dev'[Len(dev) + 1] = Len(handles) + 1
  <2>1. dev \in Seq(Nat) /\ Len(handles) + 1 \in Nat
    BY DEF QueueHolds
  <2> QED BY <1>1, <2>1, AppendProperties
<1>4. Len(handles) \in Nat /\ Len(dev) \in Nat /\ Left' = Left
  BY <1>2, <1>3 DEF QueueHolds, Left
<1>5. \A k \in 1..Len(dev') : dev'[k] = Left' + k
  <2> SUFFICES ASSUME NEW k \in 1..Len(dev') PROVE dev'[k] = Left' + k
    OBVIOUS
  <2>1. CASE k \in 1..Len(dev)
    BY <2>1, <1>3, <1>4 DEF QueueHolds
  <2>2. CASE k = Len(dev) + 1
    BY <2>2, <1>3, <1>4 DEF Left
  <2> QED BY <2>1, <2>2, <1>3, <1>4
<1>6. QueueHolds'
  <2>1. dev' # << >>
    BY <1>3, <1>4
  <2> QED BY <1>1, <1>2, <1>3, <1>4, <1>5, <2>1 DEF QueueHolds
<1>7. Virtual!Taken' = Virtual!Taken
  BY <1>1, <1>2, <1>3, <1>4 DEF Virtual!Taken
<1>8. \A i \in 1..Virtual!Taken : i \in 1..Len(handles)
  BY TakenLeft, <1>4 DEF Left, QueueHolds
<1> QED BY <1>1, <1>2, <1>6, <1>7, <1>8, SamePickups

\* The first event leaves the queue.
LEMMA FirstLeaves ==
  ASSUME QueueHolds, dev # << >>, dev' = Tail(dev), UNCHANGED handles
  PROVE  /\ dev' \in Seq(Nat) /\ Left' = Left + 1 /\ Left' \in Nat /\ Head(dev) = Left + 1
         /\ \A k \in 1..Len(dev') : dev'[k] = Left' + k
<1>1. dev \in Seq(Nat) /\ Len(dev) \in Nat \ {0} /\ Len(handles) \in Nat /\ Left \in Nat
  BY DEF QueueHolds
<1>2. /\ dev' \in Seq(Nat) /\ Len(dev') = Len(dev) - 1 /\ Head(dev) = dev[1]
      /\ \A k \in 1..Len(dev') : dev'[k] = dev[k + 1]
  BY <1>1
<1>3. Left' = Left + 1
  BY <1>1, <1>2 DEF Left
<1>4. Head(dev) = Left + 1
  BY <1>1, <1>2 DEF QueueHolds
<1>5. ASSUME NEW k \in 1..Len(dev') PROVE dev'[k] = Left' + k
  <2>1. k + 1 \in 1..Len(dev)
    BY <1>1, <1>2
  <2>2. dev[k + 1] = Left + (k + 1)
    BY <2>1 DEF QueueHolds
  <2> QED BY <2>2, <1>1, <1>2, <1>3
<1> QED BY <1>1, <1>2, <1>3, <1>4, <1>5

\* The event read (78-93) is the next one, and no one else has it.
LEMMA ReadStep ==
  ASSUME QueueHolds, HandedHolds, Virtual!ReadEvent
  PROVE  QueueHolds' /\ HandedHolds'
<1>1. /\ vpc = "read" /\ vpc' = "convert" /\ event' = Head(dev) /\ dev' = Tail(dev)
      /\ UNCHANGED <<handles, lost, handed>> /\ dev # << >>
  BY DEF Virtual!ReadEvent, QueueHolds
<1>2. /\ dev' \in Seq(Nat) /\ Left' = Left + 1 /\ Left' \in Nat /\ Head(dev) = Left + 1
      /\ \A k \in 1..Len(dev') : dev'[k] = Left' + k
  BY <1>1, FirstLeaves
<1>3. Left \in Nat /\ lost \subseteq 1..Left
  BY DEF QueueHolds
<1>4. Left + 1 \notin lost /\ lost \subseteq 1..(Left + 1)
  BY <1>3
<1>5. QueueHolds'
  BY <1>1, <1>2, <1>3, <1>4 DEF QueueHolds
<1>6. Virtual!Taken = Left
  BY <1>1, <1>3, TakenLeft
<1>7. Virtual!Taken' = Left' - 1
  BY <1>1 DEF Virtual!Taken, Left
<1>8. Virtual!Taken' = Virtual!Taken
  BY <1>2, <1>3, <1>6, <1>7
<1> QED BY <1>1, <1>5, <1>8, SamePickups

\* A read that fails (78-93) leaves the event in the queue, or loses that one alone.
LEMMA FailStep ==
  ASSUME QueueHolds, HandedHolds, Virtual!ReadFails
  PROVE  QueueHolds' /\ HandedHolds'
<1>1. /\ vpc = "read" /\ vpc' = "wait" /\ UNCHANGED <<event, handles, handed>> /\ dev # << >>
  BY DEF Virtual!ReadFails, QueueHolds
<1>2. CASE UNCHANGED <<dev, lost>>
  <2>1. QueueHolds'
    BY <1>1, <1>2 DEF QueueHolds, Left
  <2>2. Virtual!Taken' = Virtual!Taken
    BY <1>1, <1>2 DEF Virtual!Taken
  <2> QED BY <1>1, <1>2, <2>1, <2>2, SamePickups
<1>3. CASE dev' = Tail(dev) /\ lost' = lost \union {Head(dev)}
  <2>1. /\ dev' \in Seq(Nat) /\ Left' = Left + 1 /\ Left' \in Nat /\ Head(dev) = Left + 1
        /\ \A k \in 1..Len(dev') : dev'[k] = Left' + k
    BY <1>1, <1>3, FirstLeaves
  <2>2. Left \in Nat /\ lost \subseteq 1..Left
    BY DEF QueueHolds
  <2>3. lost' = lost \union {Left + 1} /\ lost' \subseteq 1..Left'
    <3>1. lost' = lost \union {Left + 1}
      BY <1>3, <2>1
    <3>2. lost \union {Left + 1} \subseteq 1..(Left + 1)
      BY <2>2
    <3> QED BY <3>1, <3>2, <2>1
  <2>4. QueueHolds'
    BY <1>1, <2>1, <2>3 DEF QueueHolds
  <2>5. Virtual!Taken = Left
    BY <1>1, <2>2, TakenLeft
  <2>6. Virtual!Taken' = Left'
    BY <1>1, <2>1 DEF Virtual!Taken, Left
  <2>7. Pickups(Virtual!Taken)' = Pickups(Virtual!Taken)
    BY <1>1, <2>1, <2>2, <2>3, <2>5, <2>6 DEF Pickups
  <2>8. HandedHolds'
    BY <1>1, <2>7 DEF HandedHolds, Increasing
  <2> QED BY <2>4, <2>8
<1> QED BY <1>2, <1>3 DEF Virtual!ReadFails

\* A pickup that was read is the next one to be returned; it is above all others.
LEMMA ConvertStep ==
  ASSUME QueueHolds, HandedHolds, Virtual!ConvertEvent
  PROVE  QueueHolds' /\ HandedHolds'
<1>1. /\ vpc = "convert" /\ vpc' = "out" /\ UNCHANGED <<dev, event, handles, lost>>
      /\ handed' = IF handles[event] = "pickup" THEN Append(handed, event) ELSE handed
  BY DEF Virtual!ConvertEvent
<1>2. QueueHolds'
  BY <1>1 DEF QueueHolds, Left
<1>3. /\ Left \in Nat /\ Left > 0 /\ event = Left /\ event \notin lost
      /\ Virtual!Taken = Left - 1
  BY <1>1, TakenLeft DEF QueueHolds
<1>4. Virtual!Taken' = Left
  BY <1>1, <1>3 DEF Virtual!Taken, Left, QueueHolds
<1>5. /\ handed \in Seq(Nat) /\ Len(handed) \in Nat /\ Increasing(handed)
      /\ \A k \in 1..Len(handed) : handed[k] \in Pickups(Left - 1)
      /\ \A i \in Pickups(Left - 1) : \E k \in 1..Len(handed) : handed[k] = i
  BY <1>3 DEF HandedHolds
<1>6. Pickups(Virtual!Taken)' = {i \in 1..Left : handles[i] = "pickup" /\ i \notin lost}
  BY <1>1, <1>4 DEF Pickups
<1>7. CASE handles[event] # "pickup"
  <2>1. Pickups(Virtual!Taken)' = Pickups(Left - 1) /\ handed' = handed
    BY <1>1, <1>3, <1>6, <1>7 DEF Pickups
  <2> QED BY <1>2, <1>5, <2>1 DEF HandedHolds, Increasing
<1>8. CASE handles[event] = "pickup"
  <2>1. Pickups(Virtual!Taken)' = Pickups(Left - 1) \union {Left}
    BY <1>3, <1>6, <1>8 DEF Pickups
  <2>2. /\ handed' \in Seq(Nat) /\ Len(handed') = Len(handed) + 1
        /\ \A k \in 1..Len(handed) : handed'[k] = handed[k]
        /\ handed'[Len(handed) + 1] = Left
    <3>1. handed' = Append(handed, Left)
      BY <1>1, <1>3, <1>8
    <3> QED BY <3>1, <1>3, <1>5, AppendProperties
  <2>3. \A k \in 1..Len(handed) : handed[k] \in Nat /\ handed[k] < Left
    BY <1>3, <1>5 DEF Pickups
  <2>9. \A k \in 1..Len(handed') : k \in 1..Len(handed) \/ k = Len(handed) + 1
    BY <1>5, <2>2
  <2>10. \A k \in 1..Len(handed) : k \in 1..Len(handed')
    BY <1>5, <2>2
  <2>4. Increasing(handed')
    <3> SUFFICES ASSUME NEW j \in 1..Len(handed'), NEW k \in 1..Len(handed'), j < k
                 PROVE  handed'[j] < handed'[k]
      BY DEF Increasing
    <3>1. j \in 1..Len(handed)
      BY <1>5, <2>2
    <3>2. CASE k \in 1..Len(handed)
      BY <3>1, <3>2, <1>5, <2>2 DEF Increasing
    <3>3. CASE k = Len(handed) + 1
      BY <3>1, <3>3, <2>2, <2>3
    <3> QED BY <3>2, <3>3, <2>9
  <2>5. ASSUME NEW k \in 1..Len(handed') PROVE handed'[k] \in Pickups(Virtual!Taken)'
    <3>1. CASE k \in 1..Len(handed)
      BY <3>1, <1>5, <2>1, <2>2
    <3>2. CASE k = Len(handed) + 1
      BY <3>2, <2>1, <2>2
    <3> QED BY <3>1, <3>2, <2>9
  <2>6. ASSUME NEW i \in Pickups(Virtual!Taken)'
        PROVE  \E k \in 1..Len(handed') : handed'[k] = i
    <3>1. CASE i \in Pickups(Left - 1)
      <4>1. PICK k \in 1..Len(handed) : handed[k] = i
        BY <3>1, <1>5
      <4>2. k \in 1..Len(handed') /\ handed'[k] = i
        BY <4>1, <2>2, <2>10, Zenon
      <4> QED BY <4>2
    <3>2. CASE i = Left
      <4>1. Len(handed) + 1 \in 1..Len(handed')
        BY <1>5, <2>2
      <4> QED BY <3>2, <4>1, <2>2
    <3> QED BY <3>1, <3>2, <2>1
  <2> QED BY <1>2, <2>2, <2>4, <2>5, <2>6 DEF HandedHolds
<1> QED BY <1>7, <1>8

\* No other step of poll touches the queue or what was returned.
LEMMA VirtualStep ==
  QueueHolds /\ HandedHolds /\ [Virtual!Next]_virtualVars => QueueHolds' /\ HandedHolds'
<1> SUFFICES ASSUME QueueHolds, HandedHolds, [Virtual!Next]_virtualVars
             PROVE  QueueHolds' /\ HandedHolds'
  OBVIOUS
<1>1. ASSUME UNCHANGED <<dev, handles, lost, handed>>, vpc # "convert", vpc' # "convert",
             vpc' \in {"out", "wait", "read"}, vpc' = "read" => dev # << >>
      PROVE  QueueHolds' /\ HandedHolds'
  <2>1. QueueHolds'
    BY <1>1 DEF QueueHolds, Left
  <2>2. Virtual!Taken' = Virtual!Taken
    BY <1>1 DEF Virtual!Taken
  <2> QED BY <1>1, <2>1, <2>2, SamePickups
<1>2. CASE Virtual!CallPoll
  BY <1>1, <1>2 DEF Virtual!CallPoll
<1>3. CASE Virtual!WaitEvent
  BY <1>1, <1>3 DEF Virtual!WaitEvent
<1>4. CASE Virtual!WaitFails
  BY <1>1, <1>4 DEF Virtual!WaitFails
<1>5. CASE UNCHANGED virtualVars
  <2>1. QueueHolds'
    BY <1>5 DEF virtualVars, QueueHolds, Left
  <2>2. Virtual!Taken' = Virtual!Taken
    BY <1>5 DEF virtualVars, Virtual!Taken
  <2> QED BY <1>5, <2>1, <2>2, SamePickups DEF virtualVars
<1> QED
  BY <1>2, <1>3, <1>4, <1>5, ArriveStep, ReadStep, FailStep, ConvertStep
     DEF Virtual!Next, Virtual!Poll

\* The numbers handed out are those of the pickups, each once and in order.
LEMMA PickupsHold == QueueHolds /\ HandedHolds => PickupsInOrder
<1> SUFFICES ASSUME QueueHolds, HandedHolds PROVE PickupsInOrder
  OBVIOUS
<1>1. handed \in Seq(Nat) /\ DOMAIN handed = 1..Len(handed)
  BY DEF HandedHolds
<1>2. Virtual!Range(handed) = Pickups(Virtual!Taken)
  BY <1>1 DEF HandedHolds, Virtual!Range
<1>3. \A j, k \in DOMAIN handed : j < k => handed[j] < handed[k]
  BY <1>1 DEF HandedHolds, Increasing
<1> QED BY <1>2, <1>3 DEF PickupsInOrder, Virtual!PickupsInOrder, Pickups

\* The events that are queued are the last ones that arrived, and what poll has
\* returned are, in order, the pickups among those before them
\* (oplus_virtual_sensors.cpp:78-93).
THEOREM VirtualInvariant == FairSpec => [](QueueHolds /\ HandedHolds)
BY SensorsRun, VirtualInit, VirtualStep, PTL

\* poll returns each pickup that left the device once and in order, but for those
\* whose read failed: neither an error nor an unknown sensor makes it return one
\* again or skip the next (oplus_virtual_sensors.cpp:78-93).
THEOREM PickupsCorrect == FairSpec => []PickupsInOrder
BY VirtualInvariant, PickupsHold, PTL

=============================================================================
