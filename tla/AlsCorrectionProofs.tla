------------------------ MODULE AlsCorrectionProofs ------------------------
(***************************************************************************)
(* The promises of AlsCorrection, for any readings, screens and gains: how *)
(* old a reported value may be, how often the screenshot service is asked, *)
(* and that a steady reading is not corrected again.                       *)
(***************************************************************************)
EXTENDS AlsCorrection, TLAPS

\* The gain control answers with an index of the gains, never with the 0 of
\* the initial state.
LEMMA GainIsAnIndex ==
  ASSUME NEW raw, NEW estimate
  PROVE  agc_gain(raw, estimate) \in 1..4
<1> DEFINE below == {i \in 1..4 : estimate > sensor_gaincal_points[i]}
<1>1. CASE MilliLux(raw, 1) <= 800000 \/ below = {}
  BY <1>1 DEF agc_gain
<1>2. CASE ~(MilliLux(raw, 1) <= 800000) /\ below # {}
  <2>1. \E i \in below : \A j \in below : j <= i
    <3>1. 4 \in below \/ (4 \notin below /\ 3 \in below)
            \/ (4 \notin below /\ 3 \notin below /\ 2 \in below) \/ below = {1}
      BY <1>2
    <3> QED BY <3>1
  <2>2. agc_gain(raw, estimate) = CHOOSE i \in below : \A j \in below : j <= i
    BY <1>2 DEF agc_gain
  <2> HIDE DEF below
  <2>3. agc_gain(raw, estimate) \in below
    BY <2>1, <2>2
  <2> QED BY <2>3 DEF below
<1> QED BY <1>1, <1>2

\* The parts of the types that the argument about time uses.
TimeTypes ==
  /\ pc \in {"polling", "capture"}
  /\ last_update \in Ages \union {Never}
  /\ last_forced_update \in Ages \union {Never}
  /\ force_update \in BOOLEAN
  /\ event.brightness \in Nat
  /\ basisAge \in Ages /\ lastCapture \in Ages

\* No event has been stamped, or all stamps are set.
Stamped ==
  /\ last_update = Never <=> last_forced_update = Never
  /\ last_update = Never =>
       pc # "capture" /\ out # "reported" /\ force_update /\ lastCapture = AgeCap

\* While nothing forces a screenshot, the last correction is no older than the
\* last forced update.
CorrectedSinceForced ==
  ~force_update => basis # NoBasis /\ basisAge <= last_forced_update

\* The reading that waits for its screenshot had a forced update in time.
ForcedInTime ==
  pc = "capture" /\ event.brightness > 0 =>
    last_forced_update <= MaxAge + last_update

\* Whoever was let through to the service was let through.
CapturesStamped == last_update # Never => last_update <= lastCapture

IInv == /\ TimeTypes /\ Stamped /\ CorrectedSinceForced /\ ForcedInTime
        /\ CapturesStamped /\ FreshReport

-----------------------------------------------------------------------------
\* The state before the list of sensors is asked for.
LEMMA InitIInv == Init => IInv
BY TimeAssumption
   DEF Init, IInv, TimeTypes, Stamped, CorrectedSinceForced, ForcedInTime,
       CapturesStamped, FreshReport, Ages, Never, NoEvent

\* What the stamps of an event mean afterwards.
LEMMA StampEffect ==
  ASSUME TimeTypes, Stamped, NEW b \in Nat, NEW passed \in BOOLEAN,
         Stamp(b, passed), passed \/ last_update # Never
  PROVE  /\ last_update' \in Ages
         /\ last_forced_update' \in Ages
         /\ force_update' \in BOOLEAN
         /\ force_update => force_update'
         /\ ~force_update' => last_forced_update' = last_forced_update
         /\ b > 0 => last_forced_update' <= MaxAge
         /\ passed => last_update' = 0
         /\ ~passed => last_update' = last_update
<1> USE TimeAssumption DEF TimeTypes, Stamped, Stamp, Ages, Never
<1>1. last_update' \in Ages /\ (passed => last_update' = 0)
  OBVIOUS
<1>2. ~passed => last_update' = last_update
  OBVIOUS
<1>3. Forced(b) \in BOOLEAN
  BY DEF Forced
<1>4. /\ force_update' \in BOOLEAN
      /\ force_update => force_update'
  BY <1>3
<1>5. ~force_update' => last_forced_update' = last_forced_update
  BY <1>3
<1>6. last_forced_update' \in Ages
  OBVIOUS
<1>7. b > 0 => last_forced_update' <= MaxAge
  BY DEF Forced
<1> QED BY <1>1, <1>2, <1>4, <1>5, <1>6, <1>7

\* Every step keeps the invariant.
LEMMA IInvStep == IInv /\ [Next]_vars => IInv'
<1> SUFFICES ASSUME IInv, [Next]_vars PROVE IInv'
  OBVIOUS
<1> USE TimeAssumption
    DEF IInv, TimeTypes, Stamped, CorrectedSinceForced, ForcedInTime,
        CapturesStamped, FreshReport
<1>0. 0 \in Ages
  BY DEF Ages
<1>1. CASE Open \/ List
  BY <1>1 DEF Open, OpenSensors, List, GetSensorsList, timeVars, basisVars
<1>2. CASE ServiceDies
  BY <1>2 DEF ServiceDies, timeVars, basisVars
<1>3. ASSUME NEW b \in Brightnesses, DropTooFast(b) PROVE IInv'
  <2>1. b \in Nat /\ last_update # Never /\ Stamp(b, FALSE)
    BY <1>3, InputAssumption DEF DropTooFast, Polling, TooFast
  <2>2. UNCHANGED <<pc, event, basis, basisAge, lastCapture>> /\ out' = "dropped"
    BY <1>3 DEF DropTooFast, Polling, basisVars
  <2>3. pc = "polling"
    BY <1>3 DEF DropTooFast, Polling
  <2>4. /\ last_update' = last_update /\ last_forced_update' \in Ages
        /\ force_update' \in BOOLEAN
        /\ ~force_update' => /\ ~force_update
                             /\ last_forced_update' = last_forced_update
    BY <2>1, StampEffect
  <2>5. TimeTypes' /\ Stamped'
    BY <2>1, <2>2, <2>3, <2>4 DEF Ages, Never
  <2>6. CorrectedSinceForced' /\ ForcedInTime' /\ CapturesStamped'
    BY <2>1, <2>2, <2>3, <2>4
  <2>7. FreshReport'
    BY <2>2
  <2> QED BY <2>5, <2>6, <2>7
<1>4. ASSUME NEW e \in Readings, ReportCached(e) PROVE IInv'
  <2>1. e.brightness \in Nat /\ Stamp(e.brightness, TRUE)
    BY <1>4, InputAssumption DEF ReportCached, Polling, Readings
  <2>2. /\ UNCHANGED <<pc, basis, basisAge, lastCapture>>
        /\ out' = "reported" /\ event' = e
        /\ pc = "polling" /\ ~force_update'
    BY <1>4 DEF ReportCached, Polling, basisVars
  <2>3. /\ ~force_update /\ last_update' = 0 /\ force_update' \in BOOLEAN
        /\ last_forced_update' = last_forced_update
        /\ last_forced_update' \in Ages
        /\ e.brightness > 0 => last_forced_update' <= MaxAge
    BY <2>1, <2>2, StampEffect
  <2>4. TimeTypes'
    BY <1>0, <2>1, <2>2, <2>3
  <2>7. Stamped'
    BY <2>2, <2>3 DEF Ages, Never
  <2>5. CorrectedSinceForced' /\ ForcedInTime' /\ CapturesStamped'
    BY <2>1, <2>2, <2>3 DEF Ages
  <2>6. FreshReport'
    BY <2>1, <2>2, <2>3 DEF Ages
  <2> QED BY <2>4, <2>5, <2>6, <2>7
<1>5. ASSUME NEW e \in Readings, RequestCapture(e) PROVE IInv'
  <2>1. e.brightness \in Nat /\ Stamp(e.brightness, TRUE)
    BY <1>5, InputAssumption DEF RequestCapture, Polling, Readings
  <2>2. /\ UNCHANGED <<basis, basisAge>> /\ pc' = "capture" /\ event' = e
        /\ out' = "none" /\ lastCapture' = 0
    BY <1>5 DEF RequestCapture, Polling, basisVars
  <2>3. /\ last_update' = 0
        /\ last_forced_update' \in Ages /\ force_update' \in BOOLEAN
        /\ ~force_update' => /\ ~force_update
                             /\ last_forced_update' = last_forced_update
        /\ e.brightness > 0 => last_forced_update' <= MaxAge
    BY <2>1, StampEffect
  <2> QED BY <2>1, <2>2, <2>3 DEF Ages, Never
<1>6. CASE CaptureFails
  BY <1>6 DEF CaptureFails, timeVars, basisVars
<1>7. ASSUME NEW s \in Screens, CaptureSucceeds(s) PROVE IInv'
  <2> DEFINE l == Unbiased(event.light)
             b == event.brightness
             gain == agc_gain(RawCorrected(l, s, b), event.estimate)
  <2>1. /\ pc = "capture" /\ pc' = "polling" /\ force_update' = FALSE /\ out' = "reported"
        /\ UNCHANGED <<last_update, last_forced_update, event, lastCapture>>
    BY <1>7 DEF CaptureSucceeds
  <2>2. /\ last_update \in Ages /\ last_forced_update \in Ages
        /\ last_update # Never
    BY <2>1
  <2>3. CASE Accepts(l, s, b, gain)
    <3>1. basisAge' = 0 /\ basis'.gain = gain
      BY <1>7, <2>3 DEF CaptureSucceeds, Correct
    <3>2. gain \in 1..4
      BY GainIsAnIndex
    <3>3. basis' # NoBasis
      BY <3>1, <3>2 DEF NoBasis
    <3>4. TimeTypes'
      BY <1>0, <2>1, <2>2, <3>1
    <3>7. Stamped'
      BY <2>1, <2>2 DEF Ages, Never
    <3>5. CorrectedSinceForced' /\ ForcedInTime' /\ CapturesStamped'
      BY <2>1, <2>2, <3>1, <3>3 DEF Ages
    <3>6. FreshReport'
      BY <2>1, <2>2, <3>1, <3>3 DEF Ages
    <3> QED BY <3>4, <3>5, <3>6, <3>7
  <2>4. CASE ~Accepts(l, s, b, gain)
    <3>1. UNCHANGED <<basis, basisAge>> /\ ~force_update
      BY <1>7, <2>4 DEF CaptureSucceeds, basisVars, Accepts
    <3>2. TimeTypes'
      BY <2>1, <2>2, <3>1 DEF Ages
    <3>5. Stamped'
      BY <2>1, <2>2 DEF Ages, Never
    <3>3. CorrectedSinceForced' /\ ForcedInTime' /\ CapturesStamped'
      BY <2>1, <2>2, <3>1 DEF Ages
    <3>4. FreshReport'
      BY <2>1, <2>2, <3>1 DEF Ages
    <3> QED BY <3>2, <3>3, <3>4, <3>5
  <2> QED BY <2>3, <2>4
<1>8. CASE Tick
  BY <1>8 DEF Tick, Older, Ages, Never
<1>9. CASE UNCHANGED vars
  BY <1>9 DEF vars, timeVars, basisVars
<1> QED BY <1>1, <1>2, <1>3, <1>4, <1>5, <1>6, <1>7, <1>8, <1>9
        DEF Next, Receive, Answer

\* The invariant of time stamps, of every reachable state.
THEOREM StampsCorrect == Spec => []IInv
BY InitIInv, IInvStep, PTL DEF Spec

\* With the display on, a reported value rests on a correction at most MaxAge
\* older than the reading.
THEOREM ReportsFresh == Spec => []FreshReport
<1>1. IInv => FreshReport
  BY DEF IInv
<1> QED BY <1>1, StampsCorrect, PTL

\* Two calls to the screenshot service are at least MinInterval apart.
THEOREM CapturesAreSpaced == Spec => CapturesSpaced
<1>1. IInv /\ [Next]_vars =>
        [pc = "polling" /\ pc' = "capture" => lastCapture >= MinInterval]_vars
  <2> SUFFICES ASSUME IInv, Next, pc = "polling", pc' = "capture"
               PROVE  lastCapture >= MinInterval
    OBVIOUS
  <2>1. PICK e \in Readings : RequestCapture(e)
    BY DEF Next, Open, OpenSensors, List, Receive, Answer, GetSensorsList, ServiceDies, DropTooFast,
           ReportCached, CaptureFails, CaptureSucceeds, Tick
  <2>2. ~TooFast
    BY <2>1 DEF RequestCapture, Polling
  <2> QED BY <2>2, TimeAssumption
       DEF TooFast, IInv, TimeTypes, Stamped, CapturesStamped, Ages, Never
<1> QED BY <1>1, StampsCorrect, PTL DEF Spec, CapturesSpaced

-----------------------------------------------------------------------------
(***************************************************************************)
(* Types, and the hysteresis around a correction: what the table and the   *)
(* arithmetic of process make of any reading.                              *)
(***************************************************************************)
\* Products of counts and gains are naturals and grow with the counts.
LEMMA Products ==
  ASSUME NEW x \in Nat, NEW y \in Nat, NEW g \in Nat
  PROVE  /\ x * g \in Nat
         /\ (x + y) * g = x * g + y * g
         /\ x <= y => x * g <= y * g
<1>1. x * g \in Nat
  BY SMT
<1>2. (x + y) * g = x * g + y * g
  BY SMT
<1>3. x <= y => x * g <= y * g
  BY SMT
<1> QED BY <1>1, <1>2, <1>3

\* A corrected reading is not above the reading, nor below it by more than a white
\* screen adds.
LEMMA CorrectionBounds ==
  ASSUME NEW l \in Nat, NEW s \in Screens, NEW b \in Nat
  PROVE  /\ RawCorrected(l, s, b) \in Nat /\ Fullwhite(b) \in Nat
         /\ RawCorrected(l, s, b) <= l
         /\ l <= RawCorrected(l, s, b) + Fullwhite(b)
<1> DEFINE c == cumulative_correction(s, b)
<1>1. Fullwhite(b) \in Nat /\ Gamma[s] * b \in Nat /\ Gamma[s] * b <= Fullwhite(b)
  BY ScreenAssumption, Products DEF Fullwhite
<1>2. Poly[s] * b \in Int
  <2>1. Poly[s] \in Int /\ b \in Int
    BY ScreenAssumption
  <2> QED BY <2>1, SMT
<1>3. c \in Nat /\ c <= Fullwhite(b)
  BY <1>1, <1>2 DEF cumulative_correction, Greater, Lesser
<1> HIDE DEF c
<1> QED
  BY <1>1, <1>3 DEF RawCorrected, Greater, c

\* The range picked has integer bounds and holds the value, but for values below
\* the second range.
LEMMA RangeBounds ==
  ASSUME NEW lux \in Nat
  PROVE  LET range == RangeOf(lux)
         IN  /\ range.min \in Int /\ range.max \in Int
             /\ lux \notin 1..999 => range.min <= lux
             /\ lux <= Infinity => lux <= range.max
<1> DEFINE table == hysteresis_ranges
           fits == {i \in 1..10 : lux <= table[i].middle \/ i = 10}
           least == CHOOSE i \in fits : \A j \in fits : i <= j
<1>1. least \in fits /\ \A j \in fits : least <= j
  <2>1. \E i \in fits : \A j \in fits : i <= j
    <3>1. 10 \in fits
      OBVIOUS
    <3> HIDE DEF table
    <3>2. CASE 1 \in fits BY <3>2
    <3>3. CASE 1 \notin fits /\ 2 \in fits BY <3>3
    <3>4. CASE 1 \notin fits /\ 2 \notin fits /\ 3 \in fits BY <3>4
    <3>5. CASE /\ 1 \notin fits /\ 2 \notin fits /\ 3 \notin fits
               /\ 4 \in fits
      BY <3>5
    <3>6. CASE /\ 1 \notin fits /\ 2 \notin fits /\ 3 \notin fits
               /\ 4 \notin fits /\ 5 \in fits
      BY <3>6
    <3>7. CASE /\ 1 \notin fits /\ 2 \notin fits /\ 3 \notin fits
               /\ 4 \notin fits /\ 5 \notin fits /\ 6 \in fits
      BY <3>7
    <3>8. CASE /\ 1 \notin fits /\ 2 \notin fits /\ 3 \notin fits
               /\ 4 \notin fits /\ 5 \notin fits /\ 6 \notin fits /\ 7 \in fits
      BY <3>8
    <3>9. CASE /\ 1 \notin fits /\ 2 \notin fits /\ 3 \notin fits
               /\ 4 \notin fits /\ 5 \notin fits /\ 6 \notin fits /\ 7 \notin fits
               /\ 8 \in fits
      BY <3>9
    <3>10. CASE /\ 1 \notin fits /\ 2 \notin fits /\ 3 \notin fits
                /\ 4 \notin fits /\ 5 \notin fits /\ 6 \notin fits /\ 7 \notin fits
                /\ 8 \notin fits
      BY <3>1, <3>10
    <3> QED
      BY <3>2, <3>3, <3>4, <3>5, <3>6, <3>7, <3>8, <3>9, <3>10
  <2> HIDE DEF fits
  <2> QED BY <2>1
<1>2. RangeOf(lux) = table[least]
  BY DEF RangeOf
<1>3. least \in 1..10
  BY <1>1
<1>4. least > 1 => ~(lux <= table[least - 1].middle)
  <2> SUFFICES ASSUME least > 1  PROVE least - 1 \notin fits /\ least - 1 \in 1..10
    OBVIOUS
  <2> HIDE DEF least
  <2>1. least - 1 \in 1..10 /\ ~(least <= least - 1)
    BY <1>3
  <2>2. \A j \in fits : least <= j
    BY <1>1
  <2> QED BY <2>1, <2>2, Zenon
<1>5. lux <= table[least].middle \/ least = 10
  BY <1>1
<1> HIDE DEF least
<1>6. \A k \in 1..10 : /\ table[k].min \in Int /\ table[k].max \in Int
                        /\ table[k].middle \in Int /\ table[k].middle <= table[k].max
  BY DEF hysteresis_ranges, Range, Infinity
<1>7. table[1].min <= 0 /\ table[2].min <= 1000 /\ table[1].middle = 0
      /\ table[10].max = Infinity
  BY DEF hysteresis_ranges, Range, Infinity
<1>8. \A k \in 3..10 : table[k].min <= table[k - 1].middle
  BY DEF hysteresis_ranges, Range, Infinity
<1> HIDE DEF table
<1>9. table[least].min \in Int /\ table[least].max \in Int
  BY <1>3, <1>6
<1>10. lux \notin 1..999 => table[least].min <= lux
  <2>1. CASE least = 1
    BY <1>7, <1>9, <2>1
  <2>2. CASE least = 2
    <3>1. ~(lux <= 0)
      BY <1>4, <1>7, <2>2
    <3> QED BY <1>7, <1>9, <2>2, <3>1
  <2>3. CASE least \in 3..10
    <3>1. least - 1 \in 1..10 /\ least > 1
      BY <2>3
    <3>2. ~(lux <= table[least - 1].middle) /\ table[least - 1].middle \in Int
      BY <1>4, <1>6, <3>1
    <3> QED BY <1>8, <1>9, <2>3, <3>2
  <2> QED BY <1>3, <2>1, <2>2, <2>3
<1>11. lux <= Infinity => lux <= table[least].max
  <2>1. CASE least = 10
    BY <1>7, <2>1
  <2>2. CASE least # 10
    <3>1. lux <= table[least].middle /\ table[least].middle <= table[least].max
      BY <1>3, <1>5, <1>6, <2>2
    <3> QED BY <1>3, <1>6, <3>1
  <2> QED BY <2>1, <2>2
<1> QED BY <1>2, <1>9, <1>10, <1>11

\* The list is patched with the first init; what waits for its screenshot was read.
ScaledOnce == scaled = IF patched THEN 1 ELSE 0
ReadingWaits == pc = "capture" => event.light \in Lights

DInv == TypeOK /\ SteadyReadingCached /\ ScaledOnce /\ ReadingWaits

\* Before the first correction the hysteresis is that of no reading.
LEMMA InitDInv == Init => DInv
<1> SUFFICES ASSUME Init PROVE DInv
  OBVIOUS
<1>1. NoEvent \in Events /\ NoBasis \in [light : Nat, lux : Nat, gain : 0..4]
  BY DEF NoEvent, Events, NoBasis
<1>2. AgeCap \in Ages
  BY TimeAssumption DEF Ages
<1>3. TypeOK
  <2>1. event \in Events /\ basis \in [light : Nat, lux : Nat, gain : 0..4]
    BY <1>1 DEF Init
  <2>2. basisAge \in Ages /\ lastCapture \in Ages
    BY <1>2 DEF Init
  <2>3. /\ scaled \in 0..2 /\ hyst_min \in Int /\ hyst_max \in Int
        /\ last_corrected_value \in Nat /\ last_agc_gain \in 0..4
    BY DEF Init
  <2>4. /\ wrapper \in {"closed", "loaded", "open"} /\ patched \in BOOLEAN
        /\ pc \in {"polling", "capture"} /\ force_update \in BOOLEAN
        /\ service \in {"none", "alive", "dead"}
        /\ out \in {"none", "dropped", "failed", "reported"}
    BY DEF Init
  <2>5. last_update \in Ages \union {Never} /\ last_forced_update \in Ages \union {Never}
    BY DEF Init
  <2> QED BY <2>1, <2>2, <2>3, <2>4, <2>5 DEF TypeOK
<1>4. basis.gain = 0
  BY DEF Init, NoBasis
<1>5. SteadyReadingCached
  BY <1>4 DEF SteadyReadingCached
<1> QED BY <1>3, <1>5 DEF Init, DInv, ScaledOnce, ReadingWaits

\* What leaves the hysteresis and its reading alone.
LEMMA HysteresisKept ==
  ASSUME SteadyReadingCached, UNCHANGED <<hyst_min, hyst_max, basis>>
  PROVE  SteadyReadingCached'
BY DEF SteadyReadingCached, MilliLux

\* A correction sets a hysteresis that holds the reading, if by the first gain.
LEMMA CorrectEffect ==
  ASSUME DInv, NEW light \in Lights, NEW s \in Screens, NEW b \in Nat, NEW gain \in 1..4,
         Correct(Unbiased(light), s, b, gain), scaled <= 1
  PROVE  /\ hyst_min' \in Int /\ hyst_max' \in Int
         /\ last_corrected_value' \in Nat /\ last_agc_gain' \in 0..4
         /\ basis' \in [light : Nat, lux : Nat, gain : 0..4] /\ basisAge' = 0
         /\ SteadyReadingCached'
<1> DEFINE l == Unbiased(light)
           raw == RawCorrected(l, s, b)
           lux == MilliLux(raw, gain)
           range == RangeOf(lux)
           white == MilliLux(Fullwhite(b), 1)
<1>1. l \in Nat /\ l <= light /\ light \in Nat
  BY InputAssumption, GainAssumption DEF Unbiased
<1>2. /\ raw \in Nat /\ Fullwhite(b) \in Nat
      /\ raw <= l /\ l <= raw + Fullwhite(b)
  BY <1>1, CorrectionBounds
<1>3. /\ sensor_inverse_gain[gain] \in Nat /\ sensor_inverse_gain[1] \in Nat
      /\ lux \in Nat /\ white \in Nat
  <2>1. sensor_inverse_gain[gain] \in Nat /\ sensor_inverse_gain[1] \in Nat
    BY GainAssumption
  <2> QED BY <1>2, <2>1, Products DEF MilliLux
<1>4. /\ range.min \in Int /\ range.max \in Int
      /\ lux \notin 1..999 => range.min <= lux
      /\ lux <= Infinity => lux <= range.max
  <2> HIDE DEF lux
  <2> QED BY <1>3, RangeBounds
<1>5. /\ last_agc_gain' = gain /\ hyst_min' = range.min /\ hyst_max' = range.max + white
      /\ last_corrected_value' = Greater(lux - 14000, 0)
      /\ basis' = [light |-> l, lux |-> lux, gain |-> gain] /\ basisAge' = 0
  <2>1. Rescaled(range.min) = range.min /\ Rescaled(range.max) = range.max
    BY DEF Rescaled
  <2> QED BY <2>1 DEF Correct, HystMax
<1>6. last_corrected_value' \in Nat
  <2> HIDE DEF lux
  <2> QED BY <1>3, <1>5 DEF Greater
<1>7. ASSUME gain = 1
      PROVE  /\ lux <= MilliLux(l, 1) /\ MilliLux(l, 1) <= lux + white
             /\ lux <= Infinity /\ MilliLux(l, 1) \in Nat
  <2> DEFINE g == sensor_inverse_gain[1]
  <2>1. raw * g <= l * g /\ l * g \in Nat
    BY <1>1, <1>2, <1>3, Products
  <2>2. l * g <= (raw + Fullwhite(b)) * g
    <3>1. raw + Fullwhite(b) \in Nat
      BY <1>2
    <3> QED BY <1>1, <1>2, <1>3, <3>1, Products
  <2>3. (raw + Fullwhite(b)) * g = raw * g + Fullwhite(b) * g
    BY <1>2, <1>3, Products
  <2>4. l * g <= light * g /\ light * g <= Infinity /\ light * g \in Nat
    BY <1>1, <1>3, Products, GainAssumption DEF MilliLux
  <2>5. raw * g \in Nat /\ Fullwhite(b) * g \in Nat
    BY <1>2, <1>3, Products
  <2>6. lux = raw * g /\ white = Fullwhite(b) * g /\ MilliLux(l, 1) = l * g
    BY <1>7 DEF MilliLux
  <2>7. Infinity \in Nat
    BY DEF Infinity
  <2> HIDE DEF lux, white, l, raw, g
  <2> DEFINE rg == raw * g
             lg == l * g
             fg == Fullwhite(b) * g
             ig == light * g
  <2>8. /\ rg <= lg /\ lg <= rg + fg /\ lg <= ig /\ ig <= Infinity
        /\ rg \in Nat /\ lg \in Nat /\ fg \in Nat /\ ig \in Nat
    BY <2>1, <2>2, <2>3, <2>4, <2>5
  <2>9. lux = rg /\ white = fg /\ MilliLux(l, 1) = lg
    BY <2>6
  <2> HIDE DEF rg, lg, fg, ig
  <2> QED BY <2>7, <2>8, <2>9
<1>8. SteadyReadingCached'
  <2>1. ASSUME gain = 1, lux \notin 1..999
        PROVE  hyst_min' <= MilliLux(l, 1) /\ MilliLux(l, 1) <= hyst_max'
    <3>1. /\ lux <= MilliLux(l, 1) /\ MilliLux(l, 1) <= lux + white
          /\ lux <= Infinity /\ MilliLux(l, 1) \in Nat
      BY <1>7, <2>1
    <3>2. range.min <= lux /\ lux <= range.max
      BY <1>4, <2>1, <3>1
    <3> HIDE DEF lux, range, white, l
    <3> QED BY <1>3, <1>4, <1>5, <3>1, <3>2
  <2>2. basis'.gain = gain /\ basis'.lux = lux /\ basis'.light = l
    BY <1>5
  <2> HIDE DEF lux, range, white, l
  <2> QED BY <2>1, <2>2 DEF SteadyReadingCached, MilliLux
<1> HIDE DEF lux, range, white, l
<1> QED BY <1>1, <1>3, <1>4, <1>5, <1>6, <1>8 DEF l

\* Every step keeps the types and the hysteresis.
LEMMA DInvStep == DInv /\ [Next]_vars => DInv'
<1> SUFFICES ASSUME DInv, [Next]_vars PROVE DInv'
  OBVIOUS
<1>t. TypeOK /\ SteadyReadingCached /\ ScaledOnce /\ ReadingWaits
  BY DEF DInv
<1>1. ASSUME NEW result \in {"closed", "loaded", "open"}, OpenSensors(result) PROVE DInv'
  <2>1. TypeOK'
    BY <1>t, <1>1 DEF TypeOK, OpenSensors, timeVars, resultVars, basisVars
  <2>2. UNCHANGED <<hyst_min, hyst_max, basis, scaled, patched, pc, event>>
    BY <1>1 DEF OpenSensors, resultVars, basisVars
  <2> QED BY <1>t, <2>1, <2>2, HysteresisKept DEF DInv, ScaledOnce, ReadingWaits
<1>2. ASSUME NEW declared \in BOOLEAN, GetSensorsList(declared) PROVE DInv'
  <2>1. UNCHANGED <<wrapper, pc, timeVars, resultVars, event, out, basisVars, lastCapture>>
    BY <1>2 DEF GetSensorsList
  <2>2. /\ patched' \in BOOLEAN /\ scaled' \in 0..2 /\ ScaledOnce'
        /\ service' \in {"none", "alive", "dead"}
    <3>1. CASE patched
      BY <1>t, <1>2, <3>1 DEF TypeOK, ScaledOnce, GetSensorsList
    <3>2. CASE ~patched
      <4>1. scaled = 0
        BY <1>t, <3>2 DEF ScaledOnce
      <4>2. patched' = TRUE /\ scaled' = Lesser(scaled + 1, 2)
        BY <1>2, <3>2 DEF GetSensorsList, Patch
      <4>3. scaled' = 1
        BY <4>1, <4>2 DEF Lesser
      <4>4. service' \in {"none", "alive", "dead"}
        BY <1>2, <3>2 DEF GetSensorsList
      <4> QED BY <4>2, <4>3, <4>4 DEF ScaledOnce
    <3> QED BY <1>t, <3>1, <3>2 DEF TypeOK
  <2>3. TypeOK'
    BY <1>t, <2>1, <2>2 DEF TypeOK, timeVars, resultVars, basisVars
  <2>4. SteadyReadingCached'
    BY <1>t, <2>1, HysteresisKept DEF resultVars, basisVars
  <2> QED BY <1>t, <2>1, <2>2, <2>3, <2>4 DEF DInv, ReadingWaits
<1>3. ASSUME ServiceDies \/ CaptureFails PROVE DInv'
  <2>1. TypeOK'
    BY <1>t, <1>3 DEF TypeOK, ServiceDies, CaptureFails, timeVars, resultVars, basisVars,
      moduleVars
  <2>2. /\ UNCHANGED <<hyst_min, hyst_max, basis, scaled, patched, event>>
        /\ pc' = "capture" => pc = "capture"
    BY <1>3 DEF ServiceDies, CaptureFails, moduleVars, resultVars, basisVars
  <2> QED BY <1>t, <2>1, <2>2, HysteresisKept DEF DInv, ScaledOnce, ReadingWaits
<1>4. ASSUME NEW b, NEW passed \in BOOLEAN, Stamp(b, passed)
      PROVE  /\ last_update' \in Ages \union {Never}
             /\ last_forced_update' \in Ages \union {Never}
             /\ force_update' \in BOOLEAN
  BY <1>t, <1>4, TimeAssumption DEF TypeOK, Stamp, Forced, Ages
<1>5. ASSUME NEW b \in Brightnesses, DropTooFast(b) PROVE DInv'
  <2>1. Stamp(b, FALSE)
    BY <1>5 DEF DropTooFast
  <2>2. /\ UNCHANGED <<moduleVars, pc, resultVars, service, event, basisVars, lastCapture>>
        /\ out' = "dropped"
    BY <1>5 DEF DropTooFast
  <2>3. TypeOK'
    BY <1>t, <1>4, <2>1, <2>2 DEF TypeOK, moduleVars, resultVars, basisVars
  <2>4. SteadyReadingCached'
    BY <1>t, <2>2, HysteresisKept DEF resultVars, basisVars
  <2> QED BY <1>t, <2>2, <2>3, <2>4 DEF DInv, ScaledOnce, ReadingWaits, moduleVars
<1>6. ASSUME NEW e \in Readings, ReportCached(e) \/ RequestCapture(e) PROVE DInv'
  <2>1. Stamp(e.brightness, TRUE)
    BY <1>6 DEF ReportCached, RequestCapture
  <2>2. e \in Events
    BY InputAssumption DEF Readings, Events
  <2>3. e.light \in Lights
    BY DEF Readings
  <2>4. UNCHANGED <<moduleVars, resultVars, service, basisVars>> /\ event' = e
    BY <1>6 DEF ReportCached, RequestCapture
  <2>5. /\ pc' \in {"polling", "capture"} /\ out' \in {"none", "reported"}
        /\ lastCapture' \in Ages
    <3>1. 0 \in Ages
      BY TimeAssumption DEF Ages
    <3>2. CASE ReportCached(e)
      BY <1>t, <3>2 DEF TypeOK, ReportCached
    <3>3. CASE RequestCapture(e)
      BY <3>1, <3>3 DEF RequestCapture
    <3> QED BY <1>6, <3>2, <3>3
  <2>6. TypeOK'
    BY <1>t, <1>4, <2>1, <2>2, <2>4, <2>5 DEF TypeOK, moduleVars, resultVars, basisVars
  <2>7. SteadyReadingCached'
    BY <1>t, <2>4, HysteresisKept DEF resultVars, basisVars
  <2>8. ScaledOnce' /\ ReadingWaits'
    BY <1>t, <2>3, <2>4 DEF ScaledOnce, ReadingWaits, moduleVars
  <2> QED BY <2>6, <2>7, <2>8 DEF DInv
<1>7. ASSUME NEW s \in Screens, CaptureSucceeds(s) PROVE DInv'
  <2> DEFINE l == Unbiased(event.light)
             b == event.brightness
             gain == agc_gain(RawCorrected(l, s, b), event.estimate)
  <2>1. /\ pc = "capture" /\ pc' = "polling" /\ force_update' = FALSE /\ out' = "reported"
        /\ UNCHANGED <<moduleVars, last_update, last_forced_update, service, event,
                       lastCapture>>
    BY <1>7 DEF CaptureSucceeds
  <2>2. event.light \in Lights /\ b \in Nat /\ gain \in 1..4 /\ scaled <= 1
    BY <1>t, <2>1, GainIsAnIndex DEF TypeOK, ReadingWaits, ScaledOnce, Events
  <2>3. Correct(l, s, b, gain) \/ UNCHANGED <<resultVars, basisVars>>
    BY <1>7 DEF CaptureSucceeds
  <2>4. ScaledOnce' /\ ReadingWaits'
    BY <1>t, <2>1 DEF ScaledOnce, ReadingWaits, moduleVars
  <2>5. CASE Correct(l, s, b, gain)
    <3>1. /\ hyst_min' \in Int /\ hyst_max' \in Int
          /\ last_corrected_value' \in Nat /\ last_agc_gain' \in 0..4
          /\ basis' \in [light : Nat, lux : Nat, gain : 0..4] /\ basisAge' = 0
          /\ SteadyReadingCached'
      <4> HIDE DEF gain, b
      <4> QED BY <2>2, <2>5, CorrectEffect
    <3>2. basisAge' \in Ages
      BY <3>1, TimeAssumption DEF Ages
    <3>3. TypeOK'
      BY <1>t, <2>1, <3>1, <3>2 DEF TypeOK, moduleVars
    <3> QED BY <2>4, <3>1, <3>3 DEF DInv
  <2>6. CASE UNCHANGED <<resultVars, basisVars>>
    <3>1. TypeOK'
      BY <1>t, <2>1, <2>6 DEF TypeOK, moduleVars, resultVars, basisVars
    <3>2. SteadyReadingCached'
      BY <1>t, <2>6, HysteresisKept DEF resultVars, basisVars
    <3> QED BY <2>4, <3>1, <3>2 DEF DInv
  <2> QED BY <2>3, <2>5, <2>6
<1>8. CASE Tick
  <2>1. TypeOK'
    BY <1>t, <1>8, TimeAssumption DEF TypeOK, Tick, Older, Ages, Never, moduleVars, resultVars
  <2>2. UNCHANGED <<hyst_min, hyst_max, basis, scaled, patched, event, pc>>
    BY <1>8 DEF Tick, moduleVars, resultVars
  <2> QED BY <1>t, <2>1, <2>2, HysteresisKept DEF DInv, ScaledOnce, ReadingWaits
<1>9. CASE UNCHANGED vars
  <2>1. TypeOK'
    BY <1>t, <1>9 DEF TypeOK, vars, moduleVars, timeVars, resultVars, basisVars
  <2>2. UNCHANGED <<hyst_min, hyst_max, basis, scaled, patched, event, pc>>
    BY <1>9 DEF vars, moduleVars, resultVars, basisVars
  <2> QED BY <1>t, <2>1, <2>2, HysteresisKept DEF DInv, ScaledOnce, ReadingWaits
<1> QED
  BY <1>1, <1>2, <1>3, <1>5, <1>6, <1>7, <1>8, <1>9
     DEF Next, Open, List, Receive, Answer

\* Every variable keeps its type, and the ranges of the table are scaled once.
THEOREM AlsTypeCorrect == Spec => [](TypeOK /\ ScaledOnce)
<1>1. Spec => []DInv
  BY InitDInv, DInvStep, PTL DEF Spec
<1> QED BY <1>1, PTL DEF DInv

\* A steady reading stays in the hysteresis its correction set, for any table of
\* gains, any screen and any brightness.
THEOREM SteadyIsCached == Spec => []SteadyReadingCached
<1>1. Spec => []DInv
  BY InitDInv, DInvStep, PTL DEF Spec
<1> QED BY <1>1, PTL DEF DInv
=============================================================================
