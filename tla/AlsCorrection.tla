--------------------------- MODULE AlsCorrection ---------------------------
(***************************************************************************)
(* Correction of the light sensor below the screen                         *)
(* (sensors/AlsCorrection.cpp, als_wrapper.cpp, als/default): a reading is *)
(* corrected by what a screenshot says the screen adds to it. Screenshots  *)
(* are dear, so most readings repeat the last corrected value.             *)
(*                                                                         *)
(* Light is in counts of the sensor, its milli-lux are counts times a gain *)
(* in thousandths. calib_gain is 1, its default. Time goes in ticks, and a *)
(* time stamp is the number of ticks since.                                *)
(***************************************************************************)
EXTENDS Integers

CONSTANTS
  Lights, Estimates, Brightnesses,  \* readings, gain estimates, brightness
  Screens,                          \* what may be on the screen
  Poly, Gamma,                      \* what a screen adds, per brightness, by
                                    \* the polynomial and by the gamma curve
  White,                            \* what a white screen adds
  bias,
  sensor_inverse_gain, sensor_gaincal_points,
  MinInterval, MaxAge,              \* 100 ms and 3 s
  AgeCap                            \* ages are not told apart from here on

ASSUME InputAssumption ==
  Lights \subseteq Nat /\ Estimates \subseteq Nat /\ Brightnesses \subseteq Nat
\* Stands for HUGE_VALF.
Infinity == 2000000000
MilliLux(raw, gain) == raw * sensor_inverse_gain[gain]

ASSUME ScreenAssumption ==
  /\ White \in Nat
  /\ Poly \in [Screens -> Int]
  /\ Gamma \in [Screens -> 0..White]
ASSUME GainAssumption ==
  /\ bias \in Nat
  /\ sensor_inverse_gain \in [1..4 -> Nat \ {0}]
  /\ sensor_gaincal_points \in [1..4 -> Nat]
  /\ \A l \in Lights : MilliLux(l, 1) <= Infinity
ASSUME TimeAssumption ==
  /\ MinInterval \in Nat \ {0} /\ MaxAge \in Nat /\ AgeCap \in Nat
  /\ MinInterval < AgeCap /\ MaxAge < AgeCap

VARIABLES
  wrapper,                    \* its context: "closed", "loaded" (the real module,
                              \* no device), or "open"
  patched,                    \* the light sensor in the real module's list
  scaled,                     \* how often the ranges were divided by the first gain
  pc,                         \* "polling", or "capture": in the call
  last_update,                \* the three time stamps, Never before the first
  last_forced_update,
  force_update,
  hyst_min, hyst_max,         \* in milli-lux at the first gain
  last_corrected_value,
  last_agc_gain,              \* index of the gain, 0 initially
  service,                    \* the screenshot service
  event,                      \* the event process is at
  \* Outside the code.
  out,                        \* what became of the latest event
  basis, basisAge,            \* the reading of the last correction, and its age
  lastCapture                 \* the age of the last call to the service

timeVars   == <<last_update, last_forced_update, force_update>>
resultVars == <<hyst_min, hyst_max, last_corrected_value, last_agc_gain>>
basisVars  == <<basis, basisAge>>
moduleVars == <<wrapper, patched, scaled>>
vars == <<moduleVars, pc, timeVars, resultVars, service, event, out, basisVars, lastCapture>>

Never == -1
Ages  == 0..AgeCap
Older(age) == IF age \in {Never, AgeCap} THEN age ELSE age + 1

Lesser(x, y)  == IF x < y THEN x ELSE y
Greater(x, y) == IF x > y THEN x ELSE y

-----------------------------------------------------------------------------
(***************************************************************************)
(* The computation, on a reading l, a screen s and a brightness b.         *)
(***************************************************************************)
Range(middle, min, max) ==
  [middle |-> 1000 * middle, min |-> 1000 * min, max |-> 1000 * max]
hysteresis_ranges ==
  << [Range(0, 0, 4) EXCEPT !.min = -1],
     Range(7, 1, 12), Range(15, 5, 30), Range(30, 10, 50), Range(360, 25, 700),
     Range(1200, 300, 1600), Range(2250, 1000, 2940), Range(4600, 2000, 5900),
     Range(10000, 4000, 80000),
     [middle |-> Infinity, min |-> 8000000, max |-> Infinity] >>

RangeOf(lux) ==
  LET fits == {i \in 1..10 : lux <= hysteresis_ranges[i].middle \/ i = 10}
  IN  hysteresis_ranges[CHOOSE i \in fits : \A j \in fits : i <= j]

\* A bound of a range: those of the table are scaled once.
Rescaled(x) ==
  IF scaled <= 1 THEN x
  ELSE IF x > Infinity \div 1000 THEN Infinity
  ELSE (1000 * x) \div sensor_inverse_gain[1]

Unbiased(l)  == IF l > bias THEN l - bias ELSE l
Fullwhite(b) == White * b
cumulative_correction(s, b) ==
  Greater(Lesser(Poly[s] * b, Fullwhite(b)), Gamma[s] * b)

RawCorrected(l, s, b) == Greater(l - cumulative_correction(s, b), 0)

\* The last point below the estimate wins: the loop goes on after a match.
agc_gain(raw, estimate) ==
  LET below == {i \in 1..4 : estimate > sensor_gaincal_points[i]}
  IN  IF MilliLux(raw, 1) <= 800000 \/ below = {} THEN 1
      ELSE CHOOSE i \in below : \A j \in below : j <= i

Accepts(l, s, b, gain) ==
  \/ 100 * cumulative_correction(s, b) <= 135 * l
  \/ MilliLux(l, gain) < 10000000
  \/ force_update

-----------------------------------------------------------------------------
Events == [light : Nat, estimate : Nat, brightness : Nat]
NoEvent == [light |-> 0, estimate |-> 0, brightness |-> 0]
NoBasis == [light |-> 0, lux |-> 0, gain |-> 0]

TypeOK ==
  /\ wrapper \in {"closed", "loaded", "open"}
  /\ patched \in BOOLEAN /\ scaled \in 0..2
  /\ pc \in {"polling", "capture"}
  /\ last_update \in Ages \union {Never}
  /\ last_forced_update \in Ages \union {Never}
  /\ force_update \in BOOLEAN
  /\ hyst_min \in Int /\ hyst_max \in Int
  /\ last_corrected_value \in Nat /\ last_agc_gain \in 0..4
  /\ service \in {"none", "alive", "dead"}
  /\ event \in Events
  /\ out \in {"none", "dropped", "failed", "reported"}
  /\ basis \in [light : Nat, lux : Nat, gain : 0..4] /\ basisAge \in Ages
  /\ lastCapture \in Ages

Init ==
  /\ wrapper = "closed" /\ patched = FALSE /\ scaled = 0 /\ pc = "polling"
  /\ last_update = Never /\ last_forced_update = Never /\ force_update = TRUE
  /\ hyst_min = -1 /\ hyst_max = -1
  /\ last_corrected_value = 0 /\ last_agc_gain = 0
  /\ service = "none" /\ event = NoEvent
  /\ out = "none" /\ basis = NoBasis /\ basisAge = AgeCap /\ lastCapture = AgeCap

\* Each open starts from an empty context, and may fail on the way.
OpenSensors(result) ==
  /\ wrapper # "open" /\ wrapper' = result
  /\ UNCHANGED <<patched, scaled, pc, timeVars, resultVars, service, event, out,
                 basisVars, lastCapture>>

Patch_Skipped == UNCHANGED patched    \* mutant: the list is left as it is
Patch == patched' = TRUE

\* The list is the real module's, patched in place: the next call finds no sensor
\* to patch and does not run init again.
GetSensorsList(declared) ==
  /\ wrapper # "closed"
  /\ IF patched THEN UNCHANGED <<patched, scaled, service>>
     ELSE /\ Patch /\ scaled' = Lesser(scaled + 1, 2)
          /\ service' = IF declared THEN "alive" ELSE "none"
  /\ UNCHANGED <<wrapper, pc, timeVars, resultVars, event, out, basisVars,
                 lastCapture>>

\* Nobody asks for the service again when it has died, even if it is restarted.
ServiceDies ==
  /\ service = "alive" /\ service' = "dead"
  /\ UNCHANGED <<moduleVars, pc, timeVars, resultVars, event, out, basisVars, lastCapture>>

-----------------------------------------------------------------------------
(***************************************************************************)
(* process up to the screenshot.                                           *)
(***************************************************************************)
TooFast == last_update # Never /\ last_update < MinInterval
Forced(b) == last_update # Never /\ b > 0 /\ last_forced_update > MaxAge

\* The stamps of an event; an event that comes too fast leaves last_update.
Stamp_Always(b, passed) ==    \* mutant: last_update is set in any case
  /\ last_forced_update' =
       IF last_update = Never \/ Forced(b) THEN 0 ELSE last_forced_update
  /\ force_update' = (force_update \/ Forced(b))
  /\ last_update' = 0
Stamp_First(b, passed) ==     \* mutant: last_update is set only once
  /\ last_forced_update' =
       IF last_update = Never \/ Forced(b) THEN 0 ELSE last_forced_update
  /\ force_update' = (force_update \/ Forced(b))
  /\ last_update' = IF last_update = Never THEN 0 ELSE last_update
Stamp(b, passed) ==
  /\ last_forced_update' =
       IF last_update = Never \/ Forced(b) THEN 0 ELSE last_forced_update
  /\ force_update' = (force_update \/ Forced(b))
  /\ last_update' = IF passed THEN 0 ELSE last_update

\* Outside the hysteresis; readings of 10 to 5.0 / .07 lux do not matter.
sensor_raw_calibrated(l) ==
  IF last_agc_gain = 0 THEN 0 ELSE MilliLux(l, last_agc_gain)
OutOfRange(l) ==
  /\ MilliLux(l, 1) < hyst_min \/ MilliLux(l, 1) > hyst_max
  /\ sensor_raw_calibrated(l) < 10000 \/ sensor_raw_calibrated(l) > 71428

\* The framework polls the device once it has the list.
Polling == wrapper = "open" /\ scaled > 0 /\ pc = "polling"

DropTooFast(b) ==
  /\ Polling /\ TooFast /\ Stamp(b, FALSE)
  /\ out' = "dropped"
  /\ UNCHANGED <<moduleVars, pc, resultVars, service, event, basisVars, lastCapture>>

ReportCached(e) ==
  /\ Polling /\ ~TooFast /\ Stamp(e.brightness, TRUE)
  /\ ~force_update' /\ ~OutOfRange(Unbiased(e.light))
  /\ out' = "reported" /\ event' = e
  /\ UNCHANGED <<moduleVars, pc, resultVars, service, basisVars, lastCapture>>

RequestCapture(e) ==
  /\ Polling /\ ~TooFast /\ Stamp(e.brightness, TRUE)
  /\ force_update' \/ OutOfRange(Unbiased(e.light))
  /\ pc' = "capture" /\ event' = e /\ out' = "none" /\ lastCapture' = 0
  /\ UNCHANGED <<moduleVars, resultVars, service, basisVars>>

-----------------------------------------------------------------------------
(***************************************************************************)
(* The answer of getAreaBrightness, and the rest of process.               *)
(***************************************************************************)
\* No service, a dead one, or one that could not capture.
CaptureFails_ClearsForce ==    \* mutant
  /\ pc = "capture" /\ pc' = "polling" /\ out' = "failed"
  /\ force_update' = FALSE
  /\ UNCHANGED <<moduleVars, last_update, last_forced_update, resultVars, service, event,
                 basisVars, lastCapture>>
CaptureFails ==
  /\ pc = "capture" /\ pc' = "polling" /\ out' = "failed"
  /\ UNCHANGED <<moduleVars, timeVars, resultVars, service, event, basisVars, lastCapture>>

HystMax(range, b) == Rescaled(range.max) + MilliLux(Fullwhite(b), 1)

Correct(l, s, b, gain) ==
  LET lux   == MilliLux(RawCorrected(l, s, b), gain)
      range == RangeOf(lux)
  IN  /\ last_agc_gain' = gain
      /\ hyst_min' = Rescaled(range.min) /\ hyst_max' = HystMax(range, b)
      /\ last_corrected_value' = Greater(lux - 14000, 0)
      /\ basis' = [light |-> l, lux |-> lux, gain |-> gain] /\ basisAge' = 0

CaptureSucceeds(s) ==
  LET l    == Unbiased(event.light)
      b    == event.brightness
      gain == agc_gain(RawCorrected(l, s, b), event.estimate)
  IN  /\ pc = "capture" /\ service = "alive" /\ pc' = "polling"
      /\ IF Accepts(l, s, b, gain)
         THEN Correct(l, s, b, gain)
         ELSE UNCHANGED <<resultVars, basisVars>>
      /\ force_update' = FALSE /\ out' = "reported"
      /\ UNCHANGED <<moduleVars, last_update, last_forced_update, service, event, lastCapture>>

Tick ==
  /\ last_update' = Older(last_update)
  /\ last_forced_update' = Older(last_forced_update)
  /\ basisAge' = Older(basisAge) /\ lastCapture' = Older(lastCapture)
  /\ out' = "none"
  /\ UNCHANGED <<moduleVars, pc, force_update, resultVars, service, event, basis>>

-----------------------------------------------------------------------------
Readings == [light : Lights, estimate : Estimates, brightness : Brightnesses]

Receive == \/ \E b \in Brightnesses : DropTooFast(b)
           \/ \E e \in Readings : ReportCached(e) \/ RequestCapture(e)
Answer  == CaptureFails \/ \E s \in Screens : CaptureSucceeds(s)
Open    == \E result \in {"closed", "loaded", "open"} : OpenSensors(result)
List    == \E declared \in BOOLEAN : GetSensorsList(declared)

Next == Open \/ List \/ ServiceDies \/ Receive \/ Answer \/ Tick

Spec == Init /\ [][Next]_vars

\* The module is opened in the end, and its list asked for. The driver keeps
\* delivering readings, calls to the service end.
FairSpec == /\ Spec /\ WF_vars(OpenSensors("open")) /\ WF_vars(List)
            /\ WF_vars(Receive) /\ WF_vars(Answer) /\ WF_vars(Tick)

-----------------------------------------------------------------------------
\* With the display on, what is reported for a reading rests on a correction
\* no more than three seconds older than the reading (188-192), whatever failed
\* or came too fast in between; and it never is the initial value.
FreshReport ==
  out = "reported" =>
    /\ basis # NoBasis
    /\ event.brightness > 0 => basisAge <= MaxAge + last_update

\* The reading that was corrected lies in the hysteresis it set (252-256), so a
\* steady one causes no further screenshot until the next forced one. Not so
\* with another gain than the first, as the ranges are scaled by the first
\* (149-152), nor below one lux, where the second range begins above it. Listing
\* the sensors again scales nothing twice (als_wrapper.cpp:175-183).
SteadyReadingCached ==
  basis.gain = 1 /\ basis.lux \notin 1..999 =>
    hyst_min <= MilliLux(basis.light, 1) /\ MilliLux(basis.light, 1) <= hyst_max

\* However fast readings come, and whether captures fail or not, the service is
\* not asked twice within 100 ms (193-198).
CapturesSpaced ==
  [][pc = "polling" /\ pc' = "capture" => lastCapture >= MinInterval]_vars

\* Dropping what comes too fast does not starve the sensor: again and again a
\* reading gets as far as a report, or as the service.
NotStarved == []<>(out \in {"reported", "failed"})
=============================================================================
