------------------------------ MODULE DozeApp ------------------------------
(***************************************************************************)
(* The doze app (doze/): a service that listens to the pickup sensor while *)
(* the display is off, and the settings that say whether it runs.          *)
(*                                                                         *)
(* Everything but the executor of a PickupSensor runs on the main thread,  *)
(* one handler at a time: posted runnables, broadcasts, and the start and  *)
(* stop requests of the activity manager each arrive in their own order.   *)
(***************************************************************************)
EXTENDS Naturals, Sequences

CONSTANTS
  Instances,        \* room for DozeServices, with those whose executor is busy
  MinPulse,         \* MIN_PULSE_INTERVAL_MS in ticks
  MaxBacklog        \* bound on each queue; who would exceed it waits

ASSUME DozeAssumption == MinPulse \in Nat /\ MaxBacklog \in Nat \ {0}

VARIABLES
  dozeEnabled, alwaysOn,
  pickup,           \* the settings; pickup tells the gesture's "0" from the others
  stored,           \* the gesture on the disk; the other two are Settings.Secure
  posted,           \* checks posted to the handler of the main looper
  wanted, requests, \* the activity manager: is the service started; to be told
  display,          \* "on" or "off"
  broadcasts,       \* on their way to the receiver
  service,          \* per instance: "none", "alive", "gone" (destroyed)
  tasks,            \* of its executor
  stamped,          \* whose executor is past the stamp, before registerListener
  registered,       \* is its listener registered
  entry,            \* ticks since entryTimestamp, at most MinPulse
  passed,           \* the main thread is in onSensorChanged, past the interval
  \* History.
  calm,             \* ticks since it acted, or since the stamp of its registration
  lost,             \* a check, or the gesture unwritten, died with the process
  dark,             \* the running service was created with the display off
  skipped           \* it met SCREEN_ON with the gesture off

settings == <<dozeEnabled, alwaysOn, pickup, stored>>
manager  == <<wanted, requests>>
sensor   == <<service, tasks, stamped, registered, entry, passed, calm>>
vars == <<settings, posted, manager, display, broadcasts, sensor, lost, dark,
          skipped>>

Alive == {i \in Instances : service[i] = "alive"}
Idle(i) == service[i] = "none"
isPickUpEnabled == pickup
MainIdle == passed = {}

TypeOK ==
  /\ dozeEnabled \in BOOLEAN /\ alwaysOn \in BOOLEAN /\ pickup \in BOOLEAN
  /\ stored \in BOOLEAN /\ posted \in 0..MaxBacklog
  /\ wanted \in BOOLEAN /\ requests \in Seq({"start", "stop"})
  /\ display \in {"on", "off"} /\ broadcasts \in Seq({"on", "off"})
  /\ service \in [Instances -> {"none", "alive", "gone"}]
  /\ tasks \in [Instances -> Seq({"enable", "disable"})]
  /\ stamped \subseteq Instances /\ registered \in [Instances -> BOOLEAN]
  /\ entry \in [Instances -> 0..MinPulse] /\ calm \in [Instances -> 0..MinPulse]
  /\ passed \subseteq Instances /\ \A i, j \in passed : i = j
  /\ lost \in BOOLEAN /\ dark \in BOOLEAN /\ skipped \in BOOLEAN
  /\ \A i, j \in Alive : i = j

\* The process has just started, BOOT_COMPLETED is to come.
Init ==
  /\ dozeEnabled \in BOOLEAN /\ alwaysOn \in BOOLEAN /\ pickup \in BOOLEAN
  /\ stored = pickup /\ posted = 1 /\ wanted = FALSE /\ requests = <<>>
  /\ display = "on" /\ broadcasts = <<>>
  /\ service = [i \in Instances |-> "none"]
  /\ tasks = [i \in Instances |-> <<>>]
  /\ registered = [i \in Instances |-> FALSE] /\ stamped = {}
  /\ entry = [i \in Instances |-> MinPulse]
  /\ calm = [i \in Instances |-> MinPulse] /\ passed = {}
  /\ lost = FALSE /\ dark = FALSE /\ skipped = FALSE

-----------------------------------------------------------------------------
(***************************************************************************)
(* Settings.                                                               *)
(***************************************************************************)
\* A stop request for a service that is not started goes nowhere.
checkDozeService(doze, always, gesture) ==
  LET run == doze /\ ~always /\ gesture
  IN  /\ wanted' = run
      /\ requests' = IF run THEN Append(requests, "start")
                     ELSE IF wanted THEN Append(requests, "stop")
                     ELSE requests

CanRequest == Len(requests) < MaxBacklog
CanPost    == posted < MaxBacklog

\* The check of the main switch precedes the reset of always-on.
SwitchDoze(isChecked) ==
  /\ display = "on" /\ MainIdle /\ CanRequest
  /\ dozeEnabled' = isChecked
  /\ checkDozeService(isChecked, alwaysOn, pickup)
  /\ alwaysOn' = (isChecked /\ alwaysOn)
  /\ UNCHANGED <<pickup, stored, posted, display, broadcasts, sensor, lost, dark,
                 skipped>>

\* The other preferences are there while doze is enabled, the gesture's while
\* always-on is off too. The check follows; the gesture's new value is applied, to be
\* written some time later.
SetAlwaysOn(value) ==
  /\ display = "on" /\ MainIdle /\ dozeEnabled /\ CanPost
  /\ alwaysOn' = value /\ posted' = posted + 1
  /\ UNCHANGED <<dozeEnabled, pickup, stored, manager, display, broadcasts, sensor,
                 lost, dark, skipped>>

SetPickup_NoCheck(value) ==    \* mutant: no check is posted
  /\ display = "on" /\ MainIdle /\ dozeEnabled /\ ~alwaysOn /\ CanPost
  /\ pickup' = value /\ UNCHANGED posted
  /\ UNCHANGED <<dozeEnabled, alwaysOn, stored, manager, display, broadcasts, sensor,
                 lost, dark, skipped>>
SetPickup(value) ==
  /\ display = "on" /\ MainIdle /\ dozeEnabled /\ ~alwaysOn /\ CanPost
  /\ pickup' = value /\ posted' = posted + 1
  /\ UNCHANGED <<dozeEnabled, alwaysOn, stored, manager, display, broadcasts, sensor,
                 lost, dark, skipped>>

WriteOut ==
  /\ pickup # stored /\ stored' = pickup
  /\ UNCHANGED <<dozeEnabled, alwaysOn, pickup, posted, manager, display, broadcasts,
                 sensor, lost, dark, skipped>>

\* A posted check, or that of BootCompletedReceiver.
RunCheck ==
  /\ MainIdle /\ posted > 0 /\ posted' = posted - 1 /\ CanRequest
  /\ checkDozeService(dozeEnabled, alwaysOn, pickup)
  /\ lost' = FALSE
  /\ UNCHANGED <<settings, display, broadcasts, sensor, dark, skipped>>

-----------------------------------------------------------------------------
(***************************************************************************)
(* The service.                                                            *)
(***************************************************************************)
\* onCreate; a service that runs already is left alone.
Start ==
  /\ MainIdle /\ requests # <<>> /\ Head(requests) = "start"
  /\ requests' = Tail(requests)
  /\ IF Alive # {}
     THEN UNCHANGED <<sensor, broadcasts, dark, skipped>>
     ELSE \E i \in Instances :
            /\ Idle(i) /\ service' = [service EXCEPT ![i] = "alive"]
            /\ entry' = [entry EXCEPT ![i] = MinPulse]
            /\ calm' = [calm EXCEPT ![i] = MinPulse]
            /\ broadcasts' = <<>> /\ dark' = (display = "off") /\ skipped' = FALSE
            /\ UNCHANGED <<tasks, stamped, registered, passed>>
  /\ UNCHANGED <<settings, posted, wanted, display, lost>>

\* onDestroy.
Stop ==
  /\ MainIdle /\ requests # <<>> /\ Head(requests) = "stop"
  /\ requests' = Tail(requests)
  /\ service' = [i \in Instances |-> IF i \in Alive THEN "gone" ELSE service[i]]
  /\ tasks' = [i \in Instances |-> IF i \in Alive THEN Append(tasks[i], "disable")
                                                  ELSE tasks[i]]
  /\ broadcasts' = <<>> /\ dark' = FALSE /\ skipped' = FALSE
  /\ UNCHANGED <<settings, posted, wanted, display, stamped, registered, entry,
                 passed, calm, lost>>

\* The display is switched; a broadcast goes to the receivers there are.
SwitchDisplay ==
  /\ Len(broadcasts) < MaxBacklog
  /\ display' = IF display = "on" THEN "off" ELSE "on"
  /\ broadcasts' = IF Alive = {} THEN broadcasts ELSE Append(broadcasts, display')
  /\ UNCHANGED <<settings, posted, manager, sensor, lost, dark, skipped>>

\* onDisplayOn.
ReceiveOn_Never(i) ==    \* mutant: SCREEN_ON is not handled
  /\ MainIdle /\ service[i] = "alive"
  /\ broadcasts # <<>> /\ Head(broadcasts) = "on"
  /\ broadcasts' = Tail(broadcasts)
  /\ UNCHANGED <<settings, posted, manager, display, sensor, lost, dark, skipped>>
ReceiveOn(i) ==
  /\ MainIdle /\ service[i] = "alive"
  /\ broadcasts # <<>> /\ Head(broadcasts) = "on"
  /\ Len(tasks[i]) < MaxBacklog
  /\ broadcasts' = Tail(broadcasts)
  /\ tasks' = IF isPickUpEnabled
              THEN [tasks EXCEPT ![i] = Append(@, "disable")] ELSE tasks
  /\ skipped' = ~isPickUpEnabled
  /\ UNCHANGED <<settings, posted, manager, display, service, stamped, registered,
                 entry, passed, calm, lost, dark>>

\* onDisplayOff.
ReceiveOff_Never(i) ==    \* mutant: SCREEN_OFF is not handled
  /\ MainIdle /\ service[i] = "alive"
  /\ broadcasts # <<>> /\ Head(broadcasts) = "off"
  /\ broadcasts' = Tail(broadcasts) /\ dark' = FALSE
  /\ UNCHANGED <<settings, posted, manager, display, sensor, lost, skipped>>
ReceiveOff(i) ==
  /\ MainIdle /\ service[i] = "alive"
  /\ broadcasts # <<>> /\ Head(broadcasts) = "off"
  /\ Len(tasks[i]) < MaxBacklog
  /\ broadcasts' = Tail(broadcasts) /\ dark' = FALSE
  /\ tasks' = IF isPickUpEnabled
              THEN [tasks EXCEPT ![i] = Append(@, "enable")] ELSE tasks
  /\ UNCHANGED <<settings, posted, manager, display, service, stamped, registered,
                 entry, passed, calm, lost, skipped>>

-----------------------------------------------------------------------------
(***************************************************************************)
(* PickupSensor.                                                           *)
(***************************************************************************)
\* The executor outlives the service. A task to enable sets entryTimestamp, and
\* registers the listener when it gets on. An event that the main thread is past
\* testing came from the registration before.
Stamp_Never(i) ==    \* mutant: entryTimestamp is not set
  /\ tasks[i] # <<>> /\ Head(tasks[i]) = "enable" /\ i \notin stamped
  /\ stamped' = stamped \union {i}
  /\ calm' = [calm EXCEPT ![i] = IF registered[i] \/ i \in passed THEN @ ELSE 0]
  /\ UNCHANGED <<settings, posted, manager, display, broadcasts, service, tasks,
                 registered, entry, passed, lost, dark, skipped>>
Stamp(i) ==
  /\ tasks[i] # <<>> /\ Head(tasks[i]) = "enable" /\ i \notin stamped
  /\ stamped' = stamped \union {i}
  /\ entry' = [entry EXCEPT ![i] = 0]
  /\ calm' = [calm EXCEPT ![i] = IF registered[i] \/ i \in passed THEN @ ELSE 0]
  /\ UNCHANGED <<settings, posted, manager, display, broadcasts, service, tasks,
                 registered, passed, lost, dark, skipped>>

\* registerListener, which does nothing for a registered one; unregisterListener.
RunTask(i) ==
  LET enable == Head(tasks[i]) = "enable"
  IN  /\ tasks[i] # <<>> /\ tasks' = [tasks EXCEPT ![i] = Tail(@)]
      /\ (enable => i \in stamped) /\ stamped' = stamped \ {i}
      /\ registered' = [registered EXCEPT ![i] = enable]
      /\ service' = [service EXCEPT
           ![i] = IF @ = "gone" /\ Len(tasks[i]) = 1 /\ ~enable THEN "none" ELSE @]
      /\ UNCHANGED <<settings, posted, manager, display, broadcasts, entry, passed,
                     calm, lost, dark, skipped>>

\* onSensorChanged: late enough after entryTimestamp, which the executor may set
\* between the test and the assignment.
SensorChanged(i) ==
  /\ MainIdle /\ registered[i] /\ entry[i] >= MinPulse
  /\ passed' = {i}
  /\ UNCHANGED <<settings, posted, manager, display, broadcasts, service, tasks,
                 stamped, registered, entry, calm, lost, dark, skipped>>

\* The event is acted upon: a matching value wakes up, or causes a doze pulse.
Gesture(i) ==
  /\ i \in passed /\ passed' = {}
  /\ entry' = [entry EXCEPT ![i] = 0] /\ calm' = [calm EXCEPT ![i] = 0]
  /\ UNCHANGED <<settings, posted, manager, display, broadcasts, service, tasks,
                 stamped, registered, lost, dark, skipped>>

-----------------------------------------------------------------------------
(***************************************************************************)
(* Outside. The process may be killed, or crash: a posted check whose      *)
(* fragment is gone has no context. A started service is started again.    *)
(***************************************************************************)
ProcessEnds(started) ==
  /\ posted' = 0 /\ pickup' = stored /\ UNCHANGED <<alwaysOn, stored, display>>
  /\ wanted' = started /\ requests' = IF started THEN <<"start">> ELSE <<>>
  /\ service' = [i \in Instances |-> "none"]
  /\ tasks' = [i \in Instances |-> <<>>] /\ stamped' = {}
  /\ registered' = [i \in Instances |-> FALSE]
  /\ entry' = [i \in Instances |-> MinPulse]
  /\ calm' = [i \in Instances |-> MinPulse] /\ passed' = {}
  /\ broadcasts' = <<>> /\ dark' = FALSE /\ skipped' = FALSE

Forgotten == lost \/ posted > 0 \/ pickup # stored

Kill ==
  /\ ProcessEnds(wanted) /\ lost' = Forgotten
  /\ UNCHANGED dozeEnabled

\* In SwitchDoze, between the setting and the check.
KillInSwitch(isChecked) ==
  /\ display = "on" /\ MainIdle
  /\ ProcessEnds(wanted) /\ dozeEnabled' = isChecked /\ lost' = TRUE

\* There too, between the check and the reset of always-on.
KillBeforeReset ==
  /\ display = "on" /\ MainIdle
  /\ ProcessEnds(FALSE) /\ dozeEnabled' = FALSE /\ lost' = Forgotten

Older(age) == IF age < MinPulse THEN age + 1 ELSE age
Tick ==
  /\ entry' = [i \in Instances |-> Older(entry[i])]
  /\ calm' = [i \in Instances |-> Older(calm[i])]
  /\ UNCHANGED <<settings, posted, manager, display, broadcasts, service, tasks,
                 stamped, registered, passed, lost, dark, skipped>>

User == \/ \E value \in BOOLEAN :
             SwitchDoze(value) \/ SetAlwaysOn(value) \/ SetPickup(value)
        \/ SwitchDisplay
Receive == \E i \in Instances : ReceiveOn(i) \/ ReceiveOff(i)

Next == \/ User \/ WriteOut \/ RunCheck \/ Start \/ Stop \/ Receive \/ Tick
        \/ Kill \/ KillBeforeReset \/ \E isChecked \in BOOLEAN : KillInSwitch(isChecked)
        \/ \E i \in Instances :
             Stamp(i) \/ RunTask(i) \/ SensorChanged(i) \/ Gesture(i)

Spec == Init /\ [][Next]_vars

-----------------------------------------------------------------------------
\* When all checks and requests have been dealt with, the service runs exactly
\* if the settings ask for it (Utils.kt:43), whatever the order of changes, and
\* although the main switch checks before it resets always-on
\* (DozeSettingsFragment.kt:79-84). Not so if the process died before a check, or
\* with a gesture that was acted upon and not written yet: the next check makes up
\* for it.
ServiceMatchesSettings ==
  posted = 0 /\ requests = <<>> /\ ~lost =>
    (Alive # {} <=> dozeEnabled /\ ~alwaysOn /\ isPickUpEnabled)

\* No listener is left behind: if its executor has nothing to do, a registered
\* listener belongs to the running service and the display is off, or on with
\* the broadcast still to come. The one exception: the service meets SCREEN_ON
\* while the gesture is off, does nothing (DozeService.kt:56), and the gesture is
\* on again before the posted check stops the service.
NoForgottenListener ==
  \A i \in Instances : registered[i] /\ tasks[i] = <<>> =>
    /\ service[i] = "alive"
    /\ display = "off" \/ broadcasts # <<>> \/ skipped

\* While the display is off and nothing is under way, a service with the gesture
\* on listens, unless it was itself created with the display off: it looks at
\* broadcasts only, never at the display (DozeService.kt:28-40, 61-65).
DeafOnlyInTheDark ==
  \A i \in Alive :
    display = "off" /\ broadcasts = <<>> /\ tasks[i] = <<>> /\ isPickUpEnabled /\ ~dark
      => registered[i]

\* A sensor event that is acted upon comes MIN_PULSE_INTERVAL_MS after the last
\* one of its listener, and after the stamp of the registration that delivered it,
\* although two threads set entryTimestamp and one reads it: a stamp that falls
\* between the test and the assignment is lost, and the assignment is as good
\* (PickupSensor.kt:34-38, 60). The registration itself may be younger (61).
GesturesSpaced ==
  [][\A i \in Instances : Gesture(i) => calm[i] >= MinPulse]_vars
=============================================================================
