----------------------------- MODULE AodHelper -----------------------------
(***************************************************************************)
(* DozeCustomService (apps/OplusDeviceService, aodhelper): while the       *)
(* display is off and always-on is set, a timer pulses the doze screen     *)
(* unless the proximity sensor is covered.                                 *)
(*                                                                         *)
(* Broadcasts and sensor events come on the main thread, each Timer has a  *)
(* thread of its own. SCREEN_ON and SCREEN_OFF come in order; USER_PRESENT *)
(* is sent by somebody else and may be late.                               *)
(***************************************************************************)
EXTENDS Naturals, Sequences

CONSTANTS
  Timers,            \* room for Timer objects whose thread still runs
  MaxBroadcasts

VARIABLES
  display, aod,      \* "on" or "off"; DOZE_ALWAYS_ON
  broadcasts, userPresent,    \* to the receiver, under way
  created,           \* the service exists
  isSensorRunning, isTimerRunning,
  timer,             \* the Timer of the field
  task,              \* per Timer: "free", "armed", "sending" the pulse it has
                     \* decided upon, or doing so for the "last" time
  \* History.
  dark,              \* the service was created with the display off
  cut                \* USER_PRESENT came last

outside == <<display, aod, broadcasts, userPresent>>
timerVars == <<isTimerRunning, timer, task>>
vars == <<outside, created, isSensorRunning, timerVars, dark, cut>>

Live == {t \in Timers : task[t] \in {"armed", "sending"}}

TypeOK ==
  /\ display \in {"on", "off"} /\ aod \in BOOLEAN
  /\ broadcasts \in Seq({"on", "off"}) /\ userPresent \in BOOLEAN
  /\ created \in BOOLEAN
  /\ isSensorRunning \in BOOLEAN /\ isTimerRunning \in BOOLEAN
  /\ timer \in Timers
  /\ task \in [Timers -> {"free", "armed", "sending", "last"}]
  /\ dark \in BOOLEAN /\ cut \in BOOLEAN

Init ==
  /\ display = "on" /\ aod \in BOOLEAN
  /\ broadcasts = <<>> /\ userPresent = FALSE
  /\ created = FALSE /\ isSensorRunning = FALSE /\ isTimerRunning = FALSE
  /\ timer \in Timers /\ task = [t \in Timers |-> "free"]
  /\ dark = FALSE /\ cut = FALSE

-----------------------------------------------------------------------------
\* LOCKED_BOOT_COMPLETED, or the restart of a sticky service.
Create ==
  /\ ~created /\ created' = TRUE
  /\ dark' = (display = "off") /\ cut' = FALSE
  /\ UNCHANGED <<outside, isSensorRunning, timerVars>>

\* The process dies, with its timers and its listener.
Kill ==
  /\ created /\ created' = FALSE
  /\ isSensorRunning' = FALSE /\ isTimerRunning' = FALSE
  /\ task' = [t \in Timers |-> "free"]
  /\ broadcasts' = <<>> /\ userPresent' = FALSE
  /\ UNCHANGED <<display, aod, timer, dark, cut>>

SwitchDisplay ==
  /\ Len(broadcasts) < MaxBroadcasts
  /\ display' = IF display = "on" THEN "off" ELSE "on"
  /\ broadcasts' = IF created THEN Append(broadcasts, display') ELSE broadcasts
  /\ UNCHANGED <<aod, userPresent, created, isSensorRunning, timerVars, dark, cut>>

Unlock ==
  /\ display = "on" /\ created /\ userPresent' = TRUE
  /\ UNCHANGED <<display, aod, broadcasts, created, isSensorRunning, timerVars, dark,
                 cut>>

\* Always-on is a setting of another program, changed on its screen.
SetAod ==
  /\ display = "on" /\ aod' = ~aod
  /\ UNCHANGED <<display, broadcasts, userPresent, created, isSensorRunning,
                 timerVars, dark, cut>>

-----------------------------------------------------------------------------
startRepeatDozing_Always ==    \* mutant: a running timer is not noticed
  \E t \in Timers : /\ task[t] = "free" /\ timer' = t
                    /\ task' = [task EXCEPT ![t] = "armed"]
                    /\ isTimerRunning' = TRUE
startRepeatDozing ==
  IF isTimerRunning THEN UNCHANGED timerVars
  ELSE \E t \in Timers : /\ task[t] = "free" /\ timer' = t
                         /\ task' = [task EXCEPT ![t] = "armed"]
                         /\ isTimerRunning' = TRUE

\* A task that is running is not interrupted by cancel.
stopRepeatDozing ==
  /\ task' = IF ~isTimerRunning THEN task
             ELSE [task EXCEPT ![timer] = IF @ = "sending" THEN "last" ELSE "free"]
  /\ isTimerRunning' = FALSE /\ UNCHANGED timer

\* SCREEN_ON, and USER_PRESENT.
DisplayOn ==
  /\ stopRepeatDozing /\ isSensorRunning' = FALSE

ReceiveOn_KeepsTimer ==    \* mutant: the timer goes on
  /\ created /\ broadcasts # <<>> /\ Head(broadcasts) = "on"
  /\ broadcasts' = Tail(broadcasts) /\ isSensorRunning' = FALSE
  /\ UNCHANGED <<display, aod, userPresent, created, timerVars, dark, cut>>
ReceiveOn ==
  /\ created /\ broadcasts # <<>> /\ Head(broadcasts) = "on"
  /\ broadcasts' = Tail(broadcasts) /\ DisplayOn
  /\ UNCHANGED <<display, aod, userPresent, created, dark, cut>>

ReceivePresent ==
  /\ created /\ userPresent /\ userPresent' = FALSE /\ DisplayOn /\ cut' = TRUE
  /\ UNCHANGED <<display, aod, broadcasts, created, dark>>

ReceiveOff_TimerOnly ==    \* mutant: the sensor is not enabled
  /\ created /\ broadcasts # <<>> /\ Head(broadcasts) = "off"
  /\ broadcasts' = Tail(broadcasts) /\ dark' = FALSE /\ cut' = FALSE
  /\ IF aod THEN startRepeatDozing ELSE UNCHANGED timerVars
  /\ UNCHANGED <<display, aod, userPresent, created, isSensorRunning>>
ReceiveOff ==
  /\ created /\ broadcasts # <<>> /\ Head(broadcasts) = "off"
  /\ broadcasts' = Tail(broadcasts) /\ dark' = FALSE /\ cut' = FALSE
  /\ IF aod THEN isSensorRunning' = TRUE /\ startRepeatDozing
            ELSE UNCHANGED <<isSensorRunning, timerVars>>
  /\ UNCHANGED <<display, aod, userPresent, created>>

\* onSensorChanged.
SensorChanged(far) ==
  /\ isSensorRunning
  /\ IF far THEN startRepeatDozing ELSE stopRepeatDozing
  /\ UNCHANGED <<outside, created, isSensorRunning, dark, cut>>

\* The task asks for the flag and then pulses.
TaskRuns(t) ==
  /\ task[t] = "armed" /\ aod /\ task' = [task EXCEPT ![t] = "sending"]
  /\ UNCHANGED <<outside, created, isSensorRunning, isTimerRunning, timer, dark, cut>>
PulseDoze(t) ==
  /\ task[t] \in {"sending", "last"}
  /\ task' = [task EXCEPT ![t] = IF @ = "last" THEN "free" ELSE "armed"]
  /\ UNCHANGED <<outside, created, isSensorRunning, isTimerRunning, timer, dark, cut>>

Next ==
  \/ Create \/ Kill \/ SwitchDisplay \/ Unlock \/ SetAod
  \/ ReceiveOn \/ ReceivePresent \/ ReceiveOff
  \/ \E far \in BOOLEAN : SensorChanged(far)
  \/ \E t \in Timers : TaskRuns(t) \/ PulseDoze(t)

Spec == Init /\ [][Next]_vars

-----------------------------------------------------------------------------
\* Of all Timers ever made at most the one in the field fires again: none is
\* overwritten uncancelled by the next SCREEN_OFF or sensor event (86-97), as
\* nobody could ever stop it.
OneTimer == Live = IF isTimerRunning THEN {timer} ELSE {}

\* The display is on and the broadcasts have arrived: no listener, and no Timer
\* that fires again. A pulse can still come from a task that was running when
\* its Timer was cancelled.
NothingLeftRunning ==
  display = "on" /\ broadcasts = <<>> => ~isSensorRunning /\ Live = {}

\* The display is off and SCREEN_OFF has arrived: the listener is there exactly
\* if always-on is set, and pulses come only then. Not so if the service was
\* restarted with the display off, or if USER_PRESENT came after SCREEN_OFF and
\* was taken for a display that is on (117-119).
FollowsAlwaysOn ==
  created /\ display = "off" /\ broadcasts = <<>> /\ ~dark /\ ~cut =>
    (isSensorRunning <=> aod) /\ (Live # {} => aod)
=============================================================================
