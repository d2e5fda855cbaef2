--------------------------- MODULE AodHelperProofs ---------------------------
(***************************************************************************)
(* Safety of AodHelper, proved: timer and listener follow the display and  *)
(* always-on.                                                              *)
(***************************************************************************)
EXTENDS AodHelper, SequenceTheorems, TLAPS

Running == isSensorRunning \/ isTimerRunning

\* The broadcasts under way alternate and end with what the display shows.
Alternating ==
  /\ \A i \in 1..Len(broadcasts) - 1 : broadcasts[i] # broadcasts[i + 1]
  /\ broadcasts # << >> => broadcasts[Len(broadcasts)] = display
  /\ ~created => broadcasts = << >>

\* Nothing runs without the service, with the display on and known to be, and
\* before a SCREEN_OFF.
Resting ==
  \/ ~created
  \/ display = "on" /\ broadcasts = << >>
  \/ broadcasts # << >> /\ Head(broadcasts) = "off"
  => ~Running

\* Once SCREEN_OFF has come, always-on is what it was then.
Following ==
  created /\ display = "off" /\ broadcasts = << >> /\ ~dark /\ ~cut =>
    (isSensorRunning <=> aod) /\ (isTimerRunning => aod)

IInv == TypeOK /\ OneTimer /\ Alternating /\ Resting /\ Following

-----------------------------------------------------------------------------
(***************************************************************************)
(* The two operations on the timer.                                        *)
(***************************************************************************)
TimerTypes ==
  /\ isTimerRunning \in BOOLEAN /\ timer \in Timers
  /\ task \in [Timers -> {"free", "armed", "sending", "last"}]

\* startRepeatDozing leaves one task armed, also when one was running.
LEMMA StartTimer ==
  ASSUME TimerTypes, OneTimer, startRepeatDozing
  PROVE  TimerTypes' /\ OneTimer' /\ isTimerRunning'
<1>1. CASE isTimerRunning
  BY <1>1 DEF startRepeatDozing, timerVars, TimerTypes, OneTimer, Live
<1>2. CASE ~isTimerRunning
  <2>1. PICK t \in Timers : /\ task[t] = "free" /\ timer' = t
                           /\ task' = [task EXCEPT ![t] = "armed"]
                           /\ isTimerRunning' = TRUE
    BY <1>2 DEF startRepeatDozing
  <2>2. Live = {}
    BY <1>2 DEF OneTimer
  <2>3. Live' = {t}
    BY <2>1, <2>2 DEF Live, TimerTypes
  <2> QED
    BY <2>1, <2>3 DEF OneTimer, TimerTypes
<1> QED
  BY <1>1, <1>2 DEF TimerTypes

\* stopRepeatDozing leaves none.
LEMMA StopTimer ==
  ASSUME TimerTypes, OneTimer, stopRepeatDozing
  PROVE  TimerTypes' /\ OneTimer' /\ ~isTimerRunning'
<1>1. Live' = {}
  BY DEF stopRepeatDozing, OneTimer, Live, TimerTypes
<1> QED
  BY <1>1 DEF stopRepeatDozing, OneTimer, TimerTypes

\* What the head and the rest of the broadcasts are like.
LEMMA FirstBroadcast ==
  ASSUME TypeOK, Alternating, broadcasts # << >>
  PROVE  /\ Head(broadcasts) \in {"on", "off"} /\ Tail(broadcasts) \in Seq({"on", "off"})
         /\ Tail(broadcasts) = << >> => display = Head(broadcasts)
         /\ Tail(broadcasts) # << >> => Head(Tail(broadcasts)) # Head(broadcasts)
         /\ (broadcasts' = Tail(broadcasts) /\ display' = display /\ created')
              => Alternating'
<1> DEFINE b == broadcasts
           r == Tail(b)
<1>1. b \in Seq({"on", "off"}) /\ Len(b) \in Nat \ {0}
  BY DEF TypeOK
<1>2. Head(b) = b[1] /\ r \in Seq({"on", "off"}) /\ Len(r) = Len(b) - 1
      /\ \A i \in 1..Len(r) : r[i] = b[i + 1]
  BY <1>1
<1>3. r = << >> => Len(b) = 1
  <2> SUFFICES ASSUME r = << >> PROVE Len(b) = 1
    OBVIOUS
  <2>1. Len(r) = Len(<< >>)
    BY Zenon
  <2>2. Len(<< >>) = 0
    OBVIOUS
  <2>3. Len(b) - 1 = 0
    BY <1>2, <2>1, <2>2, Zenon
  <2> QED
    BY <2>3, <1>1
<1>4. r # << >> => Len(r) \in Nat \ {0} /\ Head(r) = r[1]
  BY <1>2
<1>5. \A i \in 1..Len(b) - 1 : b[i] # b[i + 1]
  BY DEF Alternating
<1>6. b[Len(b)] = display
  BY DEF Alternating
<1>7. r # << >> => r[Len(r)] = display
  BY <1>1, <1>2, <1>4, <1>6
<1>8. \A i \in 1..Len(r) - 1 : r[i] # r[i + 1]
  <2> TAKE i \in 1..Len(r) - 1
  <2>1. i \in 1..Len(r) /\ i + 1 \in 1..Len(r) /\ i + 1 \in 1..Len(b) - 1
    BY <1>1, <1>2
  <2> QED
    BY <2>1, <1>2, <1>5
<1>9. b' = r /\ display' = display /\ created' => Alternating'
  BY <1>7, <1>8 DEF Alternating, TypeOK
<1> QED
  BY <1>1, <1>2, <1>3, <1>4, <1>5, <1>6, <1>9

-----------------------------------------------------------------------------
\* No broadcast under way is a sequence of broadcasts.
LEMMA NoBroadcasts == << >> \in Seq({"on", "off"})
OBVIOUS

\* The types of the timer and its tasks are among those of the service.
LEMMA TypesOfTimer == TypeOK => TimerTypes
BY DEF TypeOK, TimerTypes

\* A service not yet created has no timer, no sensor and no broadcast.
LEMMA InitInv == Init => IInv
<1> SUFFICES ASSUME Init PROVE IInv
  OBVIOUS
<1>1. TypeOK
  BY NoBroadcasts DEF Init, TypeOK
<1>2. OneTimer
  BY DEF Init, OneTimer, Live
<1>3. Alternating /\ Resting /\ Following
  BY DEF Init, Alternating, Resting, Following, Running
<1> QED
  BY <1>1, <1>2, <1>3 DEF IInv

\* A new last broadcast.
LEMMA AppendInv == IInv /\ SwitchDisplay => IInv'
<1> SUFFICES ASSUME IInv, SwitchDisplay PROVE IInv'
  OBVIOUS
<1> USE DEF IInv, SwitchDisplay, timerVars
<1>1. display' \in {"on", "off"} /\ display' # display
  BY DEF TypeOK
<1>2. OneTimer'
  BY DEF OneTimer, Live
<1>3. CASE ~created
  <2>1. broadcasts' = << >> /\ ~created'
    BY <1>3 DEF Alternating
  <2> QED
    BY <1>1, <1>2, <1>3, <2>1
       DEF TypeOK, Alternating, Resting, Following, Running
<1>4. CASE created
  <2> DEFINE b == broadcasts
  <2>1. b \in Seq({"on", "off"}) /\ Len(b) \in Nat /\ b' = Append(b, display')
    BY <1>4 DEF TypeOK
  <2>2. /\ b' \in Seq({"on", "off"}) /\ Len(b') = Len(b) + 1 /\ b' # << >>
        /\ b'[Len(b')] = display' /\ \A i \in 1..Len(b) : b'[i] = b[i]
        /\ Head(b') = b'[1]
    BY <1>1, <2>1
  <2>3. b # << >> => Len(b) > 0 /\ b[Len(b)] = display /\ Head(b) = b[1]
    BY <2>1 DEF Alternating
  <2>4. \A i \in 1..Len(b') - 1 : b'[i] # b'[i + 1]
    <3> SUFFICES ASSUME NEW i \in 1..Len(b) PROVE b'[i] # b'[i + 1]
      BY <2>1, <2>2
    <3>1. CASE i = Len(b)
      <4>1. b # << >>
        BY <3>1
      <4> QED
        BY <3>1, <4>1, <1>1, <2>1, <2>2, <2>3
    <3>2. CASE i # Len(b)
      <4>1. i \in 1..Len(b) - 1 /\ i + 1 \in 1..Len(b)
        BY <3>2, <2>1
      <4> QED
        BY <4>1, <2>2 DEF Alternating
    <3> QED
      BY <3>1, <3>2
  <2>5. Alternating'
    BY <1>4, <2>2, <2>4 DEF Alternating
  <2>6. Resting'
    <3>1. CASE b = << >>
      <4>1. b'[1] = display'
        BY <3>1, <2>1, <2>2
      <4>2. display' = "off" => ~Running
        BY <3>1, <1>1 DEF Resting, TypeOK
      <4> QED
        BY <1>4, <2>2, <4>1, <4>2 DEF Resting, Running
    <3>2. CASE b # << >>
      <4>1. Head(b') = Head(b)
        BY <3>2, <2>1, <2>2, <2>3
      <4> QED
        BY <3>2, <4>1, <1>4, <2>2 DEF Resting, Running
    <3> QED
      BY <3>1, <3>2
  <2>7. Following'
    BY <2>2 DEF Following
  <2>8. TypeOK'
    BY <1>1, <2>2 DEF TypeOK
  <2> QED
    BY <1>2, <2>5, <2>6, <2>7, <2>8
<1> QED
  BY <1>3, <1>4

\* The display comes on: timer and sensor are stopped, whatever ran.
LEMMA ReceiveOnInv == IInv /\ (ReceiveOn \/ ReceivePresent) => IInv'
<1> SUFFICES ASSUME IInv, ReceiveOn \/ ReceivePresent PROVE IInv'
  OBVIOUS
<1> USE DEF IInv
<1>1. TimerTypes' /\ OneTimer' /\ ~Running'
  BY StopTimer, TypesOfTimer DEF ReceiveOn, ReceivePresent, DisplayOn, Running
<1>2. CASE ReceiveOn
  <2>1. /\ broadcasts' = Tail(broadcasts) /\ broadcasts # << >>
        /\ Head(broadcasts) = "on" /\ created /\ created'
        /\ display' = display /\ isSensorRunning' = FALSE
        /\ UNCHANGED <<aod, userPresent, dark, cut>>
    BY <1>2 DEF ReceiveOn, DisplayOn
  <2>2. Alternating' /\ broadcasts' \in Seq({"on", "off"})
        /\ (broadcasts' = << >> => display = "on")
    BY <2>1, FirstBroadcast
  <2>3. TypeOK'
    BY <1>1, <2>1, <2>2 DEF TypeOK, TimerTypes
  <2>4. Resting' /\ Following'
    BY <1>1, <2>1, <2>2 DEF Resting, Following
  <2> QED
    BY <1>1, <2>2, <2>3, <2>4
<1>3. CASE ReceivePresent
  <2>1. /\ UNCHANGED <<display, aod, broadcasts, created, dark>> /\ cut'
        /\ userPresent' = FALSE /\ isSensorRunning' = FALSE
        /\ cut' \in BOOLEAN
    BY <1>3 DEF ReceivePresent, DisplayOn
  <2> QED
    BY <1>1, <2>1 DEF TypeOK, TimerTypes, Alternating, Resting, Following
<1> QED
  BY <1>2, <1>3

\* The display goes off: with AOD on the sensor and one timer are started.
LEMMA ReceiveOffInv == IInv /\ ReceiveOff => IInv'
<1> SUFFICES ASSUME IInv, ReceiveOff PROVE IInv'
  OBVIOUS
<1> USE DEF IInv
<1>1. /\ broadcasts' = Tail(broadcasts) /\ broadcasts # << >>
      /\ Head(broadcasts) = "off" /\ created /\ created'
      /\ UNCHANGED <<display, aod, userPresent>> /\ dark' = FALSE /\ cut' = FALSE
  BY DEF ReceiveOff
<1>2. Alternating' /\ broadcasts' \in Seq({"on", "off"})
      /\ (broadcasts' = << >> => display = "off")
      /\ (broadcasts' # << >> => Head(broadcasts') # "off")
  BY <1>1, FirstBroadcast
<1>3. ~Running
  BY <1>1 DEF Resting
<1>4. TimerTypes' /\ OneTimer' /\ isSensorRunning' = aod
      /\ (isTimerRunning' => aod)
  <2>1. CASE aod
    <3>1. startRepeatDozing /\ isSensorRunning' = TRUE
      BY <2>1 DEF ReceiveOff
    <3> QED
      BY <2>1, <3>1, StartTimer, TypesOfTimer DEF TypeOK
  <2>2. CASE ~aod
    BY <2>2, <1>3 DEF ReceiveOff, timerVars, TypeOK, TimerTypes, OneTimer, Live, Running
  <2> QED
    BY <2>1, <2>2
<1>5. TypeOK'
  BY <1>1, <1>2, <1>4 DEF TypeOK, TimerTypes
<1>6. Resting'
  BY <1>1, <1>2 DEF Resting
<1>7. Following'
  BY <1>1, <1>4 DEF Following
<1> QED
  BY <1>2, <1>4, <1>5, <1>6, <1>7

\* A reading of the sensor starts the timer or stops it.
LEMMA SensorInv == ASSUME NEW far \in BOOLEAN
                   PROVE  IInv /\ SensorChanged(far) => IInv'
<1> SUFFICES ASSUME IInv, SensorChanged(far) PROVE IInv'
  OBVIOUS
<1> USE DEF IInv
<1>1. isSensorRunning /\ UNCHANGED <<outside, created, isSensorRunning, dark, cut>>
  BY DEF SensorChanged
<1>2. TimerTypes' /\ OneTimer'
  BY StartTimer, StopTimer, TypesOfTimer DEF SensorChanged
<1>3. TypeOK'
  BY <1>1, <1>2 DEF TypeOK, TimerTypes, outside
<1> QED
  BY <1>1, <1>2, <1>3 DEF outside, Alternating, Resting, Following, Running

\* A task of the timer, and the broadcast it sends, start and stop nothing.
LEMMA TimerInv == ASSUME NEW t \in Timers
                  PROVE  IInv /\ (TaskRuns(t) \/ PulseDoze(t)) => IInv'
<1> SUFFICES ASSUME IInv, TaskRuns(t) \/ PulseDoze(t) PROVE IInv'
  OBVIOUS
<1>1. /\ UNCHANGED <<outside, created, isSensorRunning, isTimerRunning, timer, dark, cut>>
      /\ task' \in [Timers -> {"free", "armed", "sending", "last"}]
      /\ Live' = Live
  BY DEF TaskRuns, PulseDoze, Live, IInv, TypeOK
<1> QED
  BY <1>1 DEF IInv, TypeOK, OneTimer, outside, Alternating, Resting, Following, Running

\* Every step keeps the invariant.
LEMMA StepInv == IInv /\ [Next]_vars => IInv'
<1> SUFFICES ASSUME IInv, [Next]_vars PROVE IInv'
  OBVIOUS
<1>1. CASE Create
  BY <1>1 DEF Create, outside, timerVars, IInv, TypeOK, OneTimer, Live, Alternating,
              Resting, Following, Running
<1>2. CASE Kill
  <2>1. TypeOK'
    BY <1>2, NoBroadcasts DEF Kill, IInv, TypeOK
  <2>2. OneTimer'
    BY <1>2 DEF Kill, OneTimer, Live
  <2>3. Alternating' /\ Resting' /\ Following'
    BY <1>2 DEF Kill, Alternating, Resting, Following, Running
  <2> QED
    BY <2>1, <2>2, <2>3 DEF IInv
<1>3. CASE Unlock
  BY <1>3 DEF Unlock, timerVars, IInv, TypeOK, OneTimer, Live, Alternating, Resting,
              Following, Running
<1>4. CASE SetAod
  BY <1>4 DEF SetAod, timerVars, IInv, TypeOK, OneTimer, Live, Alternating, Resting,
              Following, Running
<1>5. CASE UNCHANGED vars
  BY <1>5 DEF vars, outside, timerVars, IInv, TypeOK, OneTimer, Live, Alternating,
              Resting, Following, Running
<1> QED
  BY <1>1, <1>2, <1>3, <1>4, <1>5, AppendInv, ReceiveOnInv, ReceiveOffInv, SensorInv,
     TimerInv DEF Next

\* The inductive invariant: however late broadcasts and USER_PRESENT come, and
\* whenever the service is killed.
THEOREM AodInvariant == Spec => []IInv
BY InitInv, StepInv, PTL DEF Spec

\* The Timer in the field is the only one that fires again (startRepeatDozing,
\* stopRepeatDozing).
THEOREM OnlyOneTimer == Spec => []OneTimer
<1>1. IInv => OneTimer
  BY DEF IInv
<1> QED
  BY <1>1, AodInvariant, PTL

\* With the display on and known to be, nothing is left running.
THEOREM DisplayOnRests == Spec => []NothingLeftRunning
<1>1. IInv => NothingLeftRunning
  BY DEF IInv, NothingLeftRunning, Resting, Running, OneTimer
<1> QED
  BY <1>1, AodInvariant, PTL

\* With the display off, listener and timer are as always-on says, but for the
\* restart in the dark and the late USER_PRESENT.
THEOREM AlwaysOnIsFollowed == Spec => []FollowsAlwaysOn
<1>1. IInv => FollowsAlwaysOn
  BY DEF IInv, FollowsAlwaysOn, Following, OneTimer
<1> QED
  BY <1>1, AodInvariant, PTL
=============================================================================
