---------------------------- MODULE DozeAppProofs ----------------------------
(***************************************************************************)
(* Proofs of the properties of DozeApp, for any number of instances, any   *)
(* interval and any bound on the queues.                                   *)
(*                                                                         *)
(* Three queues are under way at any time: the requests of the activity    *)
(* manager, the broadcasts, the tasks of an executor. What each comes to   *)
(* when it has run is its last element, or what holds now if it is empty:  *)
(* the invariant relates these outcomes, and the steps that run an element *)
(* leave them as they are.                                                 *)
(***************************************************************************)
EXTENDS DozeApp, SequenceTheorems, TLAPS

Latest(queue) == queue[Len(queue)]

\* What the queue comes to, where now is how it stands without it.
Outcome(queue, now, yes) == IF queue = <<>> THEN now ELSE Latest(queue) = yes

Listens(i) == Outcome(tasks[i], registered[i], "enable")

\* The service will run exactly if the activity manager was last told so.
RequestsLead == wanted <=> Outcome(requests, Alive # {}, "start")

\* With no check to come, it was told what the settings say.
SettingsFollowed ==
  posted = 0 /\ ~lost => (wanted <=> dozeEnabled /\ ~alwaysOn /\ pickup)

\* Broadcasts go to a running service and end with the state of the display.
BroadcastsLead ==
  /\ Alive = {} => broadcasts = <<>>
  /\ broadcasts # <<>> => Latest(broadcasts) = display

\* An instance that never ran has nothing to do; one destroyed ends unregistered.
DestroyedUnregister == \A i \in Instances :
  /\ service[i] = "none" => tasks[i] = <<>> /\ ~registered[i]
  /\ service[i] = "gone" => tasks[i] # <<>> /\ Latest(tasks[i]) = "disable"

\* The running service comes to listen as the display and the gesture say.
ListensInTheDark == \A i \in Alive :
  /\ Listens(i) => display = "off" \/ broadcasts # <<>> \/ skipped
  /\ display = "off" /\ broadcasts = <<>> /\ isPickUpEnabled /\ ~dark => Listens(i)

\* entryTimestamp is never older than what it is there to keep apart. An event past
\* the test was late enough, and stays so when the executor stamps meanwhile.
EntryIsRecent == \A i \in Instances :
  IF i \in passed THEN calm[i] >= MinPulse ELSE entry[i] <= calm[i]

IInv ==
  /\ TypeOK /\ RequestsLead /\ SettingsFollowed /\ BroadcastsLead
  /\ DestroyedUnregister /\ ListensInTheDark /\ EntryIsRecent

-----------------------------------------------------------------------------
\* What is appended to a queue is what it comes to.
LEMMA AppendLeads ==
  ASSUME NEW S, NEW queue \in Seq(S), NEW e \in S
  PROVE  /\ Append(queue, e) \in Seq(S) /\ Append(queue, e) # <<>>
         /\ Latest(Append(queue, e)) = e
BY AppendProperties DEF Latest

\* Running the first element of a queue leaves what it comes to.
LEMMA TailLeads ==
  ASSUME NEW S, NEW queue \in Seq(S), queue # <<>>
  PROVE  /\ Tail(queue) \in Seq(S) /\ Head(queue) \in S
         /\ Tail(queue) = <<>> => Latest(queue) = Head(queue) /\ Len(queue) = 1
         /\ Tail(queue) # <<>> => Latest(Tail(queue)) = Latest(queue) /\ Len(queue) # 1
<1>1. /\ Len(queue) \in Nat \ {0} /\ Tail(queue) \in Seq(S) /\ Head(queue) \in S
      /\ Head(queue) = queue[1] /\ Len(Tail(queue)) = Len(queue) - 1
      /\ \A i \in 1..Len(Tail(queue)) : Tail(queue)[i] = queue[i + 1]
  BY HeadTailProperties, EmptySeq
<1>2. Tail(queue) = <<>> <=> Len(queue) = 1
  BY <1>1, EmptySeq
<1> QED
  BY <1>1, <1>2 DEF Latest

\* The bounds are not empty.
LEMMA Bounds == /\ MinPulse \in Nat /\ MinPulse \in 0..MinPulse
                /\ 0 \in 0..MaxBacklog /\ 1 \in 0..MaxBacklog
BY DozeAssumption

\* Initially nothing runs and the check of the boot is to come.
LEMMA InitIInv == Init => IInv
<1> SUFFICES ASSUME Init PROVE IInv
  OBVIOUS
<1>1. Alive = {}
  BY DEF Init, Alive
<1>2. TypeOK
  <2>1. /\ requests \in Seq({"start", "stop"}) /\ broadcasts \in Seq({"on", "off"})
        /\ tasks \in [Instances -> Seq({"enable", "disable"})]
    BY EmptySeq DEF Init
  <2> QED
    BY <1>1, <2>1, Bounds DEF Init, TypeOK
<1> QED
  BY <1>1, <1>2, DozeAssumption DEF Init, IInv, RequestsLead, Outcome, SettingsFollowed,
    BroadcastsLead, DestroyedUnregister, ListensInTheDark, EntryIsRecent

-----------------------------------------------------------------------------
\* checkDozeService (Utils.kt) tells the manager what the settings it looked at
\* say, unless the service is off and stays so.
LEMMA CheckLeads ==
  ASSUME IInv, NEW doze \in BOOLEAN, NEW always \in BOOLEAN, NEW gesture \in BOOLEAN,
         checkDozeService(doze, always, gesture), UNCHANGED service
  PROVE  /\ wanted' \in BOOLEAN /\ requests' \in Seq({"start", "stop"})
         /\ wanted' <=> doze /\ ~always /\ gesture
         /\ RequestsLead'
<1> USE DEF IInv, checkDozeService
<1>1. Alive' = Alive
  BY DEF Alive
<1>2. /\ wanted' \in BOOLEAN
      /\ wanted' <=> doze /\ ~always /\ gesture
  OBVIOUS
<1>3. CASE doze /\ ~always /\ gesture
  <2>1. requests' = Append(requests, "start") /\ wanted'
    BY <1>3
  <2>2. /\ Append(requests, "start") \in Seq({"start", "stop"})
        /\ Append(requests, "start") # <<>> /\ Latest(Append(requests, "start")) = "start"
    <3> requests \in Seq({"start", "stop"}) /\ "start" \in {"start", "stop"}
      BY DEF TypeOK
    <3> HIDE DEF IInv, checkDozeService
    <3> QED
      BY AppendLeads
  <2> QED
    BY <1>2, <2>1, <2>2 DEF RequestsLead, Outcome, Latest
<1>4. CASE ~(doze /\ ~always /\ gesture) /\ wanted
  <2>1. requests' = Append(requests, "stop") /\ ~wanted'
    BY <1>4
  <2>2. /\ Append(requests, "stop") \in Seq({"start", "stop"})
        /\ Append(requests, "stop") # <<>> /\ Latest(Append(requests, "stop")) = "stop"
    <3> requests \in Seq({"start", "stop"}) /\ "stop" \in {"start", "stop"}
      BY DEF TypeOK
    <3> HIDE DEF IInv, checkDozeService
    <3> QED
      BY AppendLeads
  <2> QED
    BY <1>2, <2>1, <2>2 DEF RequestsLead, Outcome, Latest
<1>5. CASE ~(doze /\ ~always /\ gesture) /\ ~wanted
  BY <1>1, <1>2, <1>5 DEF RequestsLead, Outcome, Latest, TypeOK
<1> QED
  BY <1>3, <1>4, <1>5

-----------------------------------------------------------------------------
\* The settings, checks and requests are one half of the state, the services and
\* what they do the other: most actions leave one of them alone.
ServiceHalf == BroadcastsLead /\ DestroyedUnregister /\ ListensInTheDark /\ EntryIsRecent

\* What leaves the display, the sensor and the broadcasts alone keeps the half of
\* the service.
LEMMA ServiceHalfKept ==
  ASSUME ServiceHalf, UNCHANGED <<sensor, broadcasts, display, dark, skipped>>,
         display = "off" => UNCHANGED pickup
  PROVE  ServiceHalf' /\ Alive' = Alive
<1>1. Alive' = Alive
  BY DEF Alive, sensor
<1>2. BroadcastsLead' /\ DestroyedUnregister' /\ EntryIsRecent'
  BY <1>1 DEF ServiceHalf, BroadcastsLead, DestroyedUnregister, EntryIsRecent, sensor, Latest
<1>3. ListensInTheDark'
  BY <1>1 DEF ServiceHalf, ListensInTheDark, Listens, Outcome, Latest, isPickUpEnabled, sensor
<1> QED
  BY <1>1, <1>2, <1>3 DEF ServiceHalf

\* What leaves the settings and the requests alone keeps the half of the settings.
LEMMA ManagerHalfKept ==
  ASSUME RequestsLead, SettingsFollowed, UNCHANGED <<settings, posted, manager, lost>>,
         Alive' = {} <=> Alive = {}
  PROVE  RequestsLead' /\ SettingsFollowed'
BY DEF RequestsLead, SettingsFollowed, Outcome, Latest, settings, manager

\* Every action of the settings and of the activity manager's queue.
LEMMA SettingsStep ==
  ASSUME IInv, NEW value \in BOOLEAN,
         SwitchDoze(value) \/ SetAlwaysOn(value) \/ SetPickup(value) \/ RunCheck \/ WriteOut
  PROVE  IInv'
<1> USE DEF IInv
<1>1. UNCHANGED <<sensor, broadcasts, display, dark, skipped>>
  BY DEF SwitchDoze, SetAlwaysOn, SetPickup, RunCheck, WriteOut
<1>2. display = "off" => UNCHANGED pickup
  BY DEF SwitchDoze, SetAlwaysOn, SetPickup, RunCheck, WriteOut, settings
<1>3. ServiceHalf' /\ Alive' = Alive
  BY <1>1, <1>2, ServiceHalfKept DEF ServiceHalf
<1>4. CASE SwitchDoze(value)
  <2>1. /\ checkDozeService(value, alwaysOn, pickup) /\ UNCHANGED service
        /\ dozeEnabled' = value /\ alwaysOn' = (value /\ alwaysOn)
        /\ UNCHANGED <<pickup, stored, posted, lost>>
    BY <1>4 DEF SwitchDoze, sensor
  <2>2. /\ wanted' \in BOOLEAN /\ requests' \in Seq({"start", "stop"})
        /\ wanted' <=> value /\ ~alwaysOn /\ pickup
        /\ RequestsLead'
    BY <2>1, CheckLeads DEF TypeOK
  <2>3. TypeOK'
    BY <1>1, <1>3, <2>1, <2>2 DEF TypeOK, sensor
  <2>4. SettingsFollowed'
    BY <2>1, <2>2 DEF SettingsFollowed
  <2> QED
    BY <1>3, <2>2, <2>3, <2>4 DEF ServiceHalf
<1>5. CASE SetAlwaysOn(value) \/ SetPickup(value)
  <2>1. /\ posted' = posted + 1 /\ posted < MaxBacklog /\ UNCHANGED <<dozeEnabled, stored, manager, lost>>
        /\ alwaysOn' \in BOOLEAN /\ pickup' \in BOOLEAN
    BY <1>5 DEF SetAlwaysOn, SetPickup, CanPost, TypeOK
  <2>2. posted' \in 0..MaxBacklog /\ posted' # 0
    BY <2>1, DozeAssumption DEF TypeOK
  <2>3. TypeOK'
    BY <1>1, <1>3, <2>1, <2>2 DEF TypeOK, sensor, manager
  <2>4. SettingsFollowed' /\ RequestsLead'
    BY <1>3, <2>1, <2>2 DEF SettingsFollowed, RequestsLead, Outcome, Latest, manager
  <2> QED
    BY <1>3, <2>3, <2>4 DEF ServiceHalf
<1>6. CASE RunCheck
  <2>1. /\ checkDozeService(dozeEnabled, alwaysOn, pickup) /\ UNCHANGED <<service, settings>>
        /\ posted > 0 /\ posted' = posted - 1 /\ lost' = FALSE
    BY <1>6 DEF RunCheck, sensor
  <2>2. /\ wanted' \in BOOLEAN /\ requests' \in Seq({"start", "stop"})
        /\ wanted' <=> dozeEnabled /\ ~alwaysOn /\ pickup
        /\ RequestsLead'
    BY <2>1, CheckLeads DEF TypeOK
  <2>3. posted' \in 0..MaxBacklog
    BY <2>1, DozeAssumption DEF TypeOK
  <2>4. TypeOK'
    BY <1>1, <1>3, <2>1, <2>2, <2>3 DEF TypeOK, sensor, settings
  <2>5. SettingsFollowed'
    BY <2>1, <2>2 DEF SettingsFollowed, settings
  <2> QED
    BY <1>3, <2>2, <2>4, <2>5 DEF ServiceHalf
<1>7. CASE WriteOut
  BY <1>1, <1>3, <1>7, ManagerHalfKept DEF WriteOut, ServiceHalf, TypeOK, sensor, manager,
    SettingsFollowed, RequestsLead, Outcome, Latest
<1> QED
  BY <1>4, <1>5, <1>6, <1>7

-----------------------------------------------------------------------------
\* onCreate (DozeService.kt): the new instance has nothing to do, and no display
\* broadcast is on its way to it.
LEMMA StartStep == ASSUME IInv, Start PROVE IInv'
<1> USE DEF IInv
<1>1. /\ requests \in Seq({"start", "stop"}) /\ requests # <<>> /\ Head(requests) = "start"
      /\ requests' = Tail(requests) /\ UNCHANGED <<settings, posted, wanted, display, lost>>
  BY DEF Start, TypeOK
<1>2. /\ Tail(requests) \in Seq({"start", "stop"})
      /\ Tail(requests) = <<>> => Latest(requests) = "start"
      /\ Tail(requests) # <<>> => Latest(Tail(requests)) = Latest(requests)
  <2> HIDE DEF IInv
  <2> QED BY <1>1, TailLeads
<1>3. SettingsFollowed'
  BY <1>1 DEF SettingsFollowed, settings
<1>4. CASE Alive # {}
  <2>1. UNCHANGED <<sensor, broadcasts, display, dark, skipped, pickup>>
    BY <1>1, <1>4 DEF Start, settings
  <2>2. ServiceHalf' /\ Alive' = Alive
    BY <2>1, ServiceHalfKept DEF ServiceHalf
  <2>3. RequestsLead'
    BY <1>1, <1>2, <1>4, <2>2 DEF RequestsLead, Outcome
  <2>4. TypeOK'
    BY <1>1, <1>2, <2>1, <2>2 DEF TypeOK, sensor, settings
  <2> QED
    BY <1>3, <2>2, <2>3, <2>4 DEF ServiceHalf
<1>5. CASE Alive = {}
  <2>1. PICK i \in Instances :
          /\ service[i] = "none" /\ service' = [service EXCEPT ![i] = "alive"]
          /\ entry' = [entry EXCEPT ![i] = MinPulse]
          /\ calm' = [calm EXCEPT ![i] = MinPulse]
          /\ broadcasts' = <<>> /\ dark' = (display = "off") /\ skipped' = FALSE
          /\ UNCHANGED <<tasks, stamped, registered, passed>>
    BY <1>5 DEF Start, Idle
  <2>2. Alive' = {i}
    BY <1>5, <2>1 DEF Alive, TypeOK
  <2>3. RequestsLead'
    BY <1>1, <1>2, <2>2 DEF RequestsLead, Outcome
  <2>4. TypeOK'
    <3>1. broadcasts' \in Seq({"on", "off"})
      BY <2>1, EmptySeq
    <3> QED
      BY <1>1, <1>2, <2>1, <2>2, <3>1, Bounds DEF TypeOK, settings
  <2>5. BroadcastsLead' /\ DestroyedUnregister' /\ EntryIsRecent'
    BY <2>1, DozeAssumption DEF BroadcastsLead, DestroyedUnregister, EntryIsRecent, TypeOK
  <2>6. ListensInTheDark'
    <3>1. ~Listens(i)'
      BY <2>1 DEF Listens, Outcome, DestroyedUnregister
    <3> QED
      BY <1>1, <2>1, <2>2, <3>1 DEF ListensInTheDark
  <2> QED
    BY <1>3, <2>3, <2>4, <2>5, <2>6
<1> QED
  BY <1>4, <1>5

\* onDestroy: the executor is told to unregister, last of all.
LEMMA StopStep == ASSUME IInv, Stop PROVE IInv'
<1> USE DEF IInv
<1>1. /\ requests \in Seq({"start", "stop"}) /\ requests # <<>> /\ Head(requests) = "stop"
      /\ requests' = Tail(requests)
      /\ UNCHANGED <<settings, posted, wanted, display, stamped, registered, entry,
                     passed, calm, lost>>
      /\ service' = [i \in Instances |-> IF i \in Alive THEN "gone" ELSE service[i]]
      /\ tasks' = [i \in Instances |-> IF i \in Alive THEN Append(tasks[i], "disable")
                                                      ELSE tasks[i]]
      /\ broadcasts' = <<>> /\ dark' = FALSE /\ skipped' = FALSE
  BY DEF Stop, TypeOK
<1>2. /\ Tail(requests) \in Seq({"start", "stop"})
      /\ Tail(requests) = <<>> => Latest(requests) = "stop"
      /\ Tail(requests) # <<>> => Latest(Tail(requests)) = Latest(requests)
  <2> HIDE DEF IInv
  <2> QED BY <1>1, TailLeads
<1>3. Alive' = {}
  BY <1>1 DEF Alive
<1>4. \A i \in Instances :
        LET t == Append(tasks[i], "disable")
        IN  t \in Seq({"enable", "disable"}) /\ t # <<>> /\ Latest(t) = "disable"
  <2> TAKE i \in Instances
  <2>1. tasks[i] \in Seq({"enable", "disable"}) /\ "disable" \in {"enable", "disable"}
    BY DEF TypeOK
  <2> HIDE DEF IInv
  <2> QED BY <2>1, AppendLeads
<1>5. TypeOK'
  <2>1. broadcasts' \in Seq({"on", "off"})
    BY <1>1, EmptySeq
  <2>2. tasks' \in [Instances -> Seq({"enable", "disable"})]
    BY <1>1, <1>4 DEF TypeOK
  <2> QED
    BY <1>1, <1>2, <1>3, <2>1, <2>2 DEF TypeOK, settings
<1>6. RequestsLead'
  BY <1>1, <1>2, <1>3 DEF RequestsLead, Outcome
<1>7. SettingsFollowed' /\ EntryIsRecent'
  BY <1>1 DEF SettingsFollowed, EntryIsRecent, settings
<1>8. BroadcastsLead' /\ ListensInTheDark'
  BY <1>1, <1>3 DEF BroadcastsLead, ListensInTheDark
<1>9. DestroyedUnregister'
  BY <1>1, <1>4 DEF DestroyedUnregister, Alive
<1> QED
  BY <1>5, <1>6, <1>7, <1>8, <1>9

-----------------------------------------------------------------------------
\* A broadcast of the display's new state goes to the running service.
LEMMA DisplayStep == ASSUME IInv, SwitchDisplay PROVE IInv'
<1> USE DEF IInv
<1>1. /\ display' \in {"on", "off"}
      /\ broadcasts' = IF Alive = {} THEN broadcasts ELSE Append(broadcasts, display')
      /\ UNCHANGED <<settings, posted, manager, sensor, lost, dark, skipped>>
  BY DEF SwitchDisplay
<1>2. Alive' = Alive
  BY <1>1 DEF Alive, sensor
<1>3. LET b == Append(broadcasts, display')
      IN  b \in Seq({"on", "off"}) /\ b # <<>> /\ Latest(b) = display'
  <2>1. broadcasts \in Seq({"on", "off"})
    BY DEF TypeOK
  <2> HIDE DEF IInv
  <2> QED BY <1>1, <2>1, AppendLeads
<1>4. TypeOK'
  <2>1. broadcasts' \in Seq({"on", "off"})
    BY <1>1, <1>3 DEF TypeOK
  <2> QED
    BY <1>1, <1>2, <2>1 DEF TypeOK, settings, manager, sensor
<1>5. RequestsLead' /\ SettingsFollowed'
  BY <1>1, <1>2, ManagerHalfKept
<1>6. DestroyedUnregister' /\ EntryIsRecent'
  BY <1>1 DEF DestroyedUnregister, EntryIsRecent, sensor, Latest
<1>7. BroadcastsLead' /\ ListensInTheDark'
  BY <1>1, <1>2, <1>3 DEF BroadcastsLead, ListensInTheDark
<1> QED
  BY <1>4, <1>5, <1>6, <1>7

\* onDisplayOn and onDisplayOff: the executor is told to follow the display if the
\* gesture is on.
LEMMA ReceiveStep ==
  ASSUME IInv, NEW i \in Instances, ReceiveOn(i) \/ ReceiveOff(i) PROVE IInv'
<1> USE DEF IInv
<1>1. /\ broadcasts \in Seq({"on", "off"}) /\ broadcasts # <<>> /\ i \in Alive
      /\ broadcasts' = Tail(broadcasts)
      /\ UNCHANGED <<settings, posted, manager, display, service, stamped, registered,
                     entry, passed, calm, lost>>
  BY DEF ReceiveOn, ReceiveOff, TypeOK, Alive
<1>2. /\ Tail(broadcasts) \in Seq({"on", "off"})
      /\ Tail(broadcasts) = <<>> => Latest(broadcasts) = Head(broadcasts)
      /\ Tail(broadcasts) # <<>> => Latest(Tail(broadcasts)) = Latest(broadcasts)
  <2> HIDE DEF IInv
  <2> QED BY <1>1, TailLeads
<1>3. Alive' = Alive /\ \A j \in Alive : j = i
  BY <1>1 DEF Alive, TypeOK
<1>4. \A e \in {"enable", "disable"} :
        LET t == Append(tasks[i], e)
        IN  t \in Seq({"enable", "disable"}) /\ t # <<>> /\ Latest(t) = e
  <2> TAKE e \in {"enable", "disable"}
  <2>1. tasks[i] \in Seq({"enable", "disable"})
    BY DEF TypeOK
  <2> HIDE DEF IInv
  <2> QED BY <2>1, AppendLeads
<1>5. /\ tasks' \in [Instances -> Seq({"enable", "disable"})]
      /\ \A j \in Instances \ {i} : tasks'[j] = tasks[j]
      /\ dark' \in BOOLEAN /\ skipped' \in BOOLEAN
  <2>1. tasks \in [Instances -> Seq({"enable", "disable"})] /\ dark \in BOOLEAN
        /\ skipped \in BOOLEAN
    BY DEF TypeOK
  <2> HIDE DEF IInv
  <2>2. dark' \in BOOLEAN /\ skipped' \in BOOLEAN
    BY <2>1 DEF ReceiveOn, ReceiveOff
  <2>3. \/ tasks' = tasks
        \/ \E e \in {"enable", "disable"} : tasks' = [tasks EXCEPT ![i] = Append(tasks[i], e)]
    BY DEF ReceiveOn, ReceiveOff
  <2> QED BY <1>4, <2>1, <2>2, <2>3
<1>6. TypeOK'
  BY <1>1, <1>2, <1>3, <1>5 DEF TypeOK, settings, manager
<1>7. RequestsLead' /\ SettingsFollowed'
  BY <1>1, <1>3, ManagerHalfKept
<1>8. EntryIsRecent' /\ BroadcastsLead'
  BY <1>1, <1>2, <1>3 DEF EntryIsRecent, BroadcastsLead
<1>9. DestroyedUnregister'
  BY <1>1, <1>5 DEF DestroyedUnregister, Alive
<1>10. ListensInTheDark'
  <2>1. CASE ReceiveOn(i)
    <3>1. broadcasts' = <<>> => display' = "on"
      BY <1>1, <1>2, <2>1 DEF ReceiveOn, BroadcastsLead
    <3>2. skipped' \/ ~Listens(i)'
      <4>1. CASE isPickUpEnabled
        <5>1. tasks'[i] = Append(tasks[i], "disable")
          BY <2>1, <4>1 DEF ReceiveOn, TypeOK
        <5> QED
          BY <1>4, <5>1 DEF Listens, Outcome
      <4>2. CASE ~isPickUpEnabled
        BY <2>1, <4>2 DEF ReceiveOn
      <4> QED
        BY <4>1, <4>2
    <3> QED
      BY <1>3, <3>1, <3>2 DEF ListensInTheDark
  <2>2. CASE ReceiveOff(i)
    <3>1. broadcasts' = <<>> => display' = "off"
      BY <1>1, <1>2, <2>2 DEF ReceiveOff, BroadcastsLead
    <3>2. isPickUpEnabled' => Listens(i)'
      <4>1. ASSUME isPickUpEnabled' PROVE tasks'[i] = Append(tasks[i], "enable")
        BY <1>1, <2>2, <4>1 DEF ReceiveOff, TypeOK, isPickUpEnabled, settings
      <4> QED
        BY <1>4, <4>1 DEF Listens, Outcome
    <3> QED
      BY <1>3, <3>1, <3>2 DEF ListensInTheDark, TypeOK
  <2> QED
    BY <2>1, <2>2
<1> QED
  BY <1>6, <1>7, <1>8, <1>9, <1>10

-----------------------------------------------------------------------------
\* A task of an executor brings its listener closer to what the queue comes to; the
\* last one of a destroyed service unregisters.
LEMMA RunTaskStep == ASSUME IInv, NEW i \in Instances, RunTask(i) PROVE IInv'
<1> USE DEF IInv
<1> DEFINE enable == Head(tasks[i]) = "enable"
<1>1. /\ tasks[i] \in Seq({"enable", "disable"}) /\ tasks[i] # <<>>
      /\ tasks' = [tasks EXCEPT ![i] = Tail(@)]
      /\ stamped' = stamped \ {i}
      /\ registered' = [registered EXCEPT ![i] = enable]
      /\ service' = [service EXCEPT
           ![i] = IF @ = "gone" /\ Len(tasks[i]) = 1 /\ ~enable THEN "none" ELSE @]
      /\ UNCHANGED <<settings, posted, manager, display, broadcasts, entry, passed,
                     calm, lost, dark, skipped>>
  BY DEF RunTask, TypeOK
<1>2. /\ Tail(tasks[i]) \in Seq({"enable", "disable"}) /\ Head(tasks[i]) \in {"enable", "disable"}
      /\ Tail(tasks[i]) = <<>> => Latest(tasks[i]) = Head(tasks[i]) /\ Len(tasks[i]) = 1
      /\ Tail(tasks[i]) # <<>> =>
           Latest(Tail(tasks[i])) = Latest(tasks[i]) /\ Len(tasks[i]) # 1
  <2>1. tasks[i] \in Seq({"enable", "disable"}) /\ tasks[i] # <<>>
    BY <1>1
  <2> HIDE DEF IInv
  <2> QED BY <2>1, TailLeads
<1>3. Alive' = Alive
  BY <1>1 DEF Alive, TypeOK
<1>4. TypeOK'
  BY <1>1, <1>2, <1>3, DozeAssumption DEF TypeOK, settings, manager
<1>5. RequestsLead' /\ SettingsFollowed'
  BY <1>1, <1>3, ManagerHalfKept
<1>6. BroadcastsLead'
  BY <1>1, <1>3 DEF BroadcastsLead
<1>7. DestroyedUnregister'
  <2>1. service'[i] = "gone" => Tail(tasks[i]) # <<>>
    BY <1>1, <1>2 DEF DestroyedUnregister, TypeOK
  <2>2. service'[i] = "none" => Tail(tasks[i]) = <<>> /\ ~registered'[i]
    BY <1>1, <1>2 DEF DestroyedUnregister, TypeOK
  <2>3. service'[i] = "gone" => Latest(Tail(tasks[i])) = "disable"
    BY <1>1, <1>2, <2>1 DEF DestroyedUnregister, TypeOK
  <2> QED
    BY <1>1, <2>1, <2>2, <2>3 DEF DestroyedUnregister, TypeOK
<1>8. \A j \in Instances : Listens(j)' <=> Listens(j)
  <2>1. Listens(i)' <=> Listens(i)
    BY <1>1, <1>2 DEF Listens, Outcome, TypeOK
  <2>2. ASSUME NEW j \in Instances \ {i} PROVE Listens(j)' <=> Listens(j)
    BY <1>1 DEF Listens, Outcome, TypeOK
  <2> QED
    BY <2>1, <2>2
<1>9. ListensInTheDark'
  BY <1>1, <1>3, <1>8 DEF ListensInTheDark, isPickUpEnabled, settings, Alive
<1>10. EntryIsRecent'
  BY <1>1 DEF EntryIsRecent, TypeOK
<1> QED
  BY <1>4, <1>5, <1>6, <1>7, <1>9, <1>10

\* The stamp, onSensorChanged and the passing of time only touch the ages.
LEMMA SensorStep ==
  ASSUME IInv,
         \/ Tick
         \/ \E i \in Instances : Stamp(i) \/ SensorChanged(i) \/ Gesture(i)
  PROVE  IInv'
<1> USE DEF IInv
<1>1. UNCHANGED <<settings, posted, manager, display, broadcasts, service, tasks,
                  registered, lost, dark, skipped>>
  BY DEF Tick, Stamp, SensorChanged, Gesture
<1>2. Alive' = Alive
  BY <1>1 DEF Alive
<1> DEFINE Ages == /\ entry' \in [Instances -> 0..MinPulse]
                   /\ calm' \in [Instances -> 0..MinPulse]
                   /\ stamped' \subseteq Instances /\ passed' \subseteq Instances
                   /\ EntryIsRecent' /\ \A i, j \in passed' : i = j
<1>3. Ages
  <2>1. CASE Tick
    BY <2>1, DozeAssumption DEF Tick, Older, TypeOK, EntryIsRecent
  <2>2. ASSUME NEW i \in Instances, SensorChanged(i) PROVE Ages
    BY <2>2, DozeAssumption DEF SensorChanged, TypeOK, EntryIsRecent
  <2>3. ASSUME NEW i \in Instances, Gesture(i) PROVE Ages
    BY <2>3, DozeAssumption DEF Gesture, TypeOK, EntryIsRecent
  <2>4. ASSUME NEW i \in Instances, Stamp(i) PROVE Ages
    BY <2>4, DozeAssumption DEF Stamp, TypeOK, EntryIsRecent
  <2> QED
    BY <2>1, <2>2, <2>3, <2>4
<1>4. TypeOK'
  BY <1>1, <1>2, <1>3 DEF TypeOK, settings, manager
<1>5. RequestsLead' /\ SettingsFollowed'
  BY <1>1, <1>2, ManagerHalfKept
<1>6. BroadcastsLead' /\ DestroyedUnregister' /\ ListensInTheDark'
  BY <1>1, <1>2 DEF BroadcastsLead, DestroyedUnregister, ListensInTheDark, Listens,
    Outcome, Latest, isPickUpEnabled, settings
<1> QED
  BY <1>3, <1>4, <1>5, <1>6

\* The process dies: a service that is wanted is started again. What the activity
\* manager was not told of the settings left over is known to be lost.
LEMMA KillStep ==
  ASSUME IInv, NEW started \in BOOLEAN, ProcessEnds(started),
         dozeEnabled' \in BOOLEAN, lost' \in BOOLEAN,
         ~lost' => (started <=> dozeEnabled' /\ ~alwaysOn /\ stored)
  PROVE  IInv'
<1> USE DEF IInv
<1>1. /\ posted' = 0 /\ pickup' = stored /\ UNCHANGED <<alwaysOn, stored, display>>
      /\ wanted' = started /\ requests' = IF started THEN <<"start">> ELSE <<>>
      /\ service' = [i \in Instances |-> "none"]
      /\ tasks' = [i \in Instances |-> <<>>] /\ stamped' = {}
      /\ registered' = [i \in Instances |-> FALSE]
      /\ entry' = [i \in Instances |-> MinPulse]
      /\ calm' = [i \in Instances |-> MinPulse] /\ passed' = {}
      /\ broadcasts' = <<>> /\ dark' = FALSE /\ skipped' = FALSE
  BY DEF ProcessEnds
<1>2. Alive' = {}
  BY <1>1 DEF Alive
<1>3. /\ <<"start">> \in Seq({"start", "stop"}) /\ <<"start">> # <<>>
      /\ Latest(<<"start">>) = "start"
  BY DEF Latest
<1>4. TypeOK'
  <2>1. /\ requests' \in Seq({"start", "stop"}) /\ broadcasts' \in Seq({"on", "off"})
        /\ tasks' \in [Instances -> Seq({"enable", "disable"})]
    BY <1>1, <1>3, EmptySeq
  <2> QED
    BY <1>1, <1>2, <2>1, Bounds DEF TypeOK
<1>5. RequestsLead'
  BY <1>1, <1>2, <1>3 DEF RequestsLead, Outcome
<1>6. SettingsFollowed'
  BY <1>1 DEF SettingsFollowed
<1>7. BroadcastsLead' /\ DestroyedUnregister' /\ ListensInTheDark' /\ EntryIsRecent'
  BY <1>1, <1>2, DozeAssumption DEF BroadcastsLead, DestroyedUnregister, ListensInTheDark,
    EntryIsRecent
<1> QED
  BY <1>4, <1>5, <1>6, <1>7

\* Wherever it dies.
LEMMA KillsStep ==
  ASSUME IInv,
         Kill \/ KillBeforeReset \/ \E isChecked \in BOOLEAN : KillInSwitch(isChecked)
  PROVE  IInv'
<1>1. CASE Kill
  <2>1. /\ ProcessEnds(wanted) /\ wanted \in BOOLEAN /\ UNCHANGED dozeEnabled
        /\ lost' = (lost \/ posted > 0 \/ pickup # stored)
        /\ dozeEnabled \in BOOLEAN /\ lost \in BOOLEAN /\ posted \in Nat
    BY <1>1, DozeAssumption DEF Kill, Forgotten, IInv, TypeOK
  <2>2. ~lost' => (wanted <=> dozeEnabled' /\ ~alwaysOn /\ stored)
    BY <2>1 DEF IInv, SettingsFollowed
  <2> QED
    BY <2>1, <2>2, KillStep
<1>2. CASE KillBeforeReset
  <2>1. ProcessEnds(FALSE) /\ dozeEnabled' = FALSE /\ lost' \in BOOLEAN
    BY <1>2 DEF KillBeforeReset, Forgotten, IInv, TypeOK
  <2> QED
    BY <2>1, KillStep
<1>3. ASSUME NEW isChecked \in BOOLEAN, KillInSwitch(isChecked) PROVE IInv'
  <2>1. ProcessEnds(wanted) /\ dozeEnabled' = isChecked /\ lost' = TRUE /\ wanted \in BOOLEAN
    BY <1>3 DEF KillInSwitch, IInv, TypeOK
  <2> QED
    BY <2>1, KillStep
<1> QED
  BY <1>1, <1>2, <1>3

\* Every step preserves the invariant.
LEMMA IInvStep == IInv /\ [Next]_vars => IInv'
<1> SUFFICES ASSUME IInv, [Next]_vars PROVE IInv'
  OBVIOUS
<1>1. CASE UNCHANGED vars
  <2>1. Alive' = Alive
    BY <1>1 DEF vars, sensor, Alive
  <2> QED
    BY <1>1, <2>1 DEF vars, settings, manager, sensor, IInv, TypeOK, RequestsLead,
      SettingsFollowed, BroadcastsLead, DestroyedUnregister, ListensInTheDark,
      EntryIsRecent, Listens, Outcome, Latest, isPickUpEnabled
<1>2. CASE Next
  BY <1>2, SettingsStep, StartStep, StopStep, DisplayStep, ReceiveStep, RunTaskStep,
    SensorStep, KillsStep DEF Next, User, Receive
<1> QED
  BY <1>1, <1>2

-----------------------------------------------------------------------------
\* The inductive invariant holds of every reachable state.
THEOREM DozeInvariant == Spec => []IInv
BY InitIInv, IInvStep, PTL DEF Spec

\* When all is settled, the service runs exactly if the settings ask for it, unless
\* a check or an unwritten gesture died with its process and no check came since.
THEOREM ServiceFollowsSettings == Spec => []ServiceMatchesSettings
<1>1. IInv => ServiceMatchesSettings
  BY DEF IInv, RequestsLead, SettingsFollowed, ServiceMatchesSettings, Outcome, isPickUpEnabled
<1> QED
  BY <1>1, DozeInvariant, PTL

\* No listener is left behind.
THEOREM ListenersAreOwned == Spec => []NoForgottenListener
<1>1. IInv => NoForgottenListener
  BY DEF IInv, TypeOK, DestroyedUnregister, ListensInTheDark, Listens, Outcome, Alive,
    NoForgottenListener
<1> QED
  BY <1>1, DozeInvariant, PTL

\* A service that saw the display go off listens.
THEOREM DarkIsHeard == Spec => []DeafOnlyInTheDark
<1>1. IInv => DeafOnlyInTheDark
  BY DEF IInv, ListensInTheDark, Listens, Outcome, DeafOnlyInTheDark
<1> QED
  BY <1>1, DozeInvariant, PTL

\* A sensor event that is acted upon comes late enough after the last one, and after
\* the stamp of its registration.
THEOREM EventsAreSpaced == Spec => GesturesSpaced
<1>1. IInv => \A i \in Instances : Gesture(i) => calm[i] >= MinPulse
  BY DEF IInv, EntryIsRecent, Gesture
<1> QED
  BY <1>1, DozeInvariant, PTL DEF Spec, GesturesSpaced
=============================================================================
