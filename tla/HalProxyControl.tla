-------------------------- MODULE HalProxyControl --------------------------
(***************************************************************************)
(* The control path of the sensors multi-HAL proxy                         *)
(* (sensors/MT6785/HalProxy.cpp): the sensor table and the routing of      *)
(* handles, direct channels, operation modes, and dynamic sensors.         *)
(*                                                                         *)
(* The constructor loads the sub-HALs and the table. From then on one      *)
(* binder thread calls initialize and setOperationMode, while each sub-HAL *)
(* reports dynamic sensors from a thread of its own.                       *)
(***************************************************************************)
EXTENDS Integers, Sequences

CONSTANTS
  Config,           \* the names in hals.conf, in order
  Installed,        \* Installed[d][name]: the library in directory d, if any
  Joining,          \* sub-HALs whose activate(h, false) waits for their thread
  Bulky,            \* sub-HALs that post more than the event queue holds
  Modes,            \* operation modes
  NORMAL            \* OperationMode::NORMAL

-----------------------------------------------------------------------------
(***************************************************************************)
(* The sub-HALs. A library is [version, static, direct, dynamic]: what     *)
(* each of the functions it exports says its version is, and what the      *)
(* sub-HAL calls its sensors, those with direct-channel flags, and its     *)
(* dynamic sensors.                                                        *)
(***************************************************************************)
\* The first directory with such a library decides, whatever is in it.
getHandleForSubHalSharedObject(name) ==
  LET there == {d \in DOMAIN Installed : name \in DOMAIN Installed[d]}
  IN  {Installed[d][name] : d \in {d \in there : \A e \in there : d <= e}}

\* The older function is preferred. Who has both and whose older one reports a
\* wrong version is left out, without a look at the newer.
Loads(library) ==
  IF "sensorsHalGetSubHal" \in DOMAIN library.version
  THEN library.version["sensorsHalGetSubHal"] = "2.0"
  ELSE /\ "sensorsHalGetSubHal_2_1" \in DOMAIN library.version
       /\ library.version["sensorsHalGetSubHal_2_1"] = "2.1"

Loaded(name) == \E library \in getHandleForSubHalSharedObject(name) : Loads(library)
mSubHalList  ==
  LET names == SelectSeq(Config, Loaded)
  IN  [n \in 1..Len(names) |->
         CHOOSE library \in getHandleForSubHalSharedObject(names[n]) : TRUE]

SubHalCount    == Len(mSubHalList)

HandleSpan == 16777216          \* 1 << kBitsAfterSubHalIndex
SubHals    == 0..(SubHalCount - 1)
NoSubHal   == -1

StaticHandles  == [i \in SubHals |-> mSubHalList[i + 1].static]
DirectHandles  == [i \in SubHals |-> mSubHalList[i + 1].direct]
DynamicHandles == [i \in SubHals |-> mSubHalList[i + 1].dynamic]

\* The index shares a signed 32-bit handle with 24 bits of the sub-HAL's own.
ASSUME SubHalCountAssumption == SubHalCount \in 0..127
ASSUME HandlesAssumption ==
  /\ StaticHandles \in [SubHals -> SUBSET Nat]
  /\ DynamicHandles \in [SubHals -> SUBSET Nat]
ASSUME ModesAssumption == NORMAL \in Modes

VARIABLES
  loading,                 \* the sub-HAL whose list is read; SubHalCount: done
  mSensors,                \* handle -> does the sensor keep its direct flags?
  blank,                   \* the handles in mSensors that have an empty SensorInfo
  mDirectChannelSubHal,
  mCurrentOperationMode,
  mDynamicSensors,         \* the handles of the map
  mDynamicSensorsCallback, \* "none", the "current" framework's or an "old" one's
  bpc,                     \* the step of initializeCommon the binder thread is at;
                           \* at "dynamic" it holds mDynamicSensorsMutex
  dpc, dwhat, dhandles,    \* sub-HAL threads: where, in which call, its handles
  \* Outside the proxy.
  mode,                    \* the mode each sub-HAL is in
  strayed,                 \* sub-HALs that refused a roll-back or initialize
  told,                    \* dynamic sensors the current framework knows of
  torn                     \* a report met lines 228-230 half-way

tableVars   == <<loading, mSensors, blank, mDirectChannelSubHal>>
modeVars    == <<mCurrentOperationMode, mode, strayed>>
threadVars  == <<dpc, dwhat, dhandles>>
dynamicVars == <<mDynamicSensors, mDynamicSensorsCallback, told, torn>>
vars == <<tableVars, modeVars, threadVars, dynamicVars, bpc>>

-----------------------------------------------------------------------------
\* Handles. With the first byte clear the code's bitwise or is a sum.
setSubHalIndex_Forgotten(h, i) == h    \* mutant: the index is left out
setSubHalIndex(h, i)  == h + i * HandleSpan
extractSubHalIndex(h) == h \div HandleSpan
clearSubHalIndex(h)   == h % HandleSpan
subHalIndexIsClear(h) == extractSubHalIndex(h) = 0
isSubHalIndexValid(h) == extractSubHalIndex(h) < SubHalCount

\* Where activate, batch, flush and injectSensorData send a handle: to a
\* sub-HAL under its own handle, or nowhere (BAD_VALUE).
Route(h) == IF isSubHalIndexValid(h)
            THEN {<<extractSubHalIndex(h), clearSubHalIndex(h)>>}
            ELSE {}

\* Where configDirectReport does: it looks at the owner, not at the index.
ConfigDirect(h) == IF mDirectChannelSubHal = NoSubHal THEN {}
                   ELSE {<<mDirectChannelSubHal, clearSubHalIndex(h)>>}

\* What sub-HAL i may call its sensors, and the proxy's handles for them.
OwnHandles(i) == {h \in StaticHandles[i] \union DynamicHandles[i] : h < HandleSpan}
HandlesOf(i)  == {h + i * HandleSpan : h \in OwnHandles(i)}
Handles == UNION {HandlesOf(i) : i \in SubHals}

BeforeClear  == {"static", "mutex", "dynamic", "clear"}
BinderStates == BeforeClear \union {"idle", "assign", "subHals"}

TypeOK ==
  /\ loading \in 0..SubHalCount
  /\ DOMAIN mSensors \subseteq Handles
  /\ \A h \in DOMAIN mSensors : mSensors[h] \in BOOLEAN
  /\ blank \subseteq Handles
  /\ mDirectChannelSubHal \in SubHals \union {NoSubHal}
  /\ mCurrentOperationMode \in Modes
  /\ mDynamicSensors \subseteq Handles
  /\ mDynamicSensorsCallback \in {"none", "current", "old"}
  /\ bpc \in BinderStates
  /\ dpc \in [SubHals -> {"idle", "calling", "locked", "fresh", "stale"}]
  /\ dwhat \in [SubHals -> {"connect", "disconnect"}]
  /\ dhandles \in [SubHals -> SUBSET Handles]
  /\ mode \in [SubHals -> Modes] /\ strayed \subseteq SubHals
  /\ told \subseteq Handles /\ torn \in BOOLEAN

Init ==
  /\ loading = 0 /\ mSensors = [h \in {} |-> FALSE] /\ blank = {}
  /\ mDirectChannelSubHal = NoSubHal
  /\ mCurrentOperationMode = NORMAL
  /\ mDynamicSensors = {} /\ mDynamicSensorsCallback = "none"
  /\ bpc = "idle"
  /\ dpc = [i \in SubHals |-> "idle"]
  /\ dwhat = [i \in SubHals |-> "connect"]
  /\ dhandles = [i \in SubHals |-> {}]
  /\ mode = [i \in SubHals |-> NORMAL] /\ strayed = {}
  /\ told = {} /\ torn = FALSE

-----------------------------------------------------------------------------
(***************************************************************************)
(* The constructor: initializeSensorList.                                  *)
(***************************************************************************)
\* setDirectChannelFlags: the first sub-HAL with a direct-channel sensor owns
\* the direct channels, the sensors of others lose the flags.
OwnerAfter(i, direct) ==
  IF mDirectChannelSubHal = NoSubHal /\ direct THEN i ELSE mDirectChannelSubHal
KeptDirect_Always(i, direct) == direct    \* mutant: the flags are not cleared
KeptDirect(i, direct) ==
  direct /\ mDirectChannelSubHal \in {NoSubHal, i}

\* The list of the next sub-HAL. Handles whose first byte is not clear are left
\* out.
LoadList ==
  LET valid  == {h \in StaticHandles[loading] : subHalIndexIsClear(h)}
      ours   == {setSubHalIndex(h, loading) : h \in valid}
      direct == {setSubHalIndex(h, loading) : h \in valid \intersect DirectHandles[loading]}
  IN  /\ loading < SubHalCount /\ loading' = loading + 1
      /\ mDirectChannelSubHal' = OwnerAfter(loading, direct # {})
      /\ mSensors' = [k \in DOMAIN mSensors \union ours |->
                        IF k \in ours THEN KeptDirect(loading, k \in direct)
                                     ELSE mSensors[k]]
      /\ UNCHANGED <<blank, modeVars, threadVars, dynamicVars, bpc>>

\* A getSensorsList that failed.
SkipList ==
  /\ loading < SubHalCount /\ loading' = loading + 1
  /\ UNCHANGED <<mSensors, blank, mDirectChannelSubHal, modeVars, threadVars,
                 dynamicVars, bpc>>

\* An empty SensorInfo has handle 0.
getSensorsList_2_1 == DOMAIN mSensors \union {0 : h \in blank}

Ready == loading = SubHalCount

-----------------------------------------------------------------------------
(***************************************************************************)
(* Operation modes. No other thread looks at them: one step.               *)
(***************************************************************************)
\* The first k sub-HALs accept m, the next one, if any, refuses it.
RolledBack_OffByOne(i, k) == i < k - 1    \* mutant: misses the last flipped
RolledBack(i, k) == i < k

SetOperationMode(m, k, refusing) ==
  /\ Ready /\ bpc = "idle"
  /\ IF k = SubHalCount
     THEN /\ mode' = [i \in SubHals |-> m]
          /\ mCurrentOperationMode' = m
          /\ strayed' = {}
     ELSE /\ mode' = [i \in SubHals |->
                        IF i >= k THEN mode[i]
                        ELSE IF RolledBack(i, k) /\ i \notin refusing
                             THEN mCurrentOperationMode ELSE m]
          /\ strayed' = {i \in strayed : i >= k} \union refusing
          /\ UNCHANGED mCurrentOperationMode
  /\ UNCHANGED <<tableVars, threadVars, dynamicVars, bpc>>

-----------------------------------------------------------------------------
(***************************************************************************)
(* initializeCommon, as far as it concerns the control path.               *)
(***************************************************************************)
Goto(from, to) == bpc = from /\ bpc' = to
MutexFree == bpc # "dynamic" /\ \A i \in SubHals : dpc[i] # "locked"

\* A new framework: it has been told of nothing, the old one is gone.
InitializeCall ==
  /\ Goto("idle", "static") /\ Ready
  /\ told' = {} /\ torn' = FALSE
  /\ mDynamicSensorsCallback' =
       IF mDynamicSensorsCallback = "none" THEN "none" ELSE "old"
  /\ UNCHANGED <<tableVars, modeVars, threadVars, mDynamicSensors>>

\* A joining sub-HAL returns from activate(h, false) while its thread is not in
\* one of its calls.
CanDisable(handles) ==
  \A h \in handles : \A home \in Route(h) :
    home[1] \in Joining => dpc[home[1]] = "idle"

\* disableAllSensors: the static sensors, then the dynamic ones under the mutex.
DisableStatic ==
  /\ Goto("static", "mutex") /\ CanDisable(DOMAIN mSensors \union blank)
  /\ UNCHANGED <<tableVars, modeVars, threadVars, dynamicVars>>

LockDynamic ==
  /\ Goto("mutex", "dynamic") /\ MutexFree
  /\ UNCHANGED <<tableVars, modeVars, threadVars, dynamicVars>>

DisableDynamic_Static ==    \* mutant: the static ones are disabled here, too
  /\ Goto("dynamic", "clear")
  /\ CanDisable(DOMAIN mSensors \union blank \union mDynamicSensors)
  /\ UNCHANGED <<tableVars, modeVars, threadVars, dynamicVars>>
DisableDynamic ==
  /\ Goto("dynamic", "clear") /\ CanDisable(mDynamicSensors)
  /\ UNCHANGED <<tableVars, modeVars, threadVars, dynamicVars>>

\* Line 228 does not take mDynamicSensorsMutex. Mutant: it is forgotten.
ClearDynamicSensors_Skipped ==
  /\ Goto("clear", "assign")
  /\ UNCHANGED <<tableVars, modeVars, threadVars, dynamicVars>>
ClearDynamicSensors ==
  /\ Goto("clear", "assign")
  /\ mDynamicSensors' = {}
  /\ torn' = \E i \in SubHals : dpc[i] = "locked"
  /\ dpc' = [i \in SubHals |-> IF dpc[i] = "fresh" THEN "stale" ELSE dpc[i]]
  /\ UNCHANGED <<tableVars, modeVars, dwhat, dhandles,
                 mDynamicSensorsCallback, told>>

AssignCallback ==
  /\ Goto("assign", "subHals")
  /\ mDynamicSensorsCallback' = "current"
  /\ UNCHANGED <<tableVars, modeVars, threadVars, mDynamicSensors, told, torn>>

\* initialize of a sub-HAL puts it in normal mode; those in failing do not
\* get there.
InitializeSubHals(failing) ==
  /\ Goto("subHals", "idle")
  /\ mCurrentOperationMode' = NORMAL
  /\ mode' = [i \in SubHals |-> IF i \in failing THEN mode[i] ELSE NORMAL]
  /\ strayed' = failing
  /\ UNCHANGED <<tableVars, threadVars, dynamicVars>>

-----------------------------------------------------------------------------
(***************************************************************************)
(* Sub-HAL threads: onDynamicSensorsConnected, onDynamicSensorsDisconnected. *)
(* The table is changed under mDynamicSensorsMutex, the framework is told    *)
(* after it was given up.                                                    *)
(***************************************************************************)
\* A sub-HAL reports once it was initialized the first time.
Call(i, what, reported) ==
  /\ mDynamicSensorsCallback # "none" /\ dpc[i] = "idle"
  /\ dpc' = [dpc EXCEPT ![i] = "calling"]
  /\ dwhat' = [dwhat EXCEPT ![i] = what]
  /\ dhandles' = [dhandles EXCEPT
       ![i] = {setSubHalIndex(h, i) : h \in {r \in reported :
                                               subHalIndexIsClear(r)}}]
  /\ UNCHANGED <<tableVars, modeVars, dynamicVars, bpc>>

LockTable(i) ==
  /\ dpc[i] = "calling" /\ MutexFree
  /\ dpc' = [dpc EXCEPT ![i] = "locked"]
  /\ UNCHANGED <<tableVars, modeVars, dwhat, dhandles, dynamicVars, bpc>>

UpdateTable(i) ==
  /\ dpc[i] = "locked" /\ dpc' = [dpc EXCEPT ![i] = "fresh"]
  /\ IF dwhat[i] = "connect"
     THEN /\ mDynamicSensors' = mDynamicSensors \union dhandles[i]
          /\ UNCHANGED dhandles
     ELSE /\ mDynamicSensors' = mDynamicSensors \ dhandles[i]
          /\ dhandles' = [dhandles EXCEPT ![i] = @ \intersect mDynamicSensors]
  /\ UNCHANGED <<tableVars, modeVars, dwhat, mDynamicSensorsCallback, told,
                 torn, bpc>>

\* The callback is read here, outside the mutex.
Report(i) ==
  /\ dpc[i] \in {"fresh", "stale"} /\ dpc' = [dpc EXCEPT ![i] = "idle"]
  /\ dwhat' = [dwhat EXCEPT ![i] = "connect"]
  /\ dhandles' = [dhandles EXCEPT ![i] = {}]
  /\ told' = IF mDynamicSensorsCallback # "current" THEN told
             ELSE IF dwhat[i] = "connect" THEN told \union dhandles[i]
                                          ELSE told \ dhandles[i]
  /\ torn' = \/ torn
             \/ dpc[i] = "stale" /\ mDynamicSensorsCallback = "current"
             \/ dpc[i] = "fresh" /\ bpc = "assign"
  /\ UNCHANGED <<tableVars, modeVars, mDynamicSensors, mDynamicSensorsCallback,
                 bpc>>

\* The pending-writes thread counts the wake-up events of a batch it gives up, if
\* the batch is longer than the queue. It looks their sensors up with operator[],
\* which adds those that are not there.
countNumWakeupEvents(h) ==
  /\ mDynamicSensorsCallback = "current" /\ h \in mDynamicSensors \union told
  /\ blank' = blank \union ({h} \ DOMAIN mSensors)
  /\ UNCHANGED <<loading, mSensors, mDirectChannelSubHal, modeVars, threadVars,
                 dynamicVars, bpc>>

-----------------------------------------------------------------------------
Initializing ==
  \/ DisableStatic \/ LockDynamic \/ DisableDynamic
  \/ ClearDynamicSensors \/ AssignCallback
  \/ \E failing \in SUBSET SubHals : InitializeSubHals(failing)

Binder ==
  \/ \E m \in Modes, k \in 0..SubHalCount :
       \E refusing \in SUBSET (0..(k - 1)) : SetOperationMode(m, k, refusing)
  \/ InitializeCall \/ Initializing

Counting == \E i \in Bulky \intersect SubHals : \E h \in HandlesOf(i) : countNumWakeupEvents(h)

SubHal(i) ==
  \/ \E what \in {"connect", "disconnect"} :
       \E reported \in SUBSET DynamicHandles[i] \ {{}} : Call(i, what, reported)
  \/ LockTable(i)
  \/ UpdateTable(i)
  \/ Report(i)

Next ==
  \/ LoadList \/ SkipList
  \/ Binder
  \/ \E i \in SubHals : SubHal(i)
  \/ Counting

Spec == Init /\ [][Next]_vars

\* Threads run; one that waits for a lock or for another thread gets its turn if
\* its chance comes again and again.
FairSpec ==
  /\ Spec
  /\ SF_vars(Initializing)
  /\ \A i \in SubHals :
       SF_vars(LockTable(i)) /\ WF_vars(UpdateTable(i)) /\ WF_vars(Report(i))

-----------------------------------------------------------------------------
\* Whatever handle the proxy hands out, static or dynamic, a call with it goes
\* to the sub-HAL that reported the sensor, under the handle it reported
\* (158-164, 274-288, 303-309). The one exception is the 0 that the list shows for
\* each dynamic sensor that was looked up in the table of the others (752): nobody
\* may have reported it.
RoutesHome ==
  \A h \in getSensorsList_2_1 \union mDynamicSensors \union told :
    \/ \E i \in SubHals : \E own \in OwnHandles(i) : Route(h) = {<<i, own>>}
    \/ h = 0 /\ blank # {}

\* configDirectReport clears the index of the handle and asks
\* mDirectChannelSubHal, whoever owns the sensor (336-346): for a sensor that
\* shows direct flags that is where any other call with its handle goes.
DirectFlagsOwned ==
  \A h \in DOMAIN mSensors : mSensors[h] => ConfigDirect(h) = Route(h)

\* A change of mode that fails half-way leaves no trace (147-152): between calls
\* every sub-HAL is in mCurrentOperationMode, but for those that themselves
\* refused to go back or failed to initialize since they last took a mode.
ModesAgree ==
  bpc = "idle" =>
    \A i \in SubHals \ strayed : mode[i] = mCurrentOperationMode

\* The map of dynamic sensors and the framework's idea of them differ only in
\* what a thread is about to report. The one way to part them for good is a
\* report that meets the unguarded lines 228-230: its change of the map is
\* on one side of the clear or of the new callback, and its call on the other.
TableMatchesFramework ==
  bpc \notin BeforeClear /\ ~torn =>
    \A h \in Handles :
      (h \in told <=> h \in mDynamicSensors)
        \/ \E i \in SubHals : dpc[i] \in {"fresh", "stale"} /\ h \in dhandles[i]

\* The mutex is taken after the static sensors were disabled, but kept while the
\* dynamic ones are (557-567). That can be for ever in one case only: the sub-HAL
\* of a known dynamic sensor waits for its thread, which waits for the mutex.
Embraced ==
  /\ bpc = "dynamic"
  /\ \E i \in Joining \intersect SubHals :
       dpc[i] = "calling" /\ HandlesOf(i) \intersect mDynamicSensors # {}
InitializeReturns == bpc = "static" ~> bpc = "idle" \/ Embraced

\* The embrace is a trap: no report, refusal or mode change lets either go.
EmbraceLasts == [][Embraced => Embraced']_vars

\* What initializeCommon can wait for: a sub-HAL to return from activate, or
\* the mutex. A thread goes on unless it waits for the mutex itself.
BinderWaits ==
  \/ bpc = "static"  /\ ~CanDisable(DOMAIN mSensors \union blank)
  \/ bpc = "mutex"   /\ ~MutexFree
  \/ bpc = "dynamic" /\ ~CanDisable(mDynamicSensors)
ThreadGoes(i) ==
  dpc[i] \in {"locked", "fresh", "stale"} \/ (dpc[i] = "calling" /\ MutexFree)

\* Whoever waits waits for somebody who can go on: initializeCommon (221-272)
\* and the reports of the sub-HALs (393-433) block each other in no other way.
OnlyEmbraceBlocks ==
  BinderWaits => Embraced \/ \E i \in SubHals : ThreadGoes(i)
=============================================================================
