----------------------- MODULE HalProxyControlProofs -----------------------
(***************************************************************************)
(* What HalProxyControl promises, for any sub-HALs, handles and modes.     *)
(***************************************************************************)
EXTENDS HalProxyControl, TLAPS

\* The index and the sub-HAL's own handle can be read back from a handle of
\* the proxy (setSubHalIndex, extractSubHalIndex, clearSubHalIndex).
LEMMA HandleParts ==
  ASSUME NEW i \in SubHals, NEW h \in Nat, h < HandleSpan
  PROVE  /\ h + i * HandleSpan \in Nat
         /\ extractSubHalIndex(h + i * HandleSpan) = i
         /\ clearSubHalIndex(h + i * HandleSpan) = h
BY SubHalCountAssumption, SMT
   DEF SubHals, HandleSpan, extractSubHalIndex, clearSubHalIndex

\* A handle of the proxy tells the sub-HAL and its own handle.
LEMMA HandleHome ==
  ASSUME NEW i \in SubHals, NEW h \in HandlesOf(i)
  PROVE  /\ h \in Nat
         /\ extractSubHalIndex(h) = i
         /\ clearSubHalIndex(h) \in OwnHandles(i)
<1>1. PICK own \in OwnHandles(i) : h = own + i * HandleSpan
  BY DEF HandlesOf
<1>2. own \in Nat /\ own < HandleSpan
  BY HandlesAssumption DEF OwnHandles
<1> QED BY <1>1, <1>2, HandleParts

\* A handle whose first byte is clear, from sub-HAL i, becomes one of its
\* handles.
LEMMA AddIndex ==
  ASSUME NEW i \in SubHals, NEW h \in StaticHandles[i] \union DynamicHandles[i],
         subHalIndexIsClear(h)
  PROVE  setSubHalIndex(h, i) \in HandlesOf(i)
<1>1. h \in Nat
  BY HandlesAssumption
<1>2. h < HandleSpan
  BY <1>1, SMT DEF subHalIndexIsClear, extractSubHalIndex, HandleSpan
<1> QED BY <1>1, <1>2 DEF setSubHalIndex, HandlesOf, OwnHandles

\* Where a call goes with a handle of sub-HAL i.
LEMMA RouteHome ==
  ASSUME NEW i \in SubHals, NEW h \in HandlesOf(i)
  PROVE  Route(h) = {<<i, clearSubHalIndex(h)>>}
BY HandleHome, SubHalCountAssumption DEF Route, isSubHalIndexValid, SubHals

\* Handles of different sub-HALs differ.
LEMMA HandlesDisjoint ==
  ASSUME NEW i \in SubHals, NEW j \in SubHals,
         NEW h \in HandlesOf(i), h \in HandlesOf(j)
  PROVE  i = j
BY HandleHome

-----------------------------------------------------------------------------
\* Sensors are under handles of their own sub-HAL, and only the owner's keep
\* their direct flags.
Owned ==
  \A h \in DOMAIN mSensors :
    mSensors[h] => /\ mDirectChannelSubHal # NoSubHal
                   /\ h \in HandlesOf(mDirectChannelSubHal)

Agreed == \A i \in SubHals \ strayed : mode[i] = mCurrentOperationMode

\* A thread reports its own sub-HAL's handles. Fresh means that the map shows
\* the change, stale that the map has been cleared of it.
Threads ==
  \A i \in SubHals :
    /\ dhandles[i] \subseteq HandlesOf(i)
    /\ dpc[i] = "fresh" /\ dwhat[i] = "connect" =>
         dhandles[i] \subseteq mDynamicSensors
    /\ dpc[i] = "fresh" /\ dwhat[i] = "disconnect" =>
         dhandles[i] \intersect mDynamicSensors = {}
    /\ dpc[i] = "stale" => dhandles[i] \intersect mDynamicSensors = {}

\* Which framework hears a report, by the step of initializeCommon: none yet,
\* the old one until line 230, then the new one, who until then knows nothing.
Listening ==
  /\ bpc \in BeforeClear \union {"assign"} =>
       told = {} /\ mDynamicSensorsCallback # "current"
  /\ mDynamicSensorsCallback = "none" =>
       /\ bpc # "subHals"
       /\ told = {} /\ mDynamicSensors = {}
       /\ \A i \in SubHals : dpc[i] = "idle"
  /\ mDynamicSensorsCallback = "old" => bpc \in BeforeClear \union {"assign"}

IInv == TypeOK /\ Owned /\ Agreed /\ Threads /\ Listening /\ TableMatchesFramework

-----------------------------------------------------------------------------
\* The constructor's state, before any list is read, satisfies the invariant.
LEMMA InitIInv == Init => IInv
<1> SUFFICES ASSUME Init PROVE IInv
  OBVIOUS
<1>1. TypeOK
  <2>1. loading \in 0..SubHalCount
    BY SubHalCountAssumption DEF Init
  <2>2. mode \in [SubHals -> Modes] /\ mCurrentOperationMode \in Modes
    BY ModesAssumption DEF Init
  <2>3. DOMAIN mSensors = {}
    BY DEF Init
  <2> QED BY <2>1, <2>2, <2>3 DEF Init, TypeOK, BinderStates
<1>2. Owned /\ Agreed /\ Threads
  BY DEF Init, Owned, Agreed, Threads
<1>3. Listening /\ TableMatchesFramework
  BY DEF Init, Listening, TableMatchesFramework
<1> QED BY <1>1, <1>2, <1>3 DEF IInv

\* The handles LoadList adds are of the sub-HAL whose list is read.
LEMMA LoadedHandles ==
  ASSUME NEW i \in SubHals, NEW list \in SUBSET StaticHandles[i]
  PROVE  {setSubHalIndex(h, i) : h \in {r \in list : subHalIndexIsClear(r)}}
           \subseteq HandlesOf(i)
BY AddIndex

\* The handles a report carries are of the sub-HAL that reports.
LEMMA ReportedHandles ==
  ASSUME NEW i \in SubHals, NEW reported \in SUBSET DynamicHandles[i]
  PROVE  {setSubHalIndex(h, i) : h \in {r \in reported : subHalIndexIsClear(r)}}
           \subseteq HandlesOf(i)
BY AddIndex

\* Every step keeps the types.
LEMMA TypeStep == TypeOK /\ [Next]_vars => TypeOK'
<1> SUFFICES ASSUME TypeOK, [Next]_vars PROVE TypeOK'
  OBVIOUS
<1> USE DEF TypeOK
<1>1. CASE LoadList
  <2>0. loading < SubHalCount /\ loading' = loading + 1
    BY <1>1 DEF LoadList
  <2>1. loading \in SubHals /\ loading' \in 0..SubHalCount
    BY <2>0, SubHalCountAssumption DEF SubHals
  <2>2. DOMAIN mSensors' \subseteq Handles
    BY <1>1, <2>1, LoadedHandles DEF LoadList, Handles
  <2>3. \A k \in DOMAIN mSensors' : mSensors'[k] \in BOOLEAN
    BY <1>1 DEF LoadList, KeptDirect
  <2>4. mDirectChannelSubHal' \in SubHals \union {NoSubHal}
    BY <1>1, <2>1 DEF LoadList, OwnerAfter
  <2> QED BY <1>1, <2>1, <2>2, <2>3, <2>4
       DEF LoadList, modeVars, threadVars, dynamicVars
<1>2. CASE SkipList
  <2>1. loading' \in 0..SubHalCount
    BY <1>2, SubHalCountAssumption DEF SkipList
  <2> QED BY <1>2, <2>1 DEF SkipList, modeVars, threadVars, dynamicVars
<1>3. ASSUME NEW m \in Modes, NEW k \in 0..SubHalCount,
             NEW refusing \in SUBSET (0..(k - 1)),
             SetOperationMode(m, k, refusing)
      PROVE  TypeOK'
  <2>1. refusing \subseteq SubHals
    BY SubHalCountAssumption DEF SubHals
  <2>2. mode' \in [SubHals -> Modes]
    BY <1>3 DEF SetOperationMode
  <2>3. strayed' \subseteq SubHals /\ mCurrentOperationMode' \in Modes
    BY <1>3, <2>1 DEF SetOperationMode
  <2> QED BY <1>3, <2>2, <2>3
       DEF SetOperationMode, tableVars, threadVars, dynamicVars
<1>4. CASE InitializeCall
  BY <1>4 DEF InitializeCall, Goto, BinderStates, BeforeClear, tableVars, modeVars,
              threadVars
<1>5. CASE DisableStatic \/ LockDynamic \/ DisableDynamic
  BY <1>5 DEF DisableStatic, LockDynamic, DisableDynamic, Goto, BinderStates,
              BeforeClear, tableVars, modeVars, threadVars, dynamicVars
<1>6. CASE ClearDynamicSensors
  BY <1>6 DEF ClearDynamicSensors, Goto, BinderStates, tableVars, modeVars
<1>7. CASE AssignCallback
  BY <1>7 DEF AssignCallback, Goto, BinderStates, tableVars, modeVars, threadVars
<1>8. ASSUME NEW failing \in SUBSET SubHals, InitializeSubHals(failing)
      PROVE  TypeOK'
  BY <1>8, ModesAssumption
     DEF InitializeSubHals, Goto, BinderStates, tableVars, threadVars, dynamicVars
<1>9. ASSUME NEW i \in SubHals, NEW what \in {"connect", "disconnect"},
             NEW reported \in SUBSET DynamicHandles[i],
             Call(i, what, reported)
      PROVE  TypeOK'
  <2>1. dhandles' \in [SubHals -> SUBSET Handles]
    BY <1>9, ReportedHandles DEF Call, Handles
  <2> QED BY <1>9, <2>1 DEF Call, tableVars, modeVars, dynamicVars
<1>10. ASSUME NEW i \in SubHals, UpdateTable(i) PROVE TypeOK'
  BY <1>10 DEF UpdateTable, tableVars, modeVars
<1>11. ASSUME NEW i \in SubHals, Report(i) PROVE TypeOK'
  <2>1. told' \subseteq Handles
    BY <1>11 DEF Report
  <2>2. torn' \in BOOLEAN
    BY <1>11 DEF Report
  <2> QED BY <1>11, <2>1, <2>2 DEF Report, tableVars, modeVars
<1>12. ASSUME NEW i \in SubHals, LockTable(i) PROVE TypeOK'
  BY <1>12 DEF LockTable, tableVars, modeVars, dynamicVars
<1>13. CASE UNCHANGED vars
  BY <1>13 DEF vars, tableVars, modeVars, threadVars, dynamicVars
<1>14. CASE Counting
  <2>1. PICK h \in mDynamicSensors \union told : countNumWakeupEvents(h)
    BY <1>14 DEF Counting, countNumWakeupEvents
  <2>2. blank' \subseteq Handles
    BY <2>1 DEF countNumWakeupEvents
  <2> QED BY <2>1, <2>2 DEF countNumWakeupEvents, modeVars, threadVars, dynamicVars
<1> QED BY <1>1, <1>2, <1>3, <1>4, <1>5, <1>6, <1>7, <1>8, <1>9, <1>10, <1>11,
           <1>12, <1>13, <1>14 DEF Next, Binder, Initializing, SubHal

-----------------------------------------------------------------------------
\* Lists are read one after another, so the first owner of the direct channels
\* keeps them, and no later step touches the table.
LEMMA OwnedStep == TypeOK /\ Owned /\ [Next]_vars => Owned'
<1> SUFFICES ASSUME TypeOK, Owned, [Next]_vars PROVE Owned'
  OBVIOUS
<1>1. CASE LoadList
  <2> DEFINE ours   == {setSubHalIndex(h, loading) :
                          h \in {r \in StaticHandles[loading] : subHalIndexIsClear(r)}}
             direct == {setSubHalIndex(h, loading) :
                          h \in {r \in StaticHandles[loading] : subHalIndexIsClear(r)}
                                  \intersect DirectHandles[loading]}
  <2>1. loading \in SubHals
    <3>1. loading \in 0..SubHalCount /\ loading < SubHalCount
      BY <1>1 DEF LoadList, TypeOK
    <3> QED BY <3>1, SubHalCountAssumption, SMT DEF SubHals
  <2>2. NoSubHal \notin SubHals
    BY SubHalCountAssumption, SMT DEF NoSubHal, SubHals
  <2>3. mDirectChannelSubHal' = OwnerAfter(loading, direct # {})
    BY <1>1 DEF LoadList
  <2>4. mSensors' = [k \in DOMAIN mSensors \union ours |->
                       IF k \in ours THEN KeptDirect(loading, k \in direct)
                                    ELSE mSensors[k]]
    BY <1>1 DEF LoadList
  <2> SUFFICES ASSUME NEW k \in DOMAIN mSensors', mSensors'[k]
               PROVE  /\ mDirectChannelSubHal' # NoSubHal
                      /\ k \in HandlesOf(mDirectChannelSubHal')
    BY DEF Owned, HandlesOf, OwnHandles
  <2>5. CASE k \in ours
    <3>1. k \in direct /\ mDirectChannelSubHal \in {NoSubHal, loading}
      BY <2>4, <2>5 DEF KeptDirect
    <3>2. mDirectChannelSubHal' = loading
      BY <2>3, <3>1 DEF OwnerAfter
    <3>3. k \in HandlesOf(loading)
      BY <2>1, <2>5, LoadedHandles
    <3> QED BY <2>1, <2>2, <3>2, <3>3
  <2>6. CASE k \notin ours
    <3>1. k \in DOMAIN mSensors /\ mSensors[k]
      BY <2>4, <2>6
    <3>2. mDirectChannelSubHal' = mDirectChannelSubHal
      BY <2>3, <3>1 DEF Owned, OwnerAfter
    <3> QED BY <3>1, <3>2 DEF Owned
  <2> QED BY <2>5, <2>6
<1>2. CASE UNCHANGED <<mSensors, mDirectChannelSubHal>>
  BY <1>2 DEF Owned, HandlesOf, OwnHandles
<1>3. CASE \/ SkipList \/ Binder \/ (\E i \in SubHals : SubHal(i)) \/ Counting
           \/ UNCHANGED vars
  BY <1>2, <1>3
     DEF Counting, countNumWakeupEvents, SkipList, Binder, SetOperationMode, InitializeCall, Initializing,
         DisableStatic, LockDynamic, DisableDynamic, ClearDynamicSensors,
         AssignCallback, InitializeSubHals, SubHal, Call, LockTable, UpdateTable,
         Report, vars, tableVars
<1> QED BY <1>1, <1>3 DEF Next

\* A mode change reaches every sub-HAL, or those it reached go back.
LEMMA AgreedStep == TypeOK /\ Agreed /\ [Next]_vars => Agreed'
<1> SUFFICES ASSUME TypeOK, Agreed, [Next]_vars PROVE Agreed'
  OBVIOUS
<1>1. ASSUME NEW m \in Modes, NEW k \in 0..SubHalCount,
             NEW refusing \in SUBSET (0..(k - 1)),
             SetOperationMode(m, k, refusing)
      PROVE  Agreed'
  <2>1. CASE k = SubHalCount
    BY <1>1, <2>1 DEF SetOperationMode, Agreed
  <2>2. CASE k # SubHalCount
    <3> SUFFICES ASSUME NEW i \in SubHals, i \notin strayed'
                 PROVE  mode'[i] = mCurrentOperationMode'
      BY DEF Agreed
    <3>1. i \notin refusing /\ (i >= k => i \notin strayed)
      BY <1>1, <2>2 DEF SetOperationMode
    <3>2. i >= k \/ i < k
      BY SubHalCountAssumption, SMT DEF SubHals
    <3>3. mCurrentOperationMode' = mCurrentOperationMode
      BY <1>1, <2>2 DEF SetOperationMode
    <3>4. CASE i >= k
      BY <1>1, <2>2, <3>1, <3>3, <3>4 DEF SetOperationMode, Agreed
    <3>5. CASE i < k
      <4>1. ~(i >= k)
        BY <3>5, SubHalCountAssumption, SMT DEF SubHals
      <4> QED BY <1>1, <2>2, <3>1, <3>3, <3>5, <4>1
           DEF SetOperationMode, RolledBack
    <3> QED BY <3>2, <3>4, <3>5
  <2> QED BY <2>1, <2>2
<1>2. ASSUME NEW failing \in SUBSET SubHals, InitializeSubHals(failing)
      PROVE  Agreed'
  BY <1>2 DEF InitializeSubHals, Agreed
<1>3. CASE UNCHANGED modeVars
  BY <1>3 DEF Agreed, modeVars
<1>4. CASE \/ LoadList \/ SkipList \/ InitializeCall \/ DisableStatic \/ LockDynamic
           \/ DisableDynamic \/ ClearDynamicSensors \/ AssignCallback
           \/ (\E i \in SubHals : SubHal(i)) \/ Counting \/ UNCHANGED vars
  BY <1>3, <1>4
     DEF Counting, countNumWakeupEvents, LoadList, SkipList, InitializeCall, DisableStatic, LockDynamic,
         DisableDynamic, ClearDynamicSensors, AssignCallback, SubHal, Call,
         LockTable, UpdateTable, Report, vars
<1> QED BY <1>1, <1>2, <1>4 DEF Next, Binder, Initializing

\* What a thread carries stays its own, and stays in or out of the map as the
\* thread left it, or the clear did: the others change other handles.
LEMMA ThreadsStep == TypeOK /\ Threads /\ [Next]_vars => Threads'
<1> SUFFICES ASSUME TypeOK, Threads, [Next]_vars PROVE Threads'
  OBVIOUS
<1> USE DEF TypeOK
<1>1. ASSUME NEW i \in SubHals, NEW what \in {"connect", "disconnect"},
             NEW reported \in SUBSET DynamicHandles[i],
             Call(i, what, reported)
      PROVE  Threads'
  <2>1. dhandles'[i] \subseteq HandlesOf(i) /\ dpc'[i] = "calling"
    BY <1>1, ReportedHandles DEF Call
  <2>2. \A j \in SubHals \ {i} : /\ dhandles'[j] = dhandles[j]
                                 /\ dpc'[j] = dpc[j] /\ dwhat'[j] = dwhat[j]
    BY <1>1 DEF Call
  <2>3. mDynamicSensors' = mDynamicSensors
    BY <1>1 DEF Call, dynamicVars
  <2> QED BY <2>1, <2>2, <2>3 DEF Threads, HandlesOf, OwnHandles
<1>2. ASSUME NEW i \in SubHals, UpdateTable(i) PROVE Threads'
  <2>1. \A j \in SubHals \ {i} : /\ dhandles'[j] = dhandles[j]
                                 /\ dpc'[j] = dpc[j] /\ dwhat'[j] = dwhat[j]
    BY <1>2 DEF UpdateTable
  <2>2. \A j \in SubHals \ {i} : dhandles[j] \intersect dhandles[i] = {}
    BY HandlesDisjoint DEF Threads
  <2>3. dpc'[i] = "fresh" /\ dwhat'[i] = dwhat[i]
    BY <1>2 DEF UpdateTable
  <2>4. CASE dwhat[i] = "connect"
    <3>1. /\ mDynamicSensors' = mDynamicSensors \union dhandles[i]
          /\ dhandles'[i] = dhandles[i]
      BY <1>2, <2>4 DEF UpdateTable
    <3> QED BY <2>1, <2>2, <2>3, <2>4, <3>1 DEF Threads, HandlesOf, OwnHandles
  <2>5. CASE dwhat[i] # "connect"
    <3>1. /\ mDynamicSensors' = mDynamicSensors \ dhandles[i]
          /\ dhandles'[i] = dhandles[i] \intersect mDynamicSensors
      BY <1>2, <2>5 DEF UpdateTable
    <3> QED BY <2>1, <2>2, <2>3, <2>5, <3>1 DEF Threads, HandlesOf, OwnHandles
  <2> QED BY <2>4, <2>5
<1>3. ASSUME NEW i \in SubHals, Report(i) PROVE Threads'
  <2>1. \A j \in SubHals \ {i} : /\ dhandles'[j] = dhandles[j]
                                 /\ dpc'[j] = dpc[j] /\ dwhat'[j] = dwhat[j]
    BY <1>3 DEF Report
  <2>2. dpc'[i] = "idle" /\ dhandles'[i] = {}
    BY <1>3 DEF Report
  <2>3. mDynamicSensors' = mDynamicSensors
    BY <1>3 DEF Report
  <2> QED BY <2>1, <2>2, <2>3 DEF Threads, HandlesOf, OwnHandles
<1>4. CASE ClearDynamicSensors
  <2>1. mDynamicSensors' = {} /\ dhandles' = dhandles /\ dwhat' = dwhat
    BY <1>4 DEF ClearDynamicSensors
  <2>2. \A i \in SubHals : dpc'[i] # "fresh"
    BY <1>4 DEF ClearDynamicSensors
  <2> QED BY <2>1, <2>2 DEF Threads, HandlesOf, OwnHandles
<1>5. CASE UNCHANGED <<threadVars, mDynamicSensors>>
  BY <1>5 DEF Threads, threadVars, HandlesOf, OwnHandles
<1>6. CASE \/ LoadList \/ SkipList \/ InitializeCall \/ DisableStatic \/ LockDynamic
           \/ DisableDynamic \/ AssignCallback \/ Counting \/ UNCHANGED vars
           \/ \E m \in Modes, k \in 0..SubHalCount :
                \E refusing \in SUBSET (0..(k - 1)) :
                  SetOperationMode(m, k, refusing)
           \/ \E failing \in SUBSET SubHals : InitializeSubHals(failing)
  BY <1>5, <1>6
     DEF Counting, countNumWakeupEvents, LoadList, SkipList, InitializeCall, DisableStatic, LockDynamic,
         DisableDynamic, AssignCallback, SetOperationMode, InitializeSubHals, vars,
         dynamicVars
<1>7. ASSUME NEW i \in SubHals, LockTable(i) PROVE Threads'
  <2>1. /\ dpc'[i] = "locked" /\ \A j \in SubHals \ {i} : dpc'[j] = dpc[j]
        /\ UNCHANGED <<dwhat, dhandles, mDynamicSensors>>
    BY <1>7 DEF LockTable, dynamicVars
  <2> QED BY <2>1 DEF Threads, HandlesOf, OwnHandles
<1> QED BY <1>1, <1>2, <1>3, <1>4, <1>6, <1>7 DEF Next, Binder, Initializing, SubHal

\* initializeCommon drops the old callback before it installs the new one, and
\* no thread reports to a callback that is not the current one.
LEMMA ListeningStep == TypeOK /\ Listening /\ [Next]_vars => Listening'
<1> SUFFICES ASSUME TypeOK, Listening, [Next]_vars PROVE Listening'
  OBVIOUS
<1> USE DEF TypeOK, Listening, BeforeClear
<1>1. CASE UNCHANGED <<bpc, dpc, dynamicVars>>
  BY <1>1 DEF dynamicVars
<1>2. CASE InitializeCall
  BY <1>2 DEF InitializeCall, Goto, threadVars
<1>3. CASE DisableStatic \/ LockDynamic \/ DisableDynamic
  BY <1>3 DEF DisableStatic, LockDynamic, DisableDynamic, Goto, threadVars,
              dynamicVars
<1>4. CASE ClearDynamicSensors
  BY <1>4 DEF ClearDynamicSensors, Goto
<1>5. CASE AssignCallback
  BY <1>5 DEF AssignCallback, Goto
<1>6. ASSUME NEW failing \in SUBSET SubHals, InitializeSubHals(failing)
      PROVE  Listening'
  BY <1>6 DEF InitializeSubHals, Goto, dynamicVars, threadVars
<1>7. ASSUME NEW i \in SubHals, NEW what \in {"connect", "disconnect"},
             NEW reported \in SUBSET DynamicHandles[i],
             Call(i, what, reported)
      PROVE  Listening'
  BY <1>7 DEF Call, dynamicVars
<1>8. ASSUME NEW i \in SubHals, UpdateTable(i) PROVE Listening'
  <2>1. mDynamicSensorsCallback # "none"
    BY <1>8 DEF UpdateTable
  <2> QED BY <1>8, <2>1 DEF UpdateTable
<1>9. ASSUME NEW i \in SubHals, Report(i) PROVE Listening'
  <2>1. mDynamicSensorsCallback # "none"
    BY <1>9 DEF Report
  <2>2. mDynamicSensorsCallback # "current" => told' = told
    BY <1>9 DEF Report
  <2> QED BY <1>9, <2>1, <2>2 DEF Report
<1>10. CASE \/ LoadList \/ SkipList \/ Counting \/ UNCHANGED vars
            \/ \E m \in Modes, k \in 0..SubHalCount :
                 \E refusing \in SUBSET (0..(k - 1)) :
                   SetOperationMode(m, k, refusing)
  BY <1>1, <1>10 DEF Counting, countNumWakeupEvents, LoadList, SkipList, SetOperationMode, vars, threadVars
<1>11. ASSUME NEW i \in SubHals, LockTable(i) PROVE Listening'
  <2>1. mDynamicSensorsCallback # "none"
    BY <1>11 DEF LockTable
  <2> QED BY <1>11, <2>1 DEF LockTable, dynamicVars
<1> QED BY <1>2, <1>3, <1>4, <1>5, <1>6, <1>7, <1>8, <1>9, <1>10, <1>11
        DEF Next, Binder, Initializing, SubHal

\* A handle on its way to the framework.
Pending(h) == \E i \in SubHals : dpc[i] \in {"fresh", "stale"} /\ h \in dhandles[i]

\* A report that is neither cut by the clear nor by the new callback closes the
\* gap between map and framework that its change of the map opened.
LEMMA MatchesStep ==
  TypeOK /\ Threads /\ Listening /\ TableMatchesFramework /\ [Next]_vars
    => TableMatchesFramework'
<1> SUFFICES ASSUME TypeOK, Threads, Listening, TableMatchesFramework,
                    [Next]_vars
             PROVE  TableMatchesFramework'
  OBVIOUS
<1> USE DEF TypeOK, BeforeClear
<1>1. CASE UNCHANGED <<bpc, dpc, dhandles, dynamicVars>>
  BY <1>1 DEF dynamicVars, TableMatchesFramework, Handles, HandlesOf, OwnHandles
<1>2. CASE InitializeCall \/ DisableStatic \/ LockDynamic \/ DisableDynamic
  BY <1>2 DEF InitializeCall, DisableStatic, LockDynamic, DisableDynamic, Goto,
              TableMatchesFramework
<1>3. CASE ClearDynamicSensors
  <2>1. told' = {} /\ mDynamicSensors' = {}
    BY <1>3 DEF ClearDynamicSensors, Goto, Listening
  <2> QED BY <2>1 DEF TableMatchesFramework
<1>4. CASE AssignCallback
  BY <1>4 DEF AssignCallback, Goto, threadVars, TableMatchesFramework, Handles,
              HandlesOf, OwnHandles
<1>5. ASSUME NEW failing \in SUBSET SubHals, InitializeSubHals(failing)
      PROVE  TableMatchesFramework'
  BY <1>5 DEF InitializeSubHals, Goto, dynamicVars, threadVars,
              TableMatchesFramework, Handles, HandlesOf, OwnHandles
<1>6. ASSUME NEW i \in SubHals, NEW what \in {"connect", "disconnect"},
             NEW reported \in SUBSET DynamicHandles[i],
             Call(i, what, reported)
      PROVE  TableMatchesFramework'
  <2>1. dpc[i] = "idle"
    BY <1>6 DEF Call
  <2>2. \A j \in SubHals \ {i} : dhandles'[j] = dhandles[j] /\ dpc'[j] = dpc[j]
    BY <1>6 DEF Call
  <2>3. UNCHANGED <<bpc, dynamicVars>>
    BY <1>6 DEF Call
  <2>4. \A h : Pending(h) => Pending(h)'
    BY <2>1, <2>2 DEF Pending
  <2> QED BY <2>3, <2>4 DEF dynamicVars, TableMatchesFramework, Pending, Handles,
                            HandlesOf, OwnHandles
<1>7. ASSUME NEW i \in SubHals, UpdateTable(i) PROVE TableMatchesFramework'
  <2> SUFFICES ASSUME bpc \notin BeforeClear, ~torn, NEW h \in Handles
               PROVE  (h \in told <=> h \in mDynamicSensors') \/ Pending(h)'
    BY <1>7 DEF UpdateTable, TableMatchesFramework, Pending, Handles, HandlesOf,
                OwnHandles
  <2>1. dpc[i] = "locked" /\ dpc'[i] = "fresh"
    BY <1>7 DEF UpdateTable
  <2>2. \A j \in SubHals \ {i} : dhandles'[j] = dhandles[j] /\ dpc'[j] = dpc[j]
    BY <1>7 DEF UpdateTable
  <2>3. Pending(h) => Pending(h)'
    BY <2>1, <2>2 DEF Pending
  <2>4. h \notin dhandles'[i] => (h \in mDynamicSensors' <=> h \in mDynamicSensors)
    BY <1>7 DEF UpdateTable
  <2>5. h \in dhandles'[i] => Pending(h)'
    BY <2>1 DEF Pending
  <2> QED BY <2>3, <2>4, <2>5 DEF TableMatchesFramework, Pending
<1>8. ASSUME NEW i \in SubHals, Report(i) PROVE TableMatchesFramework'
  <2> SUFFICES ASSUME bpc \notin BeforeClear, ~torn', NEW h \in Handles
               PROVE  (h \in told' <=> h \in mDynamicSensors) \/ Pending(h)'
    BY <1>8 DEF Report, TableMatchesFramework, Pending, Handles, HandlesOf,
                OwnHandles
  <2>1. /\ ~torn
        /\ dpc[i] = "stale" => mDynamicSensorsCallback # "current"
        /\ dpc[i] = "fresh" => bpc # "assign"
    BY <1>8 DEF Report
  <2>2. dpc[i] \in {"fresh", "stale"}
    BY <1>8 DEF Report
  <2>3. \A j \in SubHals \ {i} : dhandles'[j] = dhandles[j] /\ dpc'[j] = dpc[j]
    BY <1>8 DEF Report
  <2>4. CASE h \notin dhandles[i]
    <3>1. h \in told' <=> h \in told
      BY <1>8, <2>4 DEF Report
    <3>2. Pending(h) => Pending(h)'
      BY <2>3, <2>4 DEF Pending
    <3> QED BY <2>1, <3>1, <3>2 DEF TableMatchesFramework, Pending
  <2>5. CASE h \in dhandles[i] /\ mDynamicSensorsCallback = "current"
    <3>1. dpc[i] = "fresh"
      BY <2>1, <2>2, <2>5
    <3>2. CASE dwhat[i] = "connect"
      BY <1>8, <2>5, <3>1, <3>2 DEF Report, Threads
    <3>3. CASE dwhat[i] = "disconnect"
      BY <1>8, <2>5, <3>1, <3>3 DEF Report, Threads
    <3> QED BY <3>2, <3>3
  <2>6. CASE h \in dhandles[i] /\ mDynamicSensorsCallback # "current"
    <3>1. mDynamicSensorsCallback = "old"
      BY <2>2, <2>6 DEF Listening
    <3>2. bpc = "assign" /\ dpc[i] = "stale"
      BY <2>1, <2>2, <3>1 DEF Listening
    <3>3. h \notin told'
      BY <1>8, <2>6, <3>2 DEF Report, Listening
    <3>4. h \notin mDynamicSensors
      BY <2>6, <3>2 DEF Threads
    <3> QED BY <3>3, <3>4
  <2> QED BY <2>4, <2>5, <2>6
<1>9. CASE \/ LoadList \/ SkipList \/ Counting \/ UNCHANGED vars
           \/ \E m \in Modes, k \in 0..SubHalCount :
                \E refusing \in SUBSET (0..(k - 1)) :
                  SetOperationMode(m, k, refusing)
  BY <1>1, <1>9 DEF Counting, countNumWakeupEvents, LoadList, SkipList, SetOperationMode, vars, threadVars
<1>10. ASSUME NEW i \in SubHals, LockTable(i) PROVE TableMatchesFramework'
  <2>1. dpc[i] = "calling" /\ UNCHANGED <<bpc, dhandles, dynamicVars>>
    BY <1>10 DEF LockTable
  <2>2. \A j \in SubHals \ {i} : dpc'[j] = dpc[j]
    BY <1>10 DEF LockTable
  <2>3. \A h : Pending(h) => Pending(h)'
    BY <2>1, <2>2 DEF Pending
  <2> QED BY <2>1, <2>3 DEF dynamicVars, TableMatchesFramework, Pending, Handles,
                            HandlesOf, OwnHandles
<1> QED BY <1>2, <1>3, <1>4, <1>5, <1>6, <1>7, <1>8, <1>9, <1>10
        DEF Next, Binder, Initializing, SubHal

\* The invariant is inductive.
LEMMA IInvStep == IInv /\ [Next]_vars => IInv'
BY TypeStep, OwnedStep, AgreedStep, ThreadsStep, ListeningStep, MatchesStep
   DEF IInv

\* It holds of every reachable state.
THEOREM ControlInvariant == Spec => []IInv
BY InitIInv, IInvStep, PTL DEF Spec

\* Type correctness: above all, that every handle the proxy keeps, carries or
\* has given away is one it made of a sub-HAL's own.
THEOREM ControlTypeCorrect == Spec => []TypeOK
<1>1. IInv => TypeOK
  BY DEF IInv
<1> QED BY <1>1, ControlInvariant, PTL

\* A call with any handle the proxy handed out goes to the sub-HAL that
\* reported the sensor, under its own handle, but for the 0 of an empty entry.
THEOREM CallsRouteHome == Spec => []RoutesHome
<1>1. IInv => RoutesHome
  <2> SUFFICES ASSUME IInv, NEW h \in DOMAIN mSensors \union mDynamicSensors \union told
               PROVE  \E i \in SubHals : \E own \in OwnHandles(i) :
                        Route(h) = {<<i, own>>}
    BY DEF RoutesHome, getSensorsList_2_1
  <2>1. PICK i \in SubHals : h \in HandlesOf(i)
    BY DEF IInv, TypeOK, Handles
  <2> QED BY <2>1, HandleHome, RouteHome
<1> QED BY <1>1, ControlInvariant, PTL

\* Only the sub-HAL that owns the direct channels has sensors with direct
\* flags, so configDirectReport reaches the sensor's own sub-HAL.
THEOREM DirectChannelsOwned == Spec => []DirectFlagsOwned
<1>1. IInv => DirectFlagsOwned
  <2> SUFFICES ASSUME IInv, NEW h \in DOMAIN mSensors, mSensors[h]
               PROVE  ConfigDirect(h) = Route(h)
    BY DEF DirectFlagsOwned
  <2>1. /\ mDirectChannelSubHal \in SubHals
        /\ mDirectChannelSubHal # NoSubHal
        /\ h \in HandlesOf(mDirectChannelSubHal)
    BY DEF IInv, TypeOK, Owned
  <2> QED BY <2>1, RouteHome DEF ConfigDirect
<1> QED BY <1>1, ControlInvariant, PTL

\* Between calls the sub-HALs that did what they were asked are all in the
\* proxy's mode, however many changes of mode failed half-way.
THEOREM ModeChangesAgree == Spec => []ModesAgree
<1>1. IInv => ModesAgree
  BY DEF IInv, Agreed, ModesAgree
<1> QED BY <1>1, ControlInvariant, PTL

\* Framework and map agree on the dynamic sensors but for what is on its way,
\* unless a report met the unguarded lines of initializeCommon.
THEOREM DynamicTableMatches == Spec => []TableMatchesFramework
<1>1. IInv => TableMatchesFramework
  BY DEF IInv
<1> QED BY <1>1, ControlInvariant, PTL

-----------------------------------------------------------------------------
\* mDynamicSensorsMutex has one holder: initializeCommon or one report.
TableMutexHeldOnce ==
  /\ bpc = "dynamic" => \A i \in SubHals : dpc[i] # "locked"
  /\ \A i, j \in SubHals : dpc[i] = "locked" /\ dpc[j] = "locked" => i = j

\* Every step keeps it: both take the mutex when it is free only.
LEMMA TableMutexStep ==
  TypeOK /\ TableMutexHeldOnce /\ [Next]_vars => TableMutexHeldOnce'
<1> SUFFICES ASSUME TypeOK, TableMutexHeldOnce, [Next]_vars
             PROVE  TableMutexHeldOnce'
  OBVIOUS
<1> USE DEF TypeOK, TableMutexHeldOnce
<1>1. CASE /\ bpc' = "dynamic" => bpc = "dynamic"
           /\ \A i \in SubHals : dpc'[i] = "locked" => dpc[i] = "locked"
  BY <1>1
<1>2. CASE LockDynamic
  BY <1>2 DEF LockDynamic, MutexFree, Goto, threadVars
<1>3. ASSUME NEW i \in SubHals, LockTable(i) PROVE TableMutexHeldOnce'
  <2>1. /\ bpc' # "dynamic" /\ \A j \in SubHals : dpc[j] # "locked"
        /\ \A j \in SubHals \ {i} : dpc'[j] = dpc[j]
    BY <1>3 DEF LockTable, MutexFree
  <2> QED BY <2>1
<1>4. CASE InitializeCall \/ Initializing
  <2>1. CASE ~LockDynamic
    <3>1. /\ bpc' # "dynamic"
          /\ \A i \in SubHals : dpc'[i] = "locked" => dpc[i] = "locked"
      BY <1>4, <2>1 DEF InitializeCall, Initializing, DisableStatic,
         DisableDynamic, ClearDynamicSensors, AssignCallback,
         InitializeSubHals, Goto, threadVars
    <3> QED BY <1>1, <3>1
  <2> QED BY <1>2, <2>1
<1>5. ASSUME NEW i \in SubHals, SubHal(i) PROVE TableMutexHeldOnce'
  <2>1. CASE ~LockTable(i)
    <3>1. /\ bpc' = bpc
          /\ \A j \in SubHals : dpc'[j] = "locked" => dpc[j] = "locked"
      BY <1>5, <2>1 DEF SubHal, Call, UpdateTable, Report
    <3> QED BY <1>1, <3>1
  <2> QED BY <1>3, <2>1
<1>6. CASE \/ LoadList \/ SkipList \/ Counting \/ UNCHANGED vars
           \/ \E m \in Modes, k \in 0..SubHalCount :
                \E refusing \in SUBSET (0..(k - 1)) :
                  SetOperationMode(m, k, refusing)
  <2>1. UNCHANGED <<bpc, dpc>>
    BY <1>6 DEF LoadList, SkipList, Counting, countNumWakeupEvents,
       SetOperationMode, vars, threadVars
  <2> QED BY <1>1, <2>1
<1> QED BY <1>4, <1>5, <1>6 DEF Next, Binder

\* It holds of every reachable state.
THEOREM TableMutexCorrect == Spec => []TableMutexHeldOnce
<1>1. Init => TableMutexHeldOnce
  BY DEF Init, TableMutexHeldOnce
<1>2. IInv => TypeOK
  BY DEF IInv
<1> QED BY <1>1, <1>2, TableMutexStep, ControlInvariant, PTL DEF Spec

\* activate returns from a sub-HAL that waits for its thread once the thread is
\* out of its calls, not before.
LEMMA JoiningBlocks ==
  ASSUME NEW i \in Joining \intersect SubHals, dpc[i] # "idle",
         NEW handles, HandlesOf(i) \intersect handles # {}
  PROVE  ~CanDisable(handles)
<1>1. PICK h \in HandlesOf(i) : h \in handles
  OBVIOUS
<1>2. <<i, clearSubHalIndex(h)>> \in Route(h)
  BY RouteHome
<1>3. <<i, clearSubHalIndex(h)>>[1] = i
  OBVIOUS
<1> QED BY <1>1, <1>2, <1>3 DEF CanDisable

\* And from the others it returns: who keeps initializeCommon in activate is a
\* joining sub-HAL of one of the sensors, with its thread in a call.
LEMMA BlockedByJoining ==
  ASSUME NEW handles \in SUBSET Handles, ~CanDisable(handles)
  PROVE  \E i \in Joining \intersect SubHals :
           dpc[i] # "idle" /\ HandlesOf(i) \intersect handles # {}
<1>1. PICK h \in handles : \E home \in Route(h) :
        home[1] \in Joining /\ dpc[home[1]] # "idle"
  BY DEF CanDisable
<1>2. PICK i \in SubHals : h \in HandlesOf(i)
  BY DEF Handles
<1>3. Route(h) = {<<i, clearSubHalIndex(h)>>}
  BY <1>2, RouteHome
<1>4. <<i, clearSubHalIndex(h)>>[1] = i
  OBVIOUS
<1>5. i \in Joining /\ dpc[i] # "idle"
  BY <1>1, <1>3, <1>4
<1> QED BY <1>2, <1>5

\* While initializeCommon holds the mutex and waits for the thread that waits
\* for the mutex, no step of anybody changes the map, frees the mutex or moves
\* the thread.
LEMMA EmbraceStep ==
  TypeOK /\ TableMutexHeldOnce /\ [Next]_vars => (Embraced => Embraced')
<1> SUFFICES ASSUME TypeOK, TableMutexHeldOnce, [Next]_vars, Embraced
             PROVE  Embraced'
  OBVIOUS
<1> USE DEF TypeOK
<1>1. PICK i \in Joining \intersect SubHals :
        dpc[i] = "calling" /\ HandlesOf(i) \intersect mDynamicSensors # {}
  BY DEF Embraced
<1>2. bpc = "dynamic" /\ \A j \in SubHals : dpc[j] # "locked"
  BY DEF Embraced, TableMutexHeldOnce
<1>3. CASE bpc' = bpc /\ dpc'[i] = dpc[i] /\ mDynamicSensors' = mDynamicSensors
  BY <1>1, <1>2, <1>3 DEF Embraced, HandlesOf, OwnHandles
<1>4. CASE InitializeCall \/ Initializing
  <2>1. ~CanDisable(mDynamicSensors)
    BY <1>1, JoiningBlocks
  <2> QED BY <1>2, <1>4, <2>1
       DEF InitializeCall, Initializing, DisableStatic, LockDynamic,
           DisableDynamic, ClearDynamicSensors, AssignCallback,
           InitializeSubHals, Goto
<1>5. ASSUME NEW j \in SubHals, SubHal(j) PROVE Embraced'
  <2>1. ~LockTable(j) /\ ~UpdateTable(j)
    BY <1>2 DEF LockTable, UpdateTable, MutexFree
  <2>2. CASE j = i
    BY <1>1, <1>5, <2>1, <2>2 DEF SubHal, Call, Report
  <2>3. CASE j # i
    <3>1. bpc' = bpc /\ dpc'[i] = dpc[i] /\ mDynamicSensors' = mDynamicSensors
      BY <1>5, <2>1, <2>3 DEF SubHal, Call, Report, dynamicVars
    <3> QED BY <1>3, <3>1
  <2> QED BY <2>2, <2>3
<1>6. CASE \/ LoadList \/ SkipList \/ Counting \/ UNCHANGED vars
           \/ \E m \in Modes, k \in 0..SubHalCount :
                \E refusing \in SUBSET (0..(k - 1)) :
                  SetOperationMode(m, k, refusing)
  <2>1. UNCHANGED <<bpc, dpc, mDynamicSensors>>
    BY <1>6 DEF LoadList, SkipList, Counting, countNumWakeupEvents,
       SetOperationMode, vars, threadVars, dynamicVars
  <2> QED BY <1>3, <2>1
<1> QED BY <1>4, <1>5, <1>6 DEF Next, Binder

\* The deadlock between disableAllSensors and a report is for ever.
THEOREM EmbraceIsForever == Spec => EmbraceLasts
<1>1. IInv /\ TableMutexHeldOnce /\ [Next]_vars => [Embraced => Embraced']_vars
  BY EmbraceStep DEF IInv
<1> QED BY ControlInvariant, TableMutexCorrect, <1>1, PTL DEF Spec, EmbraceLasts

\* And it is the only one: in every other state in which initializeCommon waits,
\* the thread of some sub-HAL can go on. The safety half of InitializeReturns.
THEOREM NoOtherDeadlock == Spec => []OnlyEmbraceBlocks
<1>1. IInv => OnlyEmbraceBlocks
  <2> SUFFICES ASSUME IInv, BinderWaits, \A i \in SubHals : ~ThreadGoes(i)
               PROVE  Embraced
    BY DEF OnlyEmbraceBlocks
  <2>1. \A i \in SubHals : dpc[i] = "idle" \/ (dpc[i] = "calling" /\ ~MutexFree)
    BY DEF IInv, TypeOK, ThreadGoes
  <2>2. bpc = "dynamic" /\ ~CanDisable(mDynamicSensors)
    <3>1. CASE bpc # "dynamic"
      <4>1. MutexFree
        BY <2>1, <3>1 DEF MutexFree
      <4>2. bpc = "static" /\ ~CanDisable(DOMAIN mSensors \union blank)
        BY <3>1, <4>1 DEF BinderWaits
      <4>3. \E i \in SubHals : dpc[i] # "idle"
        <5>1. DOMAIN mSensors \union blank \subseteq Handles
          BY DEF IInv, TypeOK
        <5> QED BY <4>2, <5>1, BlockedByJoining
      <4> QED BY <2>1, <4>1, <4>3
    <3>2. CASE bpc = "dynamic"
      BY <3>2 DEF BinderWaits
    <3> QED BY <3>1, <3>2
  <2>3. mDynamicSensors \subseteq Handles
    BY DEF IInv, TypeOK
  <2>4. PICK i \in Joining \intersect SubHals :
          dpc[i] # "idle" /\ HandlesOf(i) \intersect mDynamicSensors # {}
    BY <2>2, <2>3, BlockedByJoining
  <2> QED BY <2>1, <2>2, <2>4 DEF Embraced
<1> QED BY <1>1, ControlInvariant, PTL
=============================================================================
