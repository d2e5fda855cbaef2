# Verification of the realme 7 (salaa) device tree

TLA+ models of the programs in this device tree, the TLC configurations that
check them and the proofs of their main properties. Paths are relative to the
repository.

## 1. Inventory

The tree is mostly build files, overlays and policy. The programs in it, with
the state they keep and what is hard about them:

| Component | Source | State | Operations | Hard part |
|---|---|---|---|---|
| Sensors multi-HAL proxy, event path | `sensors/MT6785/HalProxy.cpp`, `HalProxyCallback.cpp`, `service.cpp` | event queue, pending queue and its size, wake-up reference count, kernel wake lock, `mThreadsRun` | `postEvents`, `createScopedWakelock`, `handlePendingWrites`, `handleWakelocks`, `initialize`, `activate` | four kinds of thread, two mutexes, two condition variables, timeouts, restart |
| Sensors multi-HAL proxy, control path | same files | sub-HAL list, sensor maps, dynamic sensors, operation mode, direct-channel owner | `initializeSubHalListFromConfigFile`, `initializeSensorList`, `setOperationMode`, `disableAllSensors`, `onDynamicSensors*`, `injectSensorData`, `*DirectChannel` | callbacks from sub-HAL threads against the binder thread, a mutex kept across calls to sub-HALs, roll-back |
| Ambient light correction | `sensors/als_wrapper.cpp`, `sensors/AlsCorrection.cpp`, `als/default/*` | the wrapper's context, hysteresis ranges, last corrected value, gain, `force_update`, two time stamps | `open_sensors`, `get_sensors_list`, `init`, `process`, `getAreaBrightness` | rate limit, forced update, failed screenshots, a service that dies, tables scaled in place |
| Doze app | `doze/src/.../*.kt` | settings, running service, sensor registration, executor queue | `checkDozeService`, screen on and off, preference changes, sensor events | callbacks, posted runnables and executor tasks out of order |
| AOD helper | `apps/OplusDeviceService` | `isSensorRunning`, `isTimerRunning`, timer | screen and proximity events, service restart | the timer thread against the main thread, restart with the display off |
| RealmeParts | `apps/RealmeParts` | preferences, sysfs nodes, media player, 30 s timer | switches, tiles, boot restore, `startPlaying`, `stopPlaying` | two writers of one node, failure half-way, timer after stop |
| Poll sensors | `sensors/udfps_hal.cpp`, `sensors/oplus_virtual_sensors.cpp` | kernel event state, offset of a shared descriptor | `activate`, `poll` | two threads seek and read one descriptor; failed reads |
| Lights | `lights/` | the backlight's node | `setLightState` | two hand-written tables, rounding, where the range comes from |
| Touch gestures, power mode | `touch/`, `power/` | nodes of the touch panel's driver | `setGestureEnabled`, `setDeviceSpecificMode` | writes that fail, before or after the answer |
| Property overrides | `init/init.cpp` | properties | run once at boot | overlapping writes under names put together from parts |
| Build scripts, overlays, sepolicy, shims | the rest | none at run time | | not modelled |

Interactions: the framework calls the proxy over one binder thread
(`service.cpp:29`), reads the event queue and answers on the wake lock queue.
Sub-HALs call the proxy back from threads of their own. The ALS wrapper is the
poll device of one such sub-HAL and asks the screenshot service over binder. The
two doze programs react to broadcasts and sensor events and send the same doze
pulse to SystemUI.

What makes each component correct:

* event path: events arrive in order, once, each batch uncut except for losses
  at its limits; the kernel wake lock is held as long as a wake-up event is under
  way and no longer than a timeout after; a restart starts from nothing and
  always comes back;
* control path: handles name one sub-HAL, direct channels belong to one sub-HAL,
  modes agree after a failed change, dynamic sensors agree with what the
  framework was told, `initialize` returns;
* light correction: a reported value stems from a correction within the rate and
  refresh limits, failures recover;
* doze programs: the sensor is registered and the timer runs only while the
  display is off and the setting asks for it;
* RealmeParts: node, preference and tile agree; the cleaner ends;
* poll sensors: a press or a pickup is reported, once, or lost for a named reason;
* lights, touch, properties: more light asked for is never less light shown, an
  answer of success is true of the driver, the properties name one device.

The hazards, each at its line with the properties that cover it, are in
`PROJECT.json`.

## 2. Plan

| Order | Module | Contents | State |
|---|---|---|---|
| 1 | `HalProxyEvents` | the event path | done |
| 2 | `LossyFifo`, `HalProxyDelivery` | what the event path promises, and the refinement | done |
| 3 | `HalProxyAccounting` | the reference count against what it stands for | done |
| 4 | `HalProxyEventsProofs`, `HalProxyFlowProofs` | the event path: invariants, refinements, pending size, accounting; all safety proved | done |
| 5 | `HalProxyControl`, `HalProxyControlProofs` | sensor maps, dynamic sensors, modes, direct channels, all safety proved | done |
| 6 | `AlsCorrection`, `AlsCorrectionProofs` | `init`, `process`, screenshot service | done |
| 7 | `AodHelper`, `AodHelperProofs` | timer and listener of the AOD helper, all safety proved | done |
| 8 | `DozeApp`, `DozeAppProofs` | settings, service, broadcasts, executor, all safety proved | done |
| 9 | `ModeSwitches`, `ClearSpeaker`, `RealmeParts`, `RealmePartsProofs` | switches, tiles, refresh rate, boot restore; speaker cleaner; the app of the two | done |
| 10 | `UdfpsSensor`, `VirtualSensors`, `PollSensors` | the two poll devices | done |
| 11 | `WakeLock` | the abstract wake lock, implemented by `HalProxyEvents` and proved so | done |
| 12 | `HalProxyControl` | loading the sub-HALs, the mutex of `disableAllSensors`, lookups in the wrong table | done |
| 13 | `Lights`, `TouchNodes`, `VendorInit`, `DeviceHals`, `VendorPartsProofs` | the small vendor parts; proofs of them and of the poll devices | done |

An abstract specification for the two doze programs was planned and dropped: they
share only the broadcast they send, and promise nothing in common.

The twelve runs are below, each with its module. Composition is by `EXTENDS` for
history, refinement and a shared process (`HalProxyAccounting`, `HalProxyDelivery`,
`RealmeParts`) and by `INSTANCE` for `PollSensors` and `DeviceHals`; the other
programs share no state.

## 3. The event path: `HalProxyEvents`

### Correspondence

Threads are program counters, one action per stretch of code between two points
where another thread can take part: taking or giving up a mutex, an atomic load
or store outside one, a blocking call.

* **Posters** (`ppc`, `scoped`, `batch`; one per sub-HAL). `BeginPost` is
  `createScopedWakelock` up to the load of `mThreadsRun` (695), `CreateLocked` the
  locked part of `increment...` (696-706), `RefusePost`/`AdmitPost` the test of
  `HalProxyCallback.cpp:43`. `EnterPost` takes `mEventQueueWriteMutex` and loads the
  flag for the count of the batch, `CountPost` counts it, `PostToQueue` is the rest of
  `postEventsToMessageQueue`. The destructor of the `ScopedWakelock` is `EndPost` if
  there is nothing to give back, or else `MayRelease` (the load of 711) and `Release`
  (712-722).
* **W** (`wpc`, `wJob`), `handlePendingWrites`: `WriterTest`, `WriterWait` (the
  wait on the condition variable, in two steps, as a notification between them is
  lost), `WriterTake` (up to the unlock of line 585), `WriterWrite` or
  `WriterTimeout` (the blocking write without the mutex); after a timeout
  `WriterMayDrop` or `WriterKeepsCount` (the load of 711) and `WriterDrop` (712-722);
  `WriterFinish`.
* **K** (`kpc`, `kLeft`), `handleWakelocks`: `WakerTest`, `WakerWait`,
  `WakerReset` (timeout), `WakerRead`, `WakerAcked` or `WakerNoAck`, `WakerExit`.
* **B** (`bpc`), the binder thread: `InitializeCall` ... `SpawnThreads` are the
  steps of `initializeCommon` in order, `Activate` is `activate`. There is one
  binder thread, so the calls do not overlap.
* **The framework**, external: it reads any number of events (`FrameworkRead`),
  sums up the wake-up events it has read (`owed`) and acknowledges them
  (`FrameworkAck`), or does neither. `InitializeCall` is a new framework that
  owes nothing.
* **Time**: `Tick` advances `elapsed`, the time since
  `mWakelockTimeoutStartTime`, and what is left of K's blocking read.

The mutexes are not variables: a thread holds one exactly at certain program
counters (`EventMutexFree`, `WakelockMutexFree`).

### Abstractions

* An event is a model value; all the code asks of it is whether its sensor is a
  wake-up sensor.
* `HalProxy.h`, the FMQ library and `ScopedWakelock` are not in the repository.
  Initial values are chosen from what the code needs (`mThreadsRun` is either);
  the queues are sequences with the capacity of `getQuantumCount`; a
  `ScopedWakelock` remembers whether it is locked and whether a reset came after
  it (`"locked"`, `"stale"`).
* `increment...` and `decrement...` load `mThreadsRun` (695, 711) and then lock (696,
  712). Posters and W do so in two steps, so that `stopThreads` may store false between
  them (535) and the count change while the proxy is stopped. K's and B's calls are one
  step: K holds `mWakelockMutex`, which is recursive, when it loads the flag (635, 658),
  so that a stop after the load is one after the change; B itself stored the flag.
* The reads and the wake-ups of `stopThreads` are one step, the two
  notifications another. Condition variables do not wake without reason.
* `PostToQueue`, the direct write and the push under one mutex, is one step although
  224-253 of `initializeCommon` do without the mutex. Only a post that outlives
  `disableAllSensors` could be met half-way there: `hal_restart` shows that
  such a post breaks the restart, and what comes of it beyond that is a data race.
* Creating the event flags succeeds, so do `acquire_wake_lock` and
  `release_wake_lock`. A direct `write` of no more than `availableToWrite` does
  too.
* `duration > kWakelockTimeoutNs` is "`WakelockTimeout` ticks have passed"; equal
  time stamps of a reference and a reset do not occur.
* A `ScopedWakelock` is asked to lock exactly for batches with wake-up events, as
  the assertions of `HalProxyCallback.cpp:47` and `:52` demand of sub-HALs.
* Sub-HALs are external. `SubHalsQuiesce` says whether their `activate(false)`
  waits for a post under way. It is TRUE in all runs but `hal_restart`.
* Dynamic sensors (all of `mDynamicSensors`) and operation modes belong to the
  control path.

### Runs

`Batches`, `MaxRefCount` (no post starts above it) and `MaxOwed` (the framework
reads no more above it) bound the state space. All runs have an event queue of
one event, so that each batch of two or three is split and each pending batch
can time out, a wake lock queue of one, and a timeout of one tick. The pending queue
has room for one event in `hal_wakelock`, for two in `hal_accounting` and for three in
`hal_delivery`. `MaxRefCount` is one, and zero in `hal_accounting`: there both sub-HALs
may begin a post while nothing is counted and either may then wait through the whole
life of the other's batch, its timeout or its acknowledgement. Restarts are not bounded. Deadlock is not checked: a lost notification really stops the
system, which `InitializeReturns` states.

| Run | Instance | What it shows |
|---|---|---|
| `hal_wakelock` | one sub-HAL, batches `<<w>>`, `<<w, n>>`, fairness | `HeldIffCounted`: kernel lock and count stay together; `LockIsShared`: they implement `WakeLock`; `WakePostsLocked`: the assertions of `postEvents`; `WakelockReleased`, `InitializeReturns` |
| `hal_delivery` | two sub-HALs, batches of one and three events, none of them wake-up events, fairness | `DeliversInOrder`: the event path implements `LossyFifo`; `WriterOwnsFront`: what W uses without the mutex stays as it captured it; `PendingSizeExact`: the counter never drifts or wraps; `FreshStart`; `PendingDrained`: what pends is written or given up, whatever its length |
| `hal_accounting` | two sub-HALs (symmetric), batches `<<w, w>>` | `WakeEventsCovered`, `NoReferenceLeak`: between the named faults the count is exactly what it stands for |
| `hal_restart` | sub-HALs that do not quiesce | violates `FreshStart`, see below |
| `hal_drop` | batches `<<w, w>>` | violates `DropIsExact`, see below |

Two posters are the smallest number with a race between posters; three events
against a queue of one and a pending limit of three give batches that are
written in several rounds (W takes one event of the three, erases it and comes again),
queued behind each other and refused. `hal_delivery`
has no wake-up events: K then only waits and exits, and the queues are explored
with two posters. `PendingDrained` is checked there, where batches are longer than the
whole event queue and several of them pend: giving one up takes as many rounds as writing it.

**Fairness** (`FairSpec`): the binder thread, W, K and each poster take steps
they can take, and time passes. The scheduler and the library's timeouts promise
that. Nothing is assumed of the framework, nor that a sub-HAL ever posts.

### Findings

* `hal_restart`: the comment of `HalProxy.cpp:219-220` relies on
  `disableAllSensors` to make clearing the pending queue safe. It is only if each
  sub-HAL's `activate(false)` waits for a post under way.
* `hal_drop`: giving up a batch takes off references for events that were
  written (line 597), so the count may fall short of the wake-up events in flight.
* Not a finding against a stated promise, but the models show it: `stopThreads`
  notifies without holding the mutexes. If it runs between a worker's test and
  its wait, the worker sleeps on and the join never returns. `InitializeReturns`
  says that this window (`LostNotifyWindow`) is the only way to hang it.
* After a restart the count of the earlier session is still there, as
  `decrement...` does nothing while the threads are stopped; the lock is
  then held until a timeout (`WakelockReleased`).

## 4. The accounting and the refinement

`HalProxyAccounting` adds two history variables. `clean` remembers that no
wake-up event lost its reference since nothing was in flight: the timeout did
not fire, no batch was given up with too many references, no post met a stop.
`tight` remembers that no reference lost its event since the count was zero: no
overflow, no stop. The two inequalities together say that the count is right
whenever neither happened, and that both conditions heal. Both are checked and proved.

`LossyFifo` is what the proxy promises: one channel, which an accepted batch
enters uncut but for a refused tail, and which events leave in any place, by
delivery or loss, and never by overtaking. `HalProxyDelivery` maps the event
queue and the pending batches to it, less the part that W has written but not
yet erased. `DeliversInOrder` is both checked and proved.

`WakeLock` is what it promises of the wake lock: counted references to one lock.
The first taken locks it, the last returned unlocks it, each taking starts the
timeout anew, and nothing changes while it is not `running`. `LockIsShared` substitutes
`mWakelockRefCount`, the kernel lock and `elapsed`; it runs while `mThreadsRun` is set or
a thread is left that had loaded it before and is to change the count (`CountAdmitted`).
It is both checked and proved.

## 5. The control path: `HalProxyControl`

### Correspondence

* **The constructor** loads the sub-HALs and reads their lists. What is loaded
  depends on nothing that changes: `mSubHalList` is computed from the lines of
  `hals.conf` (`Config`) and the libraries there are (`Installed`), line by line, by
  `getHandleForSubHalSharedObject` (the first directory that has the file, whatever
  is in it) and `Loads` (the older of the two exported functions decides if it is
  there, and a wrong version leaves the library out). `LoadList` is the list of one
  sub-HAL, with `setDirectChannelFlags`; `SkipList` one whose call failed. `Ready`
  guards the calls, as the service offers them only afterwards.
* **Handles.** `setSubHalIndex` is a bitwise or in the code. All handles it is
  given have a clear first byte, so the model adds. `SubHalCount` is at most
  127, the number of indices a non-negative 32-bit handle has room for.
  `Route` and `ConfigDirect` say where a call with a handle goes.
* **The binder thread** (`bpc`). `SetOperationMode` is one step, as no other
  thread looks at a mode: the first `k` sub-HALs accept the mode, the next one
  refuses it, and those in `refusing` refuse the roll-back, whose result the code
  drops. `InitializeCall`, `DisableStatic`, `LockDynamic`, `DisableDynamic`,
  `ClearDynamicSensors`, `AssignCallback` and `InitializeSubHals` are the steps of
  `initializeCommon` that touch this state. The mutex is taken between the static
  and the dynamic sensors and kept while the sub-HALs are called for the latter.
  A sub-HAL in `Joining` is one whose `activate(h, false)` waits for its thread.
* **Sub-HAL threads** (`dpc`, `dwhat`, `dhandles`). `LockTable` takes
  `mDynamicSensorsMutex`, `UpdateTable` changes the map and gives the mutex up,
  `Report` reads `mDynamicSensorsCallback` and calls it.
* **The pending-writes thread** takes part at one place (`countNumWakeupEvents`): to
  count the wake-up events of a batch it looks their sensors up with `operator[]` in
  the map of the static ones, which adds an empty entry for every dynamic sensor.
  `blank` is the set of these; `getSensorsList` shows each with handle 0, and
  `disableAllSensors` activates it.

`mode` (the mode each sub-HAL is in), `strayed` (the sub-HALs that refused a
roll-back or failed to initialize) and `told` (what the framework knows) are
outside the proxy. `torn` is history: it remembers that a report met lines
228-230, which clear the map and replace the callback without the mutex, half-way.
A report of one thread, its change of the map on one side of the clear and its
call on the other side of the new callback, really parts the two for good; so may
the data race itself. `TableMatchesFramework` says that nothing else does.

Abstractions: a sensor is its handle and whether it keeps its direct-channel
flags; the workers, which `stopThreads` has joined by then, and the queues are in
`HalProxyEvents`; sub-HALs report dynamic sensors after their first `initialize`
only, as the callback pointer reaches them there.

### Run

`hal_control` has a `hals.conf` of six lines of which two load: the others have a
wrong version in the first directory and a right one in the second, a wrong version
of the older function and a right one of the newer, no function, or no file. Each
of the two has one static and one dynamic sensor. The first also reports a static
and a dynamic handle whose first byte is not clear, which must be left out; one of
them, if it were kept, would pass for a handle of the other sub-HAL. Two modes. Two
sub-HALs are enough for a wrong owner and for a roll-back of the one before; the
second waits for its thread, the first posts batches longer than the event queue
(`Bulky`, a bound: lookups by both give nothing new).

`RoutesHome` and `DirectFlagsOwned` relate handles and owners through the load
order; the first names the handle 0 of the empty entries, which may lead to a
sensor nobody reported. `ModesAgree` relates the modes after any partial failures,
`TableMatchesFramework` map and framework through any interleaving of reports and
restarts. `InitializeReturns` says that the mutex kept across calls stops
`initialize` for ever in one case only (`Embraced`): the sub-HAL of a known dynamic
sensor waits for its thread, and that thread is at the mutex.

**Fairness**: the binder thread and the sub-HALs' threads run, and one that waits for
the mutex or for a thread gets its turn if its chance comes again and again. That is
strong fairness of `Initializing` and `LockTable`: no thread is overtaken at the mutex
for ever. No call is assumed to be made. Deadlock is not
checked, as nobody need call a proxy.

## 6. The light correction: `AlsCorrection`

### Correspondence

`OpenSensors` is the wrapper's `open_sensors`, which starts from an empty context each
time and may fail half-way, with the real module loaded but no device. `GetSensorsList`
is `get_sensors_list`, which patches the vendor's list in place: the next call finds
nothing to patch and does not call `init`, which divides the table of ranges in place
(`scaled`, `Rescaled`) and fetches the service. `process` is split at the call of
the screenshot service, the only place where it waits: `DropTooFast`,
`ReportCached` and `RequestCapture` are its three ways up to there, `CaptureFails`
and `CaptureSucceeds` the two after it. `Stamp` is the bookkeeping of lines 174 to
193, whose order matters: a forced update moves its stamp before the reading is
dropped as too fast.

### Abstractions

* Light is an integer count, milli-lux are counts times a gain in thousandths,
  `calib_gain` is 1. Time stamps are ages, capped at `AgeCap`.
* What the screen adds is given per content (`Poly`, `Gamma`) and scaled by the
  brightness; the averaging of pixels and the calibration files are left out. The
  screen and the brightness may be anything at any reading.
* The hysteresis table, the choice of the gain and the test that accepts a
  correction are the code's, with the code's numbers.

### Run `als_correction`

Five readings (dark; in the gap of the hysteresis; in its lower ranges; above the
gain threshold; so bright that a correction is rejected), two gain estimates, the
display on and off, three screens, the gains of `vendor.prop`. 100 ms and 3 s are
two and three ticks, so that there is time between every two limits.
`FreshReport` bounds the age of what is reported whatever failed or came too
fast, or if the service is gone; `SteadyReadingCached` says that a corrected reading
lies in the hysteresis it set, however often the list is asked for, `CapturesSpaced` that the service is not asked too often, `NotStarved` that
dropping does not starve the sensor. **Fairness**: the module is opened and listed in
the end, the driver keeps delivering,
calls to the service end, time passes. The binder layer and the sensor promise
that.

What the model shows beside the properties:

* the service is fetched once (158): when it died and was restarted, forced
  screenshots fail for ever, and with the display on every reading is dropped;
* the loop over the gain points has no `break` (240-251): with the points of
  `vendor.prop`, the last of which is 0.0, the last gain is always taken;
* the hysteresis is scaled by the first gain whatever gain was used, and has a gap
  from 0 to 1 lux. `SteadyReadingCached` names both.

## 7. The doze app: `DozeApp`

Everything but the executor of a `PickupSensor` runs on the main thread, so
handlers are single actions, and the orders that matter are those of messages:
checks posted to the handler (`posted`), start and stop requests of the activity
manager (`requests`), broadcasts (`broadcasts`), and the tasks of each executor
(`tasks`), which outlives its service. `onSensorChanged` is two steps
(`SensorChanged`, `Gesture`), as the executor may set `entryTimestamp` between its
test and its assignment; so is the executor's enabling (`Stamp`, then `RunTask`), as time
passes and events come between the stamp (60) and the registration (61).
`GesturesSpaced` therefore counts from the stamp: from the registration itself the first
gesture may be less than a pulse interval away. `checkDozeService`, `SwitchDoze`, `SetAlwaysOn`,
`SetPickup` are the settings, `Start` and `Stop` `onCreate` and `onDestroy`,
`ReceiveOn` and `ReceiveOff` the receiver. The gesture is a preference the app applies:
it is acted upon (`pickup`) before it is written (`stored`, `WriteOut`); the other two
are settings of the system, written at once. `Kill` is the end of the process, which
loses posted checks and an unwritten gesture (`lost`); it
also stands for a posted check whose fragment has gone, which finds no context and
crashes. `KillInSwitch` and `KillBeforeReset` are kills inside the main switch's handler,
which changes the setting, checks and resets always-on. A started service is restarted
(START_STICKY).

Left out: `PocketSensor.kt`, which nothing uses; settings written by other
programs; the layout of the settings screen. An executor is gone when its tasks
are done.

Run `doze_app` (`MCDozeApp`, for the symmetry of the instances): two instances (one
stopped with its executor still busy, one
started), pulse interval of one tick, two messages of each kind. Whoever would
exceed a backlog waits. Each exception a property names (`lost`, `dark`,
`skipped`) is reachable, and needed: without it the property fails.

## 8. The AOD helper: `AodHelper`

`startRepeatDozing` and `stopRepeatDozing` are the two operations on the timer,
`ReceiveOff`, `ReceiveOn`, `ReceivePresent` and `SensorChanged` their callers on
the main thread. A Timer has a thread of its own: `TaskRuns` reads always-on,
`PulseDoze` sends the pulse, and `cancel` between the two does not stop it
(`"last"`). USER_PRESENT comes from another sender than SCREEN_ON and SCREEN_OFF
and is not ordered with them. Always-on is changed with the display on, where the
settings are; a change by another program in the dark, which the next proximity event
would see (93), is left out.

Run `aod_helper`: three Timers (one in the field, two cancelled and still
sending), three broadcasts under way. `FollowsAlwaysOn` names two exceptions, both
reachable: a service restarted with the display off does nothing until the next
SCREEN_OFF (`dark`), and a late USER_PRESENT ends timer and listener for that time
(`cut`).

## 9. RealmeParts: `RealmeParts`, `ModeSwitches` and `ClearSpeaker`

`RealmeParts` is the app: its two parts share a process and the main thread but no
state, so a behaviour looks at one of them (`part`) while the other rests.

### `ModeSwitches`

The forced refresh rate is a mode as well (`Rate`): its node is what SurfaceFlinger was
told, it is on unless it was switched off, `Startup` (`handleRefreshRate`) forces it or
leaves it alone, and its switch (`SwitchRate`) shows the preference, not the node.

Per mode: the node, the preference in memory and on disk, the switch on the
screen. `Switch` is `onPreferenceChange` of the three switch classes followed by
the framework's storing of the value, `ClickTile` `onClick` of the three tiles
(`Committed` tells the DC tile's `commit` from the others' `apply`), `OpenScreen`
the part of `onCreatePreferences` that sets the switches, `Startup` the restore.
That setting a switch persists its value is the preference library's doing.
Every write of a node may fail (`taken`): `writeValue` logs and swallows the IOException
(`Utils.java:61-63`), `setForcedRefreshRate` the RemoteException, and the callers go on
and store the preference all the same. `refused` names the nodes whose last write failed,
until a later one succeeds or the device boots. The
directories that `writeValue` would make exist, as `getFile` returns a file's name only
if the file is there.
The process may be killed between handlers (`Kill`) and inside those that write
two things (`KillInside`, `KillInStartup`); `Reboot` also loses what was not
written out.

In run `realme_parts`: two modes with a node, one of them on by default, one that
the device lacks, and the refresh rate; one tile that commits. More modes add nothing,
as they do not interact. `RestoredIsChosen` relates node and last choice over any number of boots.
Its exceptions are `refused`, and `fault`: the choice was forgotten. That comes of a
process that ended inside a handler or before the preference was written, or, which is
not a crash, of a screen that was opened while the node did not hold the choice (between
a boot and `Startup`, or after a refusal): what the nodes hold is then stored over the
choices. A refused write alone never makes a `fault`: the next boot restores the choice.

Left out: CABC, one property write.

### `ClearSpeaker`

A fragment that was left stays in memory while its timer is posted, so fragments
are a set. `StartPlaying`, `StartFails`, `TimesOut`, `OnStop` are the code;
`Enter`, `EnterNew`, `Leave` the activity, whose `onStop` may come when the next
fragment is shown already. `realme_parts` has two fragments, one left and one
shown. **Fairness**: the looper runs a posted runnable that is due. What plays while
another fragment's timer or `onStop` turned the parameter off is named by `cut`.

## 10. The poll sensors: `UdfpsSensor`, `VirtualSensors`

`UdfpsSensor` has two threads, one in `udfps_poll`, one in the flush of
`udfps_activate`. They share the descriptor and thus its offset, and each seeks
and reads in two steps (`SeekState`, `ReadState`; `FlushSeek`, `FlushRead`). As in
sysfs, a read at the end of the node yields nothing and leaves the notification. A seek
may fail (`SeekFails`, `FlushSeekFails`): nothing is then read. A read may fail
(`ReadFails`, `FlushReadFails`), with the notification consumed or left (`ReadNoText`);
a text that does not parse (`ReadBadState`) consumes it.
`VirtualSensors` is the loop of `virtual_sensors_poll` over a queue of numbered
events, some of them of unknown sensors, with reads that fail or are short.
`PollSensors` puts them side by side.

Run `poll_sensors` (two events at the virtual sensor; the fingerprint node is
finite as it is): `PressSeen` says that no press stays unseen while the finger is
down, `ActivateReturns` that the flush ends once the node is quiet, `PickupsInOrder`
that pickups are returned once and in order but for failed reads. **Fairness**:
both threads run, and poll, lseek and read do not fail for ever. That is strong fairness
of the steps in which they succeed; a flush whose reads fail for ever and leave the
notification really never ends.

Left out: the virtual sensor's other calls, one line written to a node each, and
opening and closing. `udfps_hal.cpp` is in no build file of this tree.

## 11. The small vendor parts: `Lights`, `TouchNodes`, `VendorInit`

`DeviceHals` puts the three side by side; as they share nothing, a behaviour looks at
one of them (`focus`) while the others rest.

`Lights` is `setLightState`: the range is the property's or else the node's
(`MaxInUse`; an empty node leaves the variable uninitialized, so it may be anything in
`MaxNodes`), the brightness is computed from the colour and looked up in the table of
the panel. `TouchNodes` has a node per gesture and one for the double tap. A request
for an unknown gesture or with a node that cannot be opened fails; one whose node
refuses the value when the stream is closed is answered with success all the same
(`refused`). `VendorInit` is the list of writes a boot makes (`todo`), carried out one
by one over the properties the partitions came with; a write of `set_ro_build_prop`
changes only what is there. A value is the part of the identity it is (`part`) and the
variant it belongs to. The empty source of `init.cpp:51` is written "none". The
partitions come with any set of properties of the identity (`BuiltSets`); what else
they hold no call of `init` touches.

Run `device_hals`: every grey, and 27 colours at four opacities; panels of 255, 1023,
2047 and 4095 steps; four gestures and one that does not exist; five sets of built properties, codes of all five variants and one
unknown, a file that cannot be read, recovery, three sizes of memory.
`NeverDarker` compares any two calls with the same range, so the tables and the rounding
must never fall; `InPanelRange` keeps within the panel; `TouchAnswersHold` relates all
nodes to all answers; `OneIdentity` says that the overlapping writes agree, and names
what they miss: line 171 writes `ro.product.<source>.fingerprint`, so the
`ro.<source>.build.fingerprint` of six sources stay as built.

## 12. Proofs

Every safety invariant, every action property and every refinement that a passing run
checks is a theorem as well, for every value of the constants that the named `ASSUME`s
allow. No theorem assumes sub-HALs that quiesce. `FreshStart` and `PendingSizeExact` are
proved of every behaviour in which no post outlives `disableAllSensors`
(`PostOutlivesDisable`), `WakePostsLocked` of every one in which no `ScopedWakelock` from
the time the threads were stopped is there to be posted when they start
(`CreatedWhileStopped`): these are hypotheses on the behaviour, which say what alone
breaks them (`hal_restart` shows that it does). What stays with TLC alone is liveness (`ActivateReturns`, `EveryPlayEnds`,
`InitializeReturns`, `NotStarved`, `PendingDrained`, `PressSeen`, `WakelockReleased`):
neither fairness nor ENABLED is within the prover's reach. For all of them but
`NotStarved` the safety they rest on is proved: that who waits has nothing to do or
somebody who is going to wake it, and which state is the only one in which a thread
waits for ever. These statements are beside the liveness they belong to, in the
modules of the programs; no run repeats them.

The library's induction theorems take an operator, which no prover here can
instantiate. Where a proof needs induction over data (concatenations, sums, tables) it
argues from the least counterexample: `LeastNatural` gets a least element of a set of
numbers from the library's theorem that strict inclusion of finite sets is well-founded,
and `InductionUpTo` is induction for the members of a set. A fold or a recursive function
is reached by showing that a function with its equations exists on `0..n`
(`FlattensExists`, `SumsExist`) and that its value is the last of them (`FlattensLast`,
`SumsLast`).

### `HalProxyEventsProofs`

For any finite set of sub-HALs, any queue sizes, timeout and batches (the
`ASSUME`s of `HalProxyEvents`), TLAPS checks that `IInv` is inductive:

* `TypeOK`;
* `Lifecycle`: where B is in `initializeCommon` determines which workers exist
  and what `mThreadsRun` is. Without it a worker might be running while B swaps
  what it uses, and every other part would break there;
* `QueuesWithinCapacity`: needed for the room a direct write finds;
* `WriterOwnsFront`: needs `Lifecycle` for the two clears;
* `LockedForWake`: a locked `ScopedWakelock` belongs to a batch with wake-up
  events, so that `increment` never adds zero references to a lock it acquires;
* `HeldIffCounted`: needs `LockedForWake`.

`TypeCorrect`, `HeldCorrect`, `FrontCorrect`, `SingleWriter` and `SwapCorrect`
follow, the last two being assertions no run repeats: the event queue has one writer,
and both workers are gone while `initializeCommon` swaps what they use.
`LockImplemented` is the refinement: under `IInv` every step is one of `WakeLock` or
leaves its variables alone. `EmptiedInOrder` (queues stay empty from the clears to the
start) is inductive as long as no post outlives `disableAllSensors`, `AdmittedLocked` (an
admitted post has the lock its batch needs) as long as nothing was created while stopped;
they give `FreshStartCorrect` and `WakePostsCorrect`. `QuiescenceSuffices` adds that
sub-HALs that quiesce, as the comment of `HalProxy.cpp:219-220` takes them to, allow
neither: it is the only theorem with that assumption.

Each step lemma splits `Next` by thread, then by action.

What the liveness of this path rests on, by a second invariant beside `IInv`:

* `SleepInv`: `EventMutexHeldOnce` (no post is inside the mutex while W is between its
  test and its wait), `ReadEndsInTime` (K's blocking read ends no later than the
  timeout) and `SleepersHaveNoWork`. The last needs the first: a post that appends
  after W has tested the list and before it waits would be the lost wake-up.
* `NoLostWakeup` and `HeldLockWatched`: behind `PendingDrained` and `WakelockReleased`.
  While the kernel wake lock is held, K looks at the count next, or reads no longer
  than what is left of the timeout.
* `HangIsForever` and `HangNeedsWindow`: behind `InitializeReturns`. A join for a
  sleeping worker that no post under way will wake lasts for ever (`HangStep`), and it
  comes about in no other way than by the window between a worker's test and its wait
  (`JoinsAwake` is inductive as long as the window is not met).

`PendingSizeCorrect`, under the hypothesis of `FreshStartCorrect` and `BatchesFitAssumption` (a batch and
the bound together do not overflow a `size_t`): `SizeInv` says that every post carries a
batch a sub-HAL may post and that the counter is exact. Whether W finishes or a post adds
a batch, the concatenation of the pending batches grows or shrinks by as many events as
the counter (`FinishPending`, `PostPending`, `FlattenAppend`, `FlattenHeadTail`), and the
sum never reaches the modulus.

### `HalProxyFlowProofs`

About `HalProxyDelivery` and `HalProxyAccounting`, on `IInv` of the event path alone, so
that both also hold for sub-HALs that post on while they are stopped.

* `DeliveryImplemented`: every step is `Accept`, `Leave` or `Offer` of `LossyFifo`, or
  leaves its variables alone. What it takes is that a step touches the channel in one
  place: the framework and the two clears take off its front, a write that timed out
  drops what is left of the first pending batch out of the middle, a post adds at the
  end. `DropBehind` and `DropOfConcat` move such a cut over a concatenation;
  `FrontLeaves` and `MiddleLeaves` turn it into a `Leave`; `WriterMoves`, `BinderMoves`,
  `PostMoves` and `PosterMoves` go through the threads. A successful write moves events
  from the pending batches to the queue before they are erased, which does not show in
  the channel, because `Unwritten` leaves out what W has written. `OffersFull` (the batch of
  a post under way is not empty, so that `LossyFifo` can accept it) is inductive beside it.
* `AuditInvariance`: `WakeEventsCovered` and `NoReferenceLeak`. Behind it is a balance:
  a step changes the count and what it stands for (`Due`) by the same amount, or it is a
  named fault, which ends `clean`, or a named leak, which ends `tight` (`Balanced`, one
  lemma per thread). It rests on `IInv` and on `AInv`: an idle sub-HAL has no
  `ScopedWakelock` (`IdleUnlocked`), one post at most is between the count and the queue
  (`OneInPost`), and the wake-up count of a pending batch is at least
  that of its events (`CountsCoverPending`), so that giving it up is never short of
  references. `TotalAppend` and `TotalTail` are the sums over the wake lock queue. The
  exceptions are faults of the code, named where they happen: a reset under
  acknowledgements still to come, a split batch given up and a post that met a stop for
  the one; an overflow and a stop for the other. The theorems say that there are no
  others, and that both inequalities hold again from the next time that nothing is in
  flight, or nothing is counted. That a leaked reference does not keep the device awake
  for ever is `WakelockReleased`.

### `HalProxyControlProofs`

For up to 127 sub-HALs, any sets of handles and any modes, `IInv` is inductive:

* `TypeOK`: all handles kept, carried or handed out are in `Handles`. With the
  lemmas about handles (`HandleParts`, `RouteHome`) it gives `CallsRouteHome`;
* `Owned`: a sensor with direct flags is under a handle of the owner. It gives
  `DirectChannelsOwned`;
* `Agreed`: `ModesAgree` at every step, not only between calls;
* `Threads`: what a thread is about to report is in the map, or out of it, as its
  own change left it, or the clear did. No other thread disturbs that, since
  handles of different sub-HALs differ (`HandlesDisjoint`);
* `Listening`: which framework hears a report at each step of
  `initializeCommon`;
* `TableMatchesFramework`, which needs the last two: when a report closes the gap
  for its handles, the map must still be as the thread left it, and the framework
  must be the one that was told of the rest.

`CallsRouteHome` also takes the empty entries into account, which are handles of
sensors (`TypeOK`) but show as 0. Every safety property a run checks of this module
is proved.

`InitializeReturns` is liveness and says that `initializeCommon` returns or is
`Embraced`. Its safety half is proved: one thread at most is inside the mutex
(`TableMutexCorrect`), the embrace lasts for ever (`EmbraceIsForever`), and in every
other state in which `initializeCommon` waits the thread of some sub-HAL can go on
(`NoOtherDeadlock`). So the exception in `InitializeReturns` is exactly the deadlock
and not more.

### `AlsCorrectionProofs`

For any readings, screens, gains and intervals (the `ASSUME`s of the module),
`IInv` is inductive: the time stamps have their types, every call to the service
and every report has left its stamp (`Stamped`), there has been a correction since
the first report (`CorrectedSinceForced`), a correction is no older than the last
forced update allows (`ForcedInTime`), and the age of the last call is that of
`last_update` at least (`CapturesStamped`). `ReportsFresh` and
`CapturesAreSpaced` follow. `DInv` is inductive beside it: `TypeOK`, the list is
patched exactly if the ranges were scaled once (`ScaledOnce`), the reading of a call is
one of the sensor's, and `SteadyReadingCached`. The lemmas on the table say that some
range is found for every reading and that a reading corrected under the first gain lies
between its bounds, the upper one raised by the light of a white screen.
`AlsTypeCorrect` and `SteadyIsCached` follow. `NotStarved` is liveness.

### `DozeAppProofs`

For any number of instances, any backlog and any interval. Three queues are under way:
the requests, the broadcasts and the tasks of an executor. What each comes to is its
last element, or what holds now if it is empty (`Outcome`), and running its first
element leaves that as it is (`TailLeads`). `IInv` relates the outcomes: the requests
lead where the manager was last told (`RequestsLead`), which is where the settings lead
once no check is to come (`SettingsFollowed`); the broadcasts end with the display
(`BroadcastsLead`); the tasks of an instance come to listening in the dark only
(`ListensInTheDark`), those of a destroyed one to a deregistration
(`DestroyedUnregister`). All four properties of the run follow, `EventsAreSpaced` from
`EntryIsRecent`: the time stamp is no older than the last gesture or the last
registration's own stamp, with the two steps of enabling and an event past its test taken
apart.

### `AodHelperProofs`

For any number of Timers and broadcasts. Beside types and `OneTimer`, `IInv` says
that the broadcasts under way alternate and end with what the display shows
(`Alternating`), that nothing runs before a SCREEN_OFF is handled (`Resting`), and
that after it always-on is as it was then (`Following`). `FirstBroadcast` is the
lemma on sequences. All three properties of the run follow; the type invariant is
part of `IInv`.

### `RealmePartsProofs`

* Modes: what makes `RestoredIsChosen` inductive is `RememberedIsChosen`: for
  every mode without a fault, the refresh rate among them and also one whose node refused
  the write, the preference in memory is the user's choice.
* Speaker: `Attended` says who is still there to stop what plays and to turn the
  parameter off: the shown fragment, or one whose `onStop` is to come. Then
  `PlaysAreClean` and `AwayIsQuiet` follow. `EveryPlayEnds` is liveness; that what
  plays has its end posted (`PlaysHaveTimers`) is proved.
* The app: a step of it is a step of one part at which the other rests
  (`PartsRunAlone`), so what holds of each part holds of the app (`PartsInvariant`).

The type invariants of the parts are in the proved invariants, and no property of a run.

### `VendorPartsProofs`

* Lights, for any colours and any range an `int` can give (`LightsAssumption`):
  `ShownIsScaled` says that the panel shows the last colour that reached it, scaled for
  its range. `PanelInRange` follows from the bounds of the tables, `MoreIsNotDarker` from
  the order: products of bytes, the mean and the division do not turn it round, and a
  table that does not fall from a row to the next does not fall at all (`StepsOrder`,
  from the least row that does).
* Touch, for any gestures and requests: each operation sets a node and its answer to the
  same value, or names the node as refused (`AnswersKept`).
* Properties, for any codes, any memory and any properties of the identity that the
  partitions may come with (`BootAssumption`): `BootHolds` says that while init runs there
  is a variant such that each property is of it or is still to be written for it
  (`Agreeing`), and that the two names that several calls write are the device's or will
  be (`Settled`). For the latter the order counts: no call that writes them otherwise
  comes after the last that writes the device (`DeviceLast`, which `ForOne` after
  `ForEverySource` gives).
* Fingerprint: a press neither thread has seen is pending (`UnseenPends`), which is
  what `PressSeen` rests on; that itself is liveness. So is `ActivateReturns`, behind
  which is `QuietFlushIsOneRound`: while nobody touches the sensor, the flush never
  reads past the end of a node that has more to say, though poll moves the same offset
  (`RoundHolds`), so that its first round takes all and the next finds nothing.
* Pickups, for any number of events: the queue holds exactly the numbers that have not
  left the device (`QueueHolds`), and what was handed over is increasing and has just the
  pickups among those that were taken and not lost (`HandedHolds`). That determines the
  sequence, which is `PickupsCorrect`.

## 13. Not modelled

* `debug` of the proxy only prints, and `getLights` is a constant list.
* The calibration files of the light correction and the averaging of the captured
  pixels, which give numbers to formulas that are modelled for any numbers; and the
  calls the wrapper hands on unchanged.
* `activate`, `batch` and `flush` of the virtual sensors, one line written to a node
  each, with nothing kept; opening and closing the two poll devices.
* `DisableHWOverlaysService`, one call to SurfaceFlinger at boot; CABC and the widgets
  of RealmeParts; `PocketSensor.kt`, which nothing uses.
* Build scripts, overlays, configuration, sepolicy and shims, which have no behaviour
  at run time.
