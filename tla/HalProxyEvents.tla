--------------------------- MODULE HalProxyEvents ---------------------------
(***************************************************************************)
(* The event path of the sensors multi-HAL proxy                           *)
(* (sensors/MT6785/HalProxy.cpp and HalProxyCallback.cpp).                 *)
(*                                                                         *)
(* Four kinds of thread share one HalProxy object:                         *)
(*   - a poster per sub-HAL: createScopedWakelock, postEvents;             *)
(*   - W, the pending-writes thread: handlePendingWrites;                  *)
(*   - K, the wakelock thread: handleWakelocks;                            *)
(*   - B, the only binder thread: initializeCommon and activate.           *)
(* The framework, external, reads the event queue and acknowledges         *)
(* wake-up events on the wake lock queue.                                  *)
(*                                                                         *)
(* Time is counted in ticks of a fraction of kWakelockTimeoutNs.           *)
(***************************************************************************)
EXTENDS Integers, FiniteSets, Sequences, SequencesExt

CONSTANTS
  SubHals,            \* the sub-HALs, one posting thread each
  Events,             \* event payloads
  WakeEvents,         \* those of sensors with SensorFlagBits::WAKE_UP
  EventQueueSize,     \* mEventQueue->getQuantumCount()
  WakeLockQueueSize,  \* capacity of mWakeLockQueue
  MaxPending,         \* kMaxSizePendingWriteEventsQueue
  SizeModulus,        \* the range of size_t
  WakelockTimeout,    \* ticks of kWakelockTimeoutNs
  SubHalsQuiesce,     \* does activate(false) wait for a post under way?
  Batches,            \* bound: what a postEvents call may carry
  MaxRefCount,        \* bound: no post starts above this many references
  MaxOwed             \* bound: wake-up events read and not acknowledged

ASSUME SubHalsAssumption == IsFiniteSet(SubHals)
ASSUME EventsAssumption == WakeEvents \subseteq Events
ASSUME SizesAssumption ==
  /\ EventQueueSize \in Nat \ {0}
  /\ WakeLockQueueSize \in Nat \ {0}
  /\ MaxPending \in Nat
  /\ SizeModulus \in Nat
  /\ SizeModulus > MaxPending
  /\ WakelockTimeout \in Nat \ {0}
ASSUME BoundsAssumption ==
  /\ Batches \subseteq Seq(Events) \ {<< >>}
  /\ MaxRefCount \in Nat
  /\ MaxOwed \in Nat
ASSUME QuiesceAssumption == SubHalsQuiesce \in BOOLEAN
\* A batch is a vector in memory: its size and the bound do not overflow size_t.
ASSUME BatchesFitAssumption == \A b \in Batches : MaxPending + Len(b) < SizeModulus

VARIABLES
  mThreadsRun,        \* atomic flag: the workers may run
  connected,          \* mEventQueue, mWakeLockQueue and their flags exist
  mEventQueue,        \* events the framework has not read
  mWakeLockQueue,     \* acknowledgements K has not read
  mPendingWriteEventsQueue,     \* batches waiting for room in mEventQueue
  mSizePendingWriteEventsQueue, \* its number of events, a size_t
  mWakelockRefCount,
  wakelockHeld,       \* the kernel wake lock, acquire_ and release_wake_lock
  elapsed,            \* now - mWakelockTimeoutStartTime, in ticks
  wpc, wJob,          \* W: where it is; its locals numToWrite, numWakeupEvents
  kpc, kLeft,         \* K: where it is; ticks left of its blocking read
  ppc, scoped, batch, \* posters: where they are, ScopedWakelock, events
  bpc,                \* B: the step of initializeCommon it is at
  enabled,            \* sub-HALs with an active sensor
  owed                \* wake-up events the framework has read, not acknowledged

pendingVars  == <<mPendingWriteEventsQueue, mSizePendingWriteEventsQueue>>
countVars    == <<mWakelockRefCount, wakelockHeld>>
data         == <<connected, mEventQueue, mWakeLockQueue, pendingVars,
                  countVars, elapsed>>
posterVars   == <<ppc, scoped, batch>>
threads      == <<wpc, wJob, kpc, kLeft, posterVars>>
vars == <<mThreadsRun, data, threads, bpc, enabled, owed>>

-----------------------------------------------------------------------------
Pending == [events : Seq(Events), numWakeup : Nat]
NoJob   == [n |-> 0, wake |-> 0]

WriterStates == {"off", "loop", "blocking", "waiting", "writing", "failed",
                 "dropping", "wrote"}
WakerStates  == {"off", "loop", "blocking", "waiting", "reading"}
PosterStates == {"idle", "creating", "created", "posting", "counting", "counted",
                 "inpost", "posted", "releasing"}
LockStates   == {"none", "unlocked", "locked", "stale"}
BinderStates == {"idle", "drain", "notify", "joinW", "joinK", "reset",
                 "disable", "clear", "clearSize", "install", "start", "spawn"}

TypeOK ==
  /\ mThreadsRun \in BOOLEAN /\ connected \in BOOLEAN
  /\ mEventQueue \in Seq(Events) /\ mWakeLockQueue \in Seq(Nat)
  /\ mPendingWriteEventsQueue \in Seq(Pending)
  /\ mSizePendingWriteEventsQueue \in 0..(SizeModulus - 1)
  /\ mWakelockRefCount \in Nat /\ wakelockHeld \in BOOLEAN
  /\ elapsed \in 0..WakelockTimeout
  /\ wpc \in WriterStates /\ wJob \in [n : Nat, wake : Nat]
  /\ kpc \in WakerStates /\ kLeft \in 0..WakelockTimeout
  /\ ppc \in [SubHals -> PosterStates]
  /\ scoped \in [SubHals -> LockStates]
  /\ batch \in [SubHals -> Seq(Events)]
  /\ bpc \in BinderStates /\ enabled \subseteq SubHals
  /\ owed \in Nat

\* HalProxy.h is not in the repository: the initial mThreadsRun is either.
Init ==
  /\ mThreadsRun \in BOOLEAN /\ connected = FALSE
  /\ mEventQueue = << >> /\ mWakeLockQueue = << >>
  /\ mPendingWriteEventsQueue = << >> /\ mSizePendingWriteEventsQueue = 0
  /\ mWakelockRefCount = 0 /\ wakelockHeld = FALSE /\ elapsed = 0
  /\ wpc = "off" /\ wJob = NoJob /\ kpc = "off" /\ kLeft = 0
  /\ ppc = [p \in SubHals |-> "idle"]
  /\ scoped = [p \in SubHals |-> "none"]
  /\ batch = [p \in SubHals |-> << >>]
  /\ bpc = "idle" /\ enabled = {} /\ owed = 0

-----------------------------------------------------------------------------
AtMost(a, b) == IF a <= b THEN a ELSE b
TakeN(s, n)  == SubSeq(s, 1, n)
DropN(s, n)  == SubSeq(s, n + 1, Len(s))

\* processEvents and countNumWakeupEvents: wake-up events of a sequence.
CountWake(s) == Cardinality({i \in DOMAIN s : s[i] \in WakeEvents})

Room == EventQueueSize - Len(mEventQueue)

\* What the batches of the pending queue hold, one after the other, and without
\* the part W has written or given up and not yet removed.
PendingEvents ==
  FlattenSeq([i \in DOMAIN mPendingWriteEventsQueue |->
                mPendingWriteEventsQueue[i].events])
Unwritten == IF wpc = "wrote" THEN DropN(PendingEvents, wJob.n)
                              ELSE PendingEvents

\* mEventQueueWriteMutex is held by W between its test and its wait, and by
\* a poster inside postEventsToMessageQueue; mWakelockMutex by K likewise.
InPost == {"counting", "counted", "inpost"}
EventMutexFree == wpc # "blocking" /\ \A p \in SubHals : ppc[p] \notin InPost
WakelockMutexFree == kpc # "blocking"

\* Waking a thread that waits; a notification to any other thread is lost.
NotifyWriter_Never == wpc' = wpc    \* mutant: notify_one is forgotten
NotifyWriter == wpc' = IF wpc = "waiting" THEN "loop" ELSE wpc
NotifyWaker  == kpc' = IF kpc = "waiting" THEN "loop" ELSE kpc

(***************************************************************************)
(* The reference count. Increment and Decrement load mThreadsRun, without  *)
(* a mutex, and return if it is false (695, 711). Else they lock           *)
(* mWakelockMutex, and do their work also if a stop came in between. K     *)
(* holds the mutex at the load, and B stored what it loads: for them the   *)
(* two are one step. A poster and W are in a state of their own between.   *)
(***************************************************************************)
Increment_FirstTimed(delta) ==    \* mutant: only the first starts the timeout
  /\ WakelockMutexFree
  /\ wakelockHeld' = (wakelockHeld \/ mWakelockRefCount = 0)
  /\ IF mWakelockRefCount = 0 THEN NotifyWaker /\ elapsed' = 0
     ELSE UNCHANGED <<kpc, elapsed>>
  /\ mWakelockRefCount' = mWakelockRefCount + delta
Increment(delta) ==
  /\ WakelockMutexFree
  /\ wakelockHeld' = (wakelockHeld \/ mWakelockRefCount = 0)
  /\ IF mWakelockRefCount = 0 THEN NotifyWaker ELSE kpc' = kpc
  /\ elapsed' = 0
  /\ mWakelockRefCount' = mWakelockRefCount + delta

\* fresh: the reference was taken after mWakelockTimeoutResetTime.
Decrement(delta, fresh) ==
  LET left == mWakelockRefCount - AtMost(mWakelockRefCount, delta)
  IN  IF mWakelockRefCount = 0 \/ ~fresh
      THEN UNCHANGED countVars
      ELSE /\ mWakelockRefCount' = left
           /\ wakelockHeld' = (wakelockHeld /\ left # 0)
DecrementIfRunning(delta, fresh) ==
  IF mThreadsRun THEN Decrement(delta, fresh) ELSE UNCHANGED countVars

\* Moving mWakelockTimeoutResetTime makes every live ScopedWakelock stale.
MakeStale ==
  scoped' = [p \in SubHals |-> IF scoped[p] = "locked" THEN "stale"
                                                       ELSE scoped[p]]
\* Mutant: the count is cleared, the kernel wake lock is forgotten.
ResetSharedWakelock_NoRelease ==
  MakeStale /\ mWakelockRefCount' = 0 /\ UNCHANGED wakelockHeld
ResetSharedWakelock == MakeStale /\ DecrementIfRunning(mWakelockRefCount, TRUE)

-----------------------------------------------------------------------------
(***************************************************************************)
(* B: initializeCommon, from stopThreads to the sub-HALs' initialize.      *)
(***************************************************************************)
Goto(from, to)    == bpc = from /\ bpc' = to
Control(from, to) == Goto(from, to) /\ UNCHANGED <<data, threads, enabled>>

\* A new framework connects: the old one reads and acknowledges no more.
InitializeCall ==
  /\ Control("idle", "drain")
  /\ mThreadsRun' = FALSE /\ owed' = 0

\* stopThreads empties the event queue, so that W's blocking write returns,
\* and writes a zero to the wake lock queue, so that K's blocking read does.
DrainQueues ==
  /\ Goto("drain", "notify")
  /\ IF connected
     THEN /\ mEventQueue' = << >>
          /\ mWakeLockQueue' = IF Len(mWakeLockQueue) < WakeLockQueueSize
                               THEN Append(mWakeLockQueue, 0)
                               ELSE mWakeLockQueue
     ELSE UNCHANGED <<mEventQueue, mWakeLockQueue>>
  /\ UNCHANGED <<mThreadsRun, connected, pendingVars, countVars, elapsed,
                 threads, enabled, owed>>

NotifyWorkers ==
  /\ Goto("notify", "joinW")
  /\ NotifyWaker /\ NotifyWriter
  /\ UNCHANGED <<mThreadsRun, data, wJob, kLeft, posterVars, enabled, owed>>

Joined_Detached(pc) == TRUE    \* mutant: nobody waits for the thread
Joined(pc) == pc = "off"

JoinWriter ==
  Control("joinW", "joinK") /\ Joined(wpc) /\ UNCHANGED <<mThreadsRun, owed>>

JoinWaker ==
  Control("joinK", "reset") /\ Joined(kpc) /\ UNCHANGED <<mThreadsRun, owed>>

ResetOnInitialize ==
  /\ Goto("reset", "disable")
  /\ WakelockMutexFree /\ ResetSharedWakelock
  /\ UNCHANGED <<mThreadsRun, connected, mEventQueue, mWakeLockQueue,
                 pendingVars, elapsed, wpc, wJob, kpc, kLeft, ppc, batch,
                 enabled, owed>>

\* disableAllSensors: activate(handle, false) for every sensor.
Disable(p) ==
  /\ Goto("disable", "disable")
  /\ p \in enabled /\ enabled' = enabled \ {p}
  /\ UNCHANGED <<mThreadsRun, data, threads, owed>>

\* The sub-HALs are external: those that quiesce return from activate only
\* once a post under way has returned.
DisabledAll ==
  /\ Control("disable", "clear")
  /\ enabled = {}
  /\ SubHalsQuiesce => \A p \in SubHals : ppc[p] = "idle"
  /\ UNCHANGED <<mThreadsRun, owed>>

\* Neither assignment takes mEventQueueWriteMutex. Mutants: it is forgotten.
ClearPending_Skipped ==
  Control("clear", "clearSize") /\ UNCHANGED <<mThreadsRun, owed>>
ClearPending ==
  /\ Goto("clear", "clearSize")
  /\ mPendingWriteEventsQueue' = << >>
  /\ UNCHANGED <<mThreadsRun, connected, mEventQueue, mWakeLockQueue,
                 mSizePendingWriteEventsQueue, countVars, elapsed, threads,
                 enabled, owed>>

ClearSize_Skipped ==
  Control("clearSize", "install") /\ UNCHANGED <<mThreadsRun, owed>>
ClearSize ==
  /\ Goto("clearSize", "install")
  /\ mSizePendingWriteEventsQueue' = 0
  /\ UNCHANGED <<mThreadsRun, connected, mEventQueue, mWakeLockQueue,
                 mPendingWriteEventsQueue, countVars, elapsed, threads,
                 enabled, owed>>

\* The framework's new queues, with their positions reset, and their flags.
InstallQueues ==
  /\ Goto("install", "start")
  /\ connected' = TRUE /\ mEventQueue' = << >> /\ mWakeLockQueue' = << >>
  /\ UNCHANGED <<mThreadsRun, pendingVars, countVars, elapsed, threads,
                 enabled, owed>>

StartThreads ==
  Control("start", "spawn") /\ mThreadsRun' = TRUE /\ UNCHANGED owed

\* The two thread constructors, and initialize of every sub-HAL.
SpawnThreads ==
  /\ Goto("spawn", "idle")
  /\ wpc' = "loop" /\ kpc' = "loop"
  /\ UNCHANGED <<mThreadsRun, data, wJob, kLeft, posterVars, enabled, owed>>

BinderInitialize ==
  \/ DrainQueues \/ NotifyWorkers \/ JoinWriter \/ JoinWaker
  \/ ResetOnInitialize \/ (\E p \in SubHals : Disable(p)) \/ DisabledAll
  \/ ClearPending \/ ClearSize \/ InstallQueues \/ StartThreads \/ SpawnThreads

\* activate, called by the framework.
Activate(p, enable) ==
  /\ Goto("idle", "idle") /\ connected
  /\ enabled' = IF enable THEN enabled \union {p} ELSE enabled \ {p}
  /\ UNCHANGED <<mThreadsRun, data, threads, owed>>

-----------------------------------------------------------------------------
(***************************************************************************)
(* W: handlePendingWrites. Its loop runs under mEventQueueWriteMutex,      *)
(* which it gives up in the wait and around writeBlocking.                 *)
(***************************************************************************)
WStep(from, to) ==
  /\ wpc = from /\ wpc' = to
  /\ UNCHANGED <<mThreadsRun, connected, mWakeLockQueue, elapsed, kpc, kLeft,
                 posterVars, bpc, enabled, owed>>

WriterExit ==
  /\ WStep("loop", "off")
  /\ EventMutexFree /\ ~mThreadsRun
  /\ UNCHANGED <<mEventQueue, pendingVars, countVars, wJob>>

\* The wait's predicate is false; stopThreads may notify before the wait.
WriterTest ==
  /\ WStep("loop", "blocking")
  /\ EventMutexFree /\ mThreadsRun
  /\ mPendingWriteEventsQueue = << >>
  /\ UNCHANGED <<mEventQueue, pendingVars, countVars, wJob>>

WriterWait ==
  /\ WStep("blocking", "waiting")
  /\ UNCHANGED <<mEventQueue, pendingVars, countVars, wJob>>

WriterTake ==
  /\ WStep("loop", "writing")
  /\ EventMutexFree /\ mThreadsRun
  /\ mPendingWriteEventsQueue # << >>
  /\ LET front == Head(mPendingWriteEventsQueue)
     IN  wJob' = [n    |-> AtMost(Len(front.events), EventQueueSize),
                  wake |-> front.numWakeup]
  /\ UNCHANGED <<mEventQueue, pendingVars, countVars>>

WriterWrite ==
  /\ WStep("writing", "wrote")
  /\ Room >= wJob.n
  /\ mEventQueue' =
       mEventQueue \o TakeN(Head(mPendingWriteEventsQueue).events, wJob.n)
  /\ UNCHANGED <<pendingVars, countVars, wJob>>

\* What a failed write takes off the reference count.
DropDelta_None == 0    \* mutant: the references of dropped events are kept
DropDelta ==
  LET events == Head(mPendingWriteEventsQueue).events
  IN  IF Len(events) > EventQueueSize
      THEN CountWake(TakeN(events, EventQueueSize))
      ELSE wJob.wake

\* writeBlocking gives up after kPendingWriteTimeoutNs: the events are lost, and
\* the references of wake-up events are to be given back.
WriterTimeout_Never == FALSE    \* mutant: a write without a timeout
WriterTimeout ==
  /\ WStep("writing", IF wJob.wake > 0 THEN "failed" ELSE "wrote")
  /\ Room < wJob.n
  /\ UNCHANGED <<mEventQueue, pendingVars, countVars, wJob>>

\* Decrement returns at once when the threads do not run, and else goes on.
WriterKeepsCount ==
  /\ WStep("failed", "wrote") /\ ~mThreadsRun
  /\ UNCHANGED <<mEventQueue, pendingVars, countVars, wJob>>
WriterMayDrop ==
  /\ WStep("failed", "dropping") /\ mThreadsRun
  /\ UNCHANGED <<mEventQueue, pendingVars, countVars, wJob>>
WriterDrop ==
  /\ WStep("dropping", "wrote")
  /\ WakelockMutexFree /\ Decrement(DropDelta, TRUE)
  /\ UNCHANGED <<mEventQueue, pendingVars, wJob>>

\* A batch longer than the event queue loses its written part and stays at
\* the front, its numWakeup as it was; a shorter one is popped.
WriterFinish ==
  /\ WStep("wrote", "loop")
  /\ EventMutexFree
  /\ mSizePendingWriteEventsQueue' =
       (mSizePendingWriteEventsQueue + SizeModulus - wJob.n) % SizeModulus
  /\ LET events == Head(mPendingWriteEventsQueue).events
     IN  mPendingWriteEventsQueue' =
           IF Len(events) > EventQueueSize
           THEN [mPendingWriteEventsQueue EXCEPT
                   ![1].events = DropN(events, EventQueueSize)]
           ELSE Tail(mPendingWriteEventsQueue)
  /\ wJob' = NoJob
  /\ UNCHANGED <<mEventQueue, countVars>>

Writer ==
  WriterExit \/ WriterTest \/ WriterWait \/ WriterTake \/ WriterWrite
  \/ WriterTimeout \/ WriterKeepsCount \/ WriterMayDrop \/ WriterDrop \/ WriterFinish

-----------------------------------------------------------------------------
(***************************************************************************)
(* K: handleWakelocks. Its loop runs under mWakelockMutex, which it gives  *)
(* up in the wait and around readBlocking.                                 *)
(***************************************************************************)
KStep(from, to) ==
  /\ kpc = from /\ kpc' = to
  /\ UNCHANGED <<mThreadsRun, connected, mEventQueue, pendingVars, elapsed,
                 wpc, wJob, ppc, batch, bpc, enabled, owed>>

WakerExit ==
  /\ KStep("loop", "off")
  /\ ~mThreadsRun
  /\ ResetSharedWakelock
  /\ UNCHANGED <<mWakeLockQueue, kLeft>>

WakerTest ==
  /\ KStep("loop", "blocking")
  /\ mThreadsRun /\ mWakelockRefCount = 0
  /\ UNCHANGED <<mWakeLockQueue, countVars, kLeft, scoped>>

WakerWait ==
  /\ KStep("blocking", "waiting")
  /\ UNCHANGED <<mWakeLockQueue, countVars, kLeft, scoped>>

\* sharedWakelockDidTimeout.
DidTimeout_Never == FALSE    \* mutant: the timeout goes unnoticed
DidTimeout == elapsed >= WakelockTimeout
TimeLeft   == WakelockTimeout - elapsed

WakerReset ==
  /\ KStep("loop", "loop")
  /\ mThreadsRun /\ mWakelockRefCount > 0 /\ DidTimeout
  /\ ResetSharedWakelock
  /\ UNCHANGED <<mWakeLockQueue, kLeft>>

WakerRead ==
  /\ KStep("loop", "reading")
  /\ mThreadsRun /\ mWakelockRefCount > 0 /\ ~DidTimeout
  /\ kLeft' = TimeLeft
  /\ UNCHANGED <<mWakeLockQueue, countVars, scoped>>

WakerAcked ==
  /\ KStep("reading", "loop")
  /\ mWakeLockQueue # << >>
  /\ mWakeLockQueue' = Tail(mWakeLockQueue)
  /\ DecrementIfRunning(Head(mWakeLockQueue), TRUE)
  /\ kLeft' = 0 /\ UNCHANGED scoped

WakerNoAck ==
  /\ KStep("reading", "loop")
  /\ mWakeLockQueue = << >> /\ kLeft = 0
  /\ UNCHANGED <<mWakeLockQueue, countVars, kLeft, scoped>>

Waker ==
  WakerExit \/ WakerTest \/ WakerWait \/ WakerReset \/ WakerRead
  \/ WakerAcked \/ WakerNoAck

-----------------------------------------------------------------------------
(***************************************************************************)
(* Posters: a sub-HAL's createScopedWakelock, then postEvents.             *)
(***************************************************************************)
PStep(p, from, to) ==
  /\ ppc[p] = from /\ ppc' = [ppc EXCEPT ![p] = to]
  /\ UNCHANGED <<mThreadsRun, connected, mWakeLockQueue, wJob, kLeft, bpc,
                 enabled, owed>>
PMove(p, from, to) ==
  PStep(p, from, to) /\ UNCHANGED <<data, wpc, kpc, scoped, batch>>

\* createScopedWakelock(lock), with lock as the assertions of postEvents ask:
\* when the batch has a wake-up event. The reference is taken only when
\* incrementRefCountAndMaybeAcquireWakelock returns true.
BeginPost(p, b) ==
  LET lock == CountWake(b) > 0 /\ mThreadsRun
  IN  /\ PStep(p, "idle", IF lock THEN "creating" ELSE "created")
      /\ p \in enabled /\ mWakelockRefCount <= MaxRefCount
      /\ batch' = [batch EXCEPT ![p] = b]
      /\ scoped' = [scoped EXCEPT ![p] = IF lock THEN "none" ELSE "unlocked"]
      /\ UNCHANGED <<data, wpc, kpc>>
CreateLocked(p) ==
  /\ PStep(p, "creating", "created")
  /\ Increment(1) /\ scoped' = [scoped EXCEPT ![p] = "locked"]
  /\ UNCHANGED <<mEventQueue, pendingVars, wpc, batch>>

\* The early return of postEvents, and its way on.
RefusePost(p) == PMove(p, "created", "posted") /\ ~mThreadsRun
AdmitPost_Unchecked(p) == PMove(p, "created", "posting")  \* mutant: no test
AdmitPost(p) == PMove(p, "created", "posting") /\ mThreadsRun

\* isLocked() is the wakelock's own flag: a reset does not clear it. A
\* reference taken before the last reset is not given back.
IsLocked(p) == scoped[p] \in {"locked", "stale"}
IsFresh_Always(p) == TRUE    \* mutant: the reset time is not compared
IsFresh(p) == scoped[p] = "locked"

\* With the mutex the wake-up events are counted, if the threads run still.
EnterPost(p) ==
  /\ PMove(p, "posting", IF IsLocked(p) /\ mThreadsRun THEN "counting" ELSE "inpost")
  /\ EventMutexFree
CountPost(p) ==
  /\ PStep(p, "counting", "counted")
  /\ Increment(CountWake(batch[p]))
  /\ UNCHANGED <<mEventQueue, pendingVars, wpc, scoped, batch>>

\* How many events go straight to the event queue, and does the rest fit?
DirectWrite_Always(b) == AtMost(Len(b), Room)  \* mutant: overtakes the pending
DirectWrite(b) ==
  IF mPendingWriteEventsQueue = << >> THEN AtMost(Len(b), Room) ELSE 0
RestFits(numLeft) ==
  (mSizePendingWriteEventsQueue + numLeft) % SizeModulus <= MaxPending

\* The rest of postEventsToMessageQueue. What is queued carries the wake-up
\* count of the whole batch; a rest that does not fit is lost.
PostToQueue(p) ==
  LET b == batch[p]
      rest == DropN(b, DirectWrite(b))
  IN
  /\ ppc[p] \in {"counted", "inpost"} /\ PStep(p, ppc[p], "posted")
  /\ mEventQueue' = mEventQueue \o TakeN(b, DirectWrite(b))
  /\ IF rest # << >> /\ RestFits(Len(rest))
     THEN /\ mPendingWriteEventsQueue' =
               Append(mPendingWriteEventsQueue,
                      [events |-> rest, numWakeup |-> CountWake(b)])
          /\ mSizePendingWriteEventsQueue' =
               (mSizePendingWriteEventsQueue + Len(rest)) % SizeModulus
          /\ NotifyWriter
     ELSE UNCHANGED <<pendingVars, wpc>>
  /\ UNCHANGED <<countVars, elapsed, kpc, scoped, batch>>

\* The destructor of ScopedWakelock gives its reference back.
Destroyed(p) ==
  /\ scoped' = [scoped EXCEPT ![p] = "none"]
  /\ batch' = [batch EXCEPT ![p] = << >>]
EndPost(p) ==
  /\ PStep(p, "posted", "idle")
  /\ IsLocked(p) => ~mThreadsRun
  /\ Destroyed(p) /\ UNCHANGED <<data, wpc, kpc>>
MayRelease(p) == PMove(p, "posted", "releasing") /\ IsLocked(p) /\ mThreadsRun
Release(p) ==
  /\ PStep(p, "releasing", "idle")
  /\ WakelockMutexFree /\ Decrement(1, IsFresh(p)) /\ Destroyed(p)
  /\ UNCHANGED <<mEventQueue, pendingVars, elapsed, wpc, kpc>>

Poster(p) ==
  \/ CreateLocked(p) \/ RefusePost(p) \/ AdmitPost(p) \/ EnterPost(p) \/ CountPost(p)
  \/ PostToQueue(p) \/ EndPost(p) \/ MayRelease(p) \/ Release(p)

-----------------------------------------------------------------------------
(***************************************************************************)
(* The framework, external to the repository, and the passage of time.     *)
(***************************************************************************)
FrameworkRead(k) ==
  /\ bpc = "idle" /\ connected
  /\ k <= Len(mEventQueue) /\ owed <= MaxOwed
  /\ mEventQueue' = DropN(mEventQueue, k)
  /\ owed' = owed + CountWake(TakeN(mEventQueue, k))
  /\ UNCHANGED <<mThreadsRun, connected, mWakeLockQueue, pendingVars,
                 countVars, elapsed, threads, bpc, enabled>>

FrameworkAck ==
  /\ bpc = "idle"
  /\ owed > 0 /\ Len(mWakeLockQueue) < WakeLockQueueSize
  /\ mWakeLockQueue' = Append(mWakeLockQueue, owed) /\ owed' = 0
  /\ UNCHANGED <<mThreadsRun, connected, mEventQueue, pendingVars, countVars,
                 elapsed, threads, bpc, enabled>>

\* No one reads elapsed or kLeft unless there are references or K reads.
Tick ==
  /\ mWakelockRefCount > 0 \/ kpc = "reading"
  /\ elapsed' = AtMost(elapsed + 1, WakelockTimeout)
  /\ kLeft' = IF kpc = "reading" /\ kLeft > 0 THEN kLeft - 1 ELSE kLeft
  /\ UNCHANGED <<mThreadsRun, connected, mEventQueue, mWakeLockQueue,
                 pendingVars, countVars, wpc, wJob, kpc, posterVars, bpc,
                 enabled, owed>>

-----------------------------------------------------------------------------
Next ==
  \/ InitializeCall
  \/ BinderInitialize
  \/ \E p \in SubHals, enable \in BOOLEAN : Activate(p, enable)
  \/ Writer
  \/ Waker
  \/ \E p \in SubHals : Poster(p) \/ \E b \in Batches : BeginPost(p, b)
  \/ \E k \in 1..EventQueueSize : FrameworkRead(k)
  \/ FrameworkAck
  \/ Tick

Spec == Init /\ [][Next]_vars

\* Threads are scheduled, waits and blocking calls return as their library
\* promises, time passes. Nothing obliges a sub-HAL to post, or the framework
\* to read, acknowledge, activate or initialize.
FairSpec ==
  /\ Spec
  /\ WF_vars(BinderInitialize)
  /\ WF_vars(Writer)
  /\ WF_vars(Waker)
  /\ \A p \in SubHals : WF_vars(Poster(p))
  /\ WF_vars(Tick)

-----------------------------------------------------------------------------
(***************************************************************************)
(* Safety.                                                                 *)
(***************************************************************************)

\* The kernel wake lock is held exactly while there are references, through
\* timeouts, stale ScopedWakelocks, failed writes and restarts: acquire and
\* release of lines 693-723 stay paired.
HeldIffCounted == wakelockHeld <=> mWakelockRefCount > 0

\* Who was past the test of mThreadsRun, and is to change the count.
CountAdmitted ==
  wpc = "dropping" \/ \E p \in SubHals : ppc[p] \in {"creating", "counting", "releasing"}

\* Posts, acknowledgements, drops, timeouts and restarts use the count as one
\* shared lock: references and lock change together (693-723), never while the
\* proxy is stopped and nobody is left who was admitted before, and each taking
\* starts the timeout anew (701).
Lock == INSTANCE WakeLock WITH
          Timeout <- WakelockTimeout, running <- mThreadsRun \/ CountAdmitted,
          references <- mWakelockRefCount, held <- wakelockHeld, age <- elapsed
LockIsShared == Lock!Spec

\* While W writes outside the mutex (584-602), the locals it captured still
\* describe the batch at the front: nobody pops, trims or clears it.
WriterOwnsFront ==
  wpc \in {"writing", "failed", "dropping", "wrote"} =>
    /\ mPendingWriteEventsQueue # << >>
    /\ LET front == Head(mPendingWriteEventsQueue)
       IN  /\ wJob.n = AtMost(Len(front.events), EventQueueSize)
           /\ wJob.wake = front.numWakeup

\* The event FMQ allows one writer at a time: no poster writes it directly
\* (line 670) while W may be inside writeBlocking without the mutex.
SingleEventQueueWriter ==
  \A p \in SubHals :
    ppc[p] \in InPost /\ wpc = "writing" => DirectWrite(batch[p]) = 0

\* initializeCommon swaps queues, flags and counters without a mutex: it may
\* because both workers are gone from the join (534-555) to the restart.
WorkersOffDuringSwap ==
  bpc \in {"reset", "disable", "clear", "clearSize", "install", "start", "spawn"}
    => /\ wpc = "off" /\ kpc = "off"
       /\ mThreadsRun <=> bpc = "spawn"

\* Threads and flag agree outside initializeCommon: a running proxy has both
\* workers, a stopped one that was never initialized has none.
WorkersMatchFlag ==
  /\ bpc = "idle" /\ connected => mThreadsRun /\ wpc # "off" /\ kpc # "off"
  /\ ~connected => wpc = "off" /\ kpc = "off" /\ enabled = {}

\* The counter of pending events equals the events pending and respects
\* kMaxSizePendingWriteEventsQueue (682-686, 603-610), so it never wraps.
PendingSizeExact ==
  /\ bpc # "clearSize" =>
       mSizePendingWriteEventsQueue = Len(PendingEvents)
  /\ mSizePendingWriteEventsQueue <= MaxPending

\* The comment of HalProxy.cpp:219-220: the pending queue "can be cleared
\* safely and when we start threads again we do not get new events until
\* after initialize resets the subhals".
FreshStart ==
  /\ bpc \in {"clear", "clearSize"} => \A p \in SubHals : ppc[p] \notin InPost
  /\ bpc \in {"start", "spawn"} => /\ mEventQueue = << >>
                                   /\ mPendingWriteEventsQueue = << >>
                                   /\ mSizePendingWriteEventsQueue = 0
                                   /\ \A p \in SubHals : ppc[p] = "idle"

\* The assertions of HalProxyCallback.cpp:47 and :52: past the running check,
\* a batch with wake-up events holds a locked ScopedWakelock, another none.
WakePostsLocked ==
  \A p \in SubHals : ppc[p] \in {"posting"} \union InPost =>
    (IsLocked(p) <=> CountWake(batch[p]) > 0)

\* "Dropping %zu events after blockingWrite failed" (591): giving up on
\* numToWrite events takes no more than numToWrite references off the count.
DropIsExact == wpc = "dropping" => DropDelta <= wJob.n

-----------------------------------------------------------------------------
(***************************************************************************)
(* Safety that the liveness below rests on.                                *)
(***************************************************************************)
\* Both waits test their predicate under the mutex (573-577, 616-619); this is
\* from the test on until a notification.
Asleep(pc) == pc \in {"blocking", "waiting"}

\* No wake-up is lost while the threads run: a worker that waits, or is about
\* to, has nothing to do. Who appends a batch (689) or takes the first
\* reference (697-699) notifies under the mutex or after it.
SleepersHaveNoWork ==
  /\ Asleep(wpc) => mPendingWriteEventsQueue = << >>
  /\ Asleep(kpc) => mWakelockRefCount = 0

\* While the kernel wake lock is held, somebody is going to release it: K is
\* about to look at the count, or its blocking read ends no later than the
\* timeout that runs since the last reference was taken (623-638).
HeldLockIsWatched ==
  wakelockHeld /\ connected /\ bpc = "idle" =>
    kpc = "loop" \/ (kpc = "reading" /\ kLeft <= TimeLeft)

\* initializeCommon waits in a join (550-555) for a thread that sleeps, and
\* nobody is left who would wake it. A post under way still might wake W, and one
\* that takes a reference K.
Hung ==
  \/ /\ bpc \in {"joinW", "joinK"} /\ Asleep(kpc)
     /\ \A p \in SubHals : ppc[p] \notin {"creating", "counting"}
  \/ /\ bpc = "joinW" /\ Asleep(wpc)
     /\ \A p \in SubHals : ppc[p] \notin {"posting"} \union InPost

\* A hang is for ever: no post, acknowledgement or timeout ends the join.
HangLasts == [][Hung => Hung']_vars

-----------------------------------------------------------------------------
(***************************************************************************)
(* Liveness.                                                               *)
(***************************************************************************)
Quiet == bpc = "idle" /\ \A p \in SubHals : ppc[p] = "idle"

\* Whatever was leaked, lost or left by a restart, once the sub-HALs stop
\* posting the timeout of handleWakelocks (623-638) frees the wake lock, even
\* if the framework never acknowledges anything.
WakelockReleased == <>[]Quiet => <>[]~wakelockHeld

\* Every pending batch is written or given up (573-613), even if the
\* framework never reads.
PendingDrained == <>[]Quiet => <>[](mPendingWriteEventsQueue = << >>)

\* stopThreads stores the flag and notifies without the mutexes (535-548): a
\* worker between its test and its wait misses the notification, and the join
\* never returns. That window is the only way to hang initializeCommon.
LostNotifyWindow ==
  bpc \in {"drain", "notify"} /\ (wpc = "blocking" \/ kpc = "blocking")
InitializeReturns == []~LostNotifyWindow => (bpc = "drain" ~> bpc = "idle")
=============================================================================
