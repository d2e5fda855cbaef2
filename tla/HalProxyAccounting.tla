------------------------- MODULE HalProxyAccounting -------------------------
(***************************************************************************)
(* Bookkeeping beside HalProxyEvents: does mWakelockRefCount count what it *)
(* is meant to count, the wake-up events on their way to the framework and *)
(* not acknowledged, plus the live ScopedWakelocks? Two history variables  *)
(* remember whether something happened that lets the count fall short of   *)
(* that, or run over it.                                                   *)
(***************************************************************************)
EXTENDS HalProxyEvents

VARIABLES
  clean,    \* since nothing was in flight, no event lost its reference
  tight     \* since no reference was left, no reference lost its event

\* The sum of a sequence, by its prefixes.
Total(s) ==
  LET total[i \in 0..Len(s)] == IF i = 0 THEN 0 ELSE total[i - 1] + s[i]
  IN  total[Len(s)]

\* Wake-up events that a post under the mutex has counted and not yet queued.
Counted == LET p == CHOOSE p \in SubHals : ppc[p] = "counted"
           IN  IF \E q \in SubHals : ppc[q] = "counted" THEN CountWake(batch[p]) ELSE 0

\* Wake-up events counted whose acknowledgement K has not read. Those that W has
\* given up are among them until it gives back their references.
InFlight == Counted + CountWake(mEventQueue) + CountWake(Unwritten) + owed
            + Total(mWakeLockQueue)

LiveWakelocks == Cardinality({p \in SubHals : scoped[p] = "locked"})

-----------------------------------------------------------------------------
\* The timeout forgets every reference, whatever is still in flight.
TimeoutFault == WakerReset

\* W gives up the written events of a split batch once more.
DropFault ==
  /\ WriterDrop
  /\ DropDelta >
       CountWake(TakeN(Head(mPendingWriteEventsQueue).events, wJob.n))

\* Wake-up events enter after a stop, or with a ScopedWakelock that was created
\* while the threads were stopped.
UncountedFault ==
  \E p \in SubHals : PostToQueue(p) /\ ppc[p] = "inpost" /\ CountWake(batch[p]) > 0

\* A full pending queue refuses the rest of a batch already counted (682).
OverflowLeak ==
  \E p \in SubHals :
    /\ PostToQueue(p)
    /\ LET k == DirectWrite(batch[p])
       IN  ~RestFits(Len(batch[p]) - k) /\ CountWake(DropN(batch[p], k)) > 0

\* While the threads are stopped nothing is taken off the count (711).
StopLeak == ~mThreadsRun'

InitAudit == Init /\ clean = TRUE /\ tight = TRUE

NextAudit ==
  /\ Next
  /\ clean' = \/ clean /\ ~TimeoutFault /\ ~DropFault /\ ~UncountedFault
              \/ InFlight' + LiveWakelocks' = 0
  /\ tight' = \/ tight /\ ~OverflowLeak /\ ~StopLeak
              \/ mWakelockRefCount' = 0

SpecAudit == InitAudit /\ [][NextAudit]_<<vars, clean, tight>>

-----------------------------------------------------------------------------
\* Unless the timeout fired, a split batch was given up or a post met a stop,
\* every wake-up event under way and every live ScopedWakelock has its
\* reference: the device cannot sleep on an undelivered wake-up event. The
\* proxy is back in this state as soon as nothing is in flight.
WakeEventsCovered == clean => mWakelockRefCount >= InFlight + LiveWakelocks

\* Unless the pending queue overflowed or the threads were stopped, there is
\* no reference without its event or ScopedWakelock: nothing keeps the device
\* awake for nothing. The proxy is back in this state at count zero.
NoReferenceLeak == tight => mWakelockRefCount <= InFlight + LiveWakelocks
=============================================================================
