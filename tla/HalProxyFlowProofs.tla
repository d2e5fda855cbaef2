------------------------- MODULE HalProxyFlowProofs -------------------------
(***************************************************************************)
(* Theorems of HalProxyDelivery and HalProxyAccounting, for every set of   *)
(* sub-HALs, every size of the queues and every set of batches, whether or *)
(* not the sub-HALs quiesce: the event path is a channel that loses but    *)
(* never reorders; what the reference count covers, and what it may not    *)
(* exceed.                                                                 *)
(***************************************************************************)
EXTENDS HalProxyDelivery, HalProxyAccounting, HalProxyEventsProofs

-----------------------------------------------------------------------------
(***************************************************************************)
(* Delivery: each step of the event path is one of LossyFifo, or none.     *)
(***************************************************************************)
\* A sequence before another is what is taken first, and what is taken off after it
\* comes off the other.
LEMMA DropBehind ==
  ASSUME NEW S, NEW s \in Seq(S), NEW t \in Seq(S), NEW k \in 0..Len(t)
  PROVE  /\ TakeN(s \o t, Len(s)) = s
         /\ DropN(s \o t, Len(s) + k) = DropN(t, k)
<1> DEFINE n == Len(s)
           m == Len(t)
           u == s \o t
           a == TakeN(u, n)
           b == DropN(u, n + k)
           d == DropN(t, k)
<1>1. /\ n \in Nat /\ m \in Nat /\ u \in Seq(S) /\ Len(u) = n + m
      /\ \A i \in 1..(n + m) : u[i] = IF i <= n THEN s[i] ELSE t[i - n]
  BY LenProperties, ConcatProperties
<1>2. d \in Seq(S) /\ Len(d) = m - k /\ \A i \in 1..(m - k) : d[i] = t[k + i]
  BY TakeDropElements
<1> HIDE DEF u, d
<1>3. n \in 0..Len(u) /\ n + k \in 0..Len(u)
  BY <1>1
<1>4. a \in Seq(S) /\ Len(a) = n /\ \A i \in 1..n : a[i] = u[i]
  BY <1>1, <1>3, TakeDropElements
<1>5. /\ b \in Seq(S) /\ Len(b) = Len(u) - (n + k)
      /\ \A i \in 1..(Len(u) - (n + k)) : b[i] = u[(n + k) + i]
  BY <1>1, <1>3, TakeDropElements
<1> HIDE DEF a, b
<1>6. a = s
  <2>1. ASSUME NEW i \in 1..Len(a) PROVE a[i] = s[i]
    <3>1. i \in 1..n /\ i \in 1..(n + m) /\ i <= n
      BY <1>1, <1>4
    <3> HIDE DEF n, m
    <3> QED BY <1>1, <1>4, <3>1
  <2> QED BY <1>4, <2>1, SeqEqual
<1>7. b = d
  <2>0. Len(b) = Len(d)
    BY <1>1, <1>2, <1>5
  <2>1. ASSUME NEW i \in 1..Len(b) PROVE b[i] = d[i]
    <3>1. /\ i \in 1..(Len(u) - (n + k)) /\ i \in 1..(m - k)
          /\ (n + k) + i \in 1..(n + m) /\ ~((n + k) + i <= n)
          /\ (n + k) + i - n = k + i
      BY <1>1, <1>5
    <3> HIDE DEF n, m
    <3>2. b[i] = u[(n + k) + i] /\ u[(n + k) + i] = t[(n + k) + i - n]
      BY <1>1, <1>5, <3>1
    <3> QED BY <1>2, <3>1, <3>2
  <2> QED BY <1>2, <1>5, <2>0, <2>1, SeqEqual
<1> QED BY <1>6, <1>7, Zenon DEF a, b, d, u, n

\* In the channel: the events the framework has not read, then the unwritten ones.
LEMMA ChannelType ==
  ASSUME IInv
  PROVE  /\ mEventQueue \in Seq(Events) /\ Len(mEventQueue) \in Nat
         /\ Unwritten \in Seq(Events) /\ Len(Unwritten) \in Nat
         /\ mEventQueue \o Unwritten \in Seq(Events)
         /\ Len(mEventQueue \o Unwritten) = Len(mEventQueue) + Len(Unwritten)
<1>1. mEventQueue \in Seq(Events)
  BY DEF IInv, TypeOK
<1>2. PendingEvents \in Seq(Events)
  BY PendingType DEF IInv
<1>3. Unwritten \in Seq(Events)
  <2>1. CASE wpc = "wrote"
    <3>1. wJob.n \in 0..Len(PendingEvents)
      <4>1. /\ PendingEvents = FrontEvents \o Behind
            /\ FrontEvents \in Seq(Events) /\ Behind \in Seq(Events)
            /\ wJob.n \in 0..Len(FrontEvents)
        BY <2>1, FrontHeld DEF WithFront
      <4>2. Len(PendingEvents) = Len(FrontEvents) + Len(Behind)
            /\ Len(Behind) \in Nat /\ Len(FrontEvents) \in Nat
        BY <4>1, ConcatProperties, LenProperties
      <4> QED BY <4>1, <4>2
    <3> QED BY <1>2, <2>1, <3>1, DropType DEF Unwritten
  <2>2. CASE wpc # "wrote"
    BY <1>2, <2>2 DEF Unwritten
  <2> QED BY <2>1, <2>2
<1> QED BY <1>1, <1>3, LenProperties, ConcatProperties

\* Events are read, or thrown away, at the front.
LEMMA FrontLeaves ==
  ASSUME IInv, NEW k \in 0..Len(mEventQueue), mEventQueue' = DropN(mEventQueue, k),
         Unwritten' = Unwritten, Offered' = Offered
  PROVE  Fifo!Next
<1> DEFINE c == mEventQueue \o Unwritten
<1>1. /\ c \in Seq(Events) /\ Len(c) = Len(mEventQueue) + Len(Unwritten)
      /\ mEventQueue \in Seq(Events) /\ Unwritten \in Seq(Events)
      /\ Len(mEventQueue) \in Nat /\ Len(Unwritten) \in Nat
  BY ChannelType
<1>2. (mEventQueue \o Unwritten)' = DropN(mEventQueue, k) \o Unwritten
  BY Zenon
<1>3. DropN(c, k) = DropN(mEventQueue, k) \o Unwritten
  BY <1>1, DropOfConcat
<1>4. SubSeq(c, 1, 0) = << >> /\ DropN(c, k) \in Seq(Events)
  <2> HIDE DEF c
  <2> QED BY <1>1, SubSeqEmpty, DropType
<1>5. << >> \o DropN(c, k) = DropN(c, k)
  <2> HIDE DEF c
  <2> QED BY <1>4, ConcatEmptySeq
<1>6. (mEventQueue \o Unwritten)' = SubSeq(c, 1, 0) \o SubSeq(c, k + 1, Len(c))
  BY <1>2, <1>3, <1>4, <1>5, Zenon DEF DropN
<1>7. Fifo!Leave(0, k)
  BY <1>6 DEF Fifo!Leave
<1>8. 0 \in 0..Len(c) /\ k \in 0..Len(c)
  BY <1>1
<1> QED BY <1>7, <1>8 DEF Fifo!Next

\* Events that were being written, or all that pend, are given up.
LEMMA MiddleLeaves ==
  ASSUME IInv, NEW k \in 0..Len(Unwritten), mEventQueue' = mEventQueue,
         Unwritten' = DropN(Unwritten, k), Offered' = Offered
  PROVE  Fifo!Next
<1> DEFINE c == mEventQueue \o Unwritten
           i == Len(mEventQueue)
<1>1. /\ Len(c) = Len(mEventQueue) + Len(Unwritten)
      /\ mEventQueue \in Seq(Events) /\ Unwritten \in Seq(Events)
      /\ Len(mEventQueue) \in Nat /\ Len(Unwritten) \in Nat
  BY ChannelType
<1>2. (mEventQueue \o Unwritten)' = mEventQueue \o DropN(Unwritten, k)
  BY Zenon
<1>3. TakeN(c, i) = mEventQueue /\ DropN(c, i + k) = DropN(Unwritten, k)
  BY <1>1, DropBehind
<1>4. (mEventQueue \o Unwritten)' = SubSeq(c, 1, i) \o SubSeq(c, (i + k) + 1, Len(c))
  BY <1>2, <1>3, Zenon DEF TakeN, DropN
<1>5. Fifo!Leave(i, i + k)
  BY <1>4 DEF Fifo!Leave
<1>6. i \in 0..Len(c) /\ i + k \in i..Len(c)
  BY <1>1
<1> QED BY <1>5, <1>6 DEF Fifo!Next

\* A batch is on offer from createScopedWakelock until postEvents has put it into
\* the queues or refused it; no batch is empty.
OffersFull ==
  \A p \in SubHals :
    ppc[p] \in {"creating", "created", "posting"} \union InPost => batch[p] # << >>

\* Every step keeps it so.
LEMMA OffersStep == IInv /\ OffersFull /\ [Next]_vars => OffersFull'
<1> SUFFICES ASSUME IInv, OffersFull, [Next]_vars PROVE OffersFull'
  OBVIOUS
<1> USE DEF PStep, PMove, threads, posterVars, Control, WStep, KStep
<1>1. CASE UNCHANGED <<ppc, batch>>
  BY <1>1 DEF OffersFull
<1>2. ASSUME NEW p \in SubHals,
             Poster(p) \/ \E b \in Batches : BeginPost(p, b)
      PROVE  OffersFull'
  BY <1>2, BoundsAssumption
     DEF Poster, CreateLocked, RefusePost, AdmitPost, EnterPost, CountPost,
        PostToQueue, EndPost, MayRelease, Release, Destroyed, BeginPost, IInv,
        TypeOK, OffersFull, InPost
<1>3. CASE InitializeCall \/ BinderInitialize
  BY <1>1, <1>3 DEF InitializeCall, BinderInitialize, DrainQueues, NotifyWorkers,
     JoinWriter, JoinWaker, ResetOnInitialize, Disable, DisabledAll,
     ClearPending, ClearSize, InstallQueues, StartThreads, SpawnThreads
<1>4. CASE \E p \in SubHals, enable \in BOOLEAN : Activate(p, enable)
  BY <1>1, <1>4 DEF Activate
<1>5. CASE Writer
  BY <1>1, <1>5 DEF Writer, WriterExit, WriterTest, WriterWait, WriterTake,
     WriterWrite, WriterTimeout, WriterKeepsCount, WriterMayDrop, WriterDrop,
     WriterFinish
<1>6. CASE Waker
  BY <1>1, <1>6 DEF Waker, WakerExit, WakerTest, WakerWait, WakerReset, WakerRead,
     WakerAcked, WakerNoAck
<1>7. CASE \E k \in 1..EventQueueSize : FrameworkRead(k)
  BY <1>1, <1>7 DEF FrameworkRead
<1>8. CASE FrameworkAck \/ Tick \/ UNCHANGED vars
  BY <1>1, <1>8 DEF FrameworkAck, Tick, vars
<1> QED BY <1>2, <1>3, <1>4, <1>5, <1>6, <1>7, <1>8 DEF Next

\* A step that leaves the queues and the offers alone does not move the channel.
LEMMA NothingMoves ==
  ASSUME UNCHANGED <<mEventQueue, mPendingWriteEventsQueue, ppc, batch>>,
         wpc' = "wrote" <=> wpc = "wrote", wpc = "wrote" => wJob' = wJob
  PROVE  UNCHANGED Fifo!vars
<1>1. PendingEvents' = PendingEvents
  BY DEF PendingEvents
<1>2. Unwritten' = Unwritten
  BY <1>1 DEF Unwritten
<1>3. Offered' = Offered
  BY DEF Offered
<1> QED BY <1>2, <1>3 DEF Fifo!vars

\* The same, as far as the offers go.
LEMMA OffersKept ==
  ASSUME UNCHANGED <<ppc, batch>>
  PROVE  Offered' = Offered
BY DEF Offered

\* W writes the head of what is unwritten to the end of the event queue (584-589),
\* which does not move the channel; what it gives up leaves it.
LEMMA WriterMoves ==
  ASSUME IInv, Writer
  PROVE  [Fifo!Next]_(Fifo!vars)
<1> USE DEF WStep, pendingVars, posterVars
<1>1. CASE WriterExit \/ WriterTest \/ WriterWait \/ WriterTake \/ WriterMayDrop
  BY <1>1, NothingMoves DEF WriterExit, WriterTest, WriterWait, WriterTake,
     WriterMayDrop
<1>2. ASSUME wpc \in {"writing", "failed", "dropping"}
      PROVE  /\ PendingEvents = Unwritten /\ PendingEvents \in Seq(Events)
             /\ wJob.n \in 0..Len(Unwritten)
             /\ PendingEvents = FrontEvents \o Behind
             /\ FrontEvents \in Seq(Events) /\ Behind \in Seq(Events)
             /\ wJob.n \in 0..Len(FrontEvents)
  <2>1. /\ PendingEvents = FrontEvents \o Behind
        /\ FrontEvents \in Seq(Events) /\ Behind \in Seq(Events)
        /\ wJob.n \in 0..Len(FrontEvents)
    BY <1>2, FrontHeld DEF WithFront
  <2>2. Len(PendingEvents) = Len(FrontEvents) + Len(Behind)
        /\ Len(Behind) \in Nat /\ Len(FrontEvents) \in Nat
        /\ PendingEvents \in Seq(Events)
    BY <2>1, ConcatProperties, LenProperties
  <2>3. PendingEvents = Unwritten
    BY <1>2 DEF Unwritten
  <2> QED BY <2>1, <2>2, <2>3
<1>3. ASSUME wpc \in {"writing", "failed", "dropping"}, wpc' = "wrote", wJob' = wJob,
             UNCHANGED mPendingWriteEventsQueue
      PROVE  Unwritten' = DropN(Unwritten, wJob.n)
  <2>1. PendingEvents' = PendingEvents
    BY <1>3 DEF PendingEvents
  <2> QED BY <1>2, <1>3, <2>1 DEF Unwritten
<1>4. CASE WriterWrite
  <2>1. /\ wpc = "writing" /\ wpc' = "wrote" /\ wJob' = wJob
        /\ UNCHANGED <<mPendingWriteEventsQueue, ppc, batch>>
        /\ mEventQueue' = mEventQueue \o TakeN(FrontEvents, wJob.n)
    BY <1>4 DEF WriterWrite, FrontEvents
  <2> DEFINE n == wJob.n
             head == TakeN(FrontEvents, n)
             tail == DropN(FrontEvents, n)
  <2>2. /\ head \in Seq(Events) /\ tail \in Seq(Events) /\ Behind \in Seq(Events)
        /\ mEventQueue \in Seq(Events) /\ FrontEvents = head \o tail
    BY <1>2, <2>1, TakeType, DropType, TakeThenDrop DEF IInv, TypeOK
  <2>3. Unwritten = Cat(Cat(head, tail), Behind)
    BY <1>2, <2>1, <2>2, Zenon DEF Cat
  <2>4. Unwritten' = Cat(tail, Behind)
    <3>1. DropN(FrontEvents \o Behind, n) = tail \o Behind
      BY <1>2, <2>1, DropOfConcat
    <3> QED BY <1>2, <1>3, <2>1, <3>1, Zenon DEF Cat
  <2>5. mEventQueue' = Cat(mEventQueue, head)
    BY <2>1, Zenon DEF Cat
  <2> HIDE DEF head, tail
  <2>6. Cat(Cat(mEventQueue, head), Cat(tail, Behind)) = Cat(mEventQueue, Cat(Cat(head, tail), Behind))
    <3>1. /\ Cat(tail, Behind) \in Seq(Events)
          /\ Cat(head, Cat(tail, Behind)) = Cat(Cat(head, tail), Behind)
      BY <2>2, CatProperties, CatAssociative
    <3>2. Cat(mEventQueue, Cat(head, Cat(tail, Behind))) = Cat(Cat(mEventQueue, head), Cat(tail, Behind))
      BY <2>2, <3>1, CatAssociative
    <3> QED BY <3>1, <3>2
  <2>7. (mEventQueue \o Unwritten)' = mEventQueue \o Unwritten
    BY <2>3, <2>4, <2>5, <2>6, Zenon DEF Cat
  <2>8. Offered' = Offered
    BY <2>1, OffersKept
  <2> QED BY <2>7, <2>8 DEF Fifo!vars
<1>5. CASE wpc' = "wrote" /\ (WriterTimeout \/ WriterKeepsCount \/ WriterDrop)
  <2>1. /\ wpc \in {"writing", "failed", "dropping"} /\ wpc' = "wrote"
        /\ wJob' = wJob /\ mEventQueue' = mEventQueue
        /\ UNCHANGED <<mPendingWriteEventsQueue, ppc, batch>>
    BY <1>5 DEF WriterTimeout, WriterKeepsCount, WriterDrop
  <2>2. Unwritten' = DropN(Unwritten, wJob.n) /\ wJob.n \in 0..Len(Unwritten)
    BY <1>2, <1>3, <2>1
  <2> QED BY <2>1, <2>2, MiddleLeaves, OffersKept
<1>6. CASE WriterFinish
  <2>1. /\ wpc = "wrote" /\ wpc' = "loop" /\ mEventQueue' = mEventQueue
        /\ UNCHANGED <<ppc, batch>>
    BY <1>6 DEF WriterFinish
  <2>2. PendingEvents' = DropN(PendingEvents, wJob.n)
    BY <1>6, FinishPending
  <2>3. Unwritten' = Unwritten
    BY <2>1, <2>2 DEF Unwritten
  <2> QED BY <2>1, <2>3, OffersKept DEF Fifo!vars
<1>7. CASE WriterTimeout /\ wpc' # "wrote"
  <2>1. /\ wpc = "writing" /\ wpc' # "wrote"
        /\ UNCHANGED <<mEventQueue, mPendingWriteEventsQueue, ppc, batch>>
    BY <1>7 DEF WriterTimeout
  <2> QED BY <2>1, NothingMoves
<1>8. WriterKeepsCount \/ WriterDrop => wpc' = "wrote"
  BY DEF WriterKeepsCount, WriterDrop
<1> QED BY <1>1, <1>4, <1>5, <1>6, <1>7, <1>8 DEF Writer

\* Of initializeCommon, only the emptying of the queues touches the channel.
LEMMA BinderMoves ==
  ASSUME IInv, InitializeCall \/ BinderInitialize
  PROVE  [Fifo!Next]_(Fifo!vars)
<1> USE DEF Control, Goto, threads, posterVars, data, pendingVars
<1>0. Len(mEventQueue) \in Nat /\ Len(Unwritten) \in Nat
      /\ mEventQueue \in Seq(Events) /\ Unwritten \in Seq(Events)
  BY ChannelType
<1>1. DropN(mEventQueue, Len(mEventQueue)) = << >> /\ DropN(Unwritten, Len(Unwritten)) = << >>
  BY <1>0, SubSeqEmpty DEF DropN
<1>2. ASSUME mEventQueue' = << >>, UNCHANGED <<mPendingWriteEventsQueue, wpc, wJob, ppc, batch>>
      PROVE  Fifo!Next
  <2>1. PendingEvents' = PendingEvents
    BY <1>2 DEF PendingEvents
  <2>2. Unwritten' = Unwritten
    BY <1>2, <2>1 DEF Unwritten
  <2>3. Len(mEventQueue) \in 0..Len(mEventQueue)
    BY <1>0
  <2> QED BY <1>1, <1>2, <2>2, <2>3, FrontLeaves, OffersKept
<1>3. CASE DrainQueues
  BY <1>2, <1>3, NothingMoves DEF DrainQueues
<1>4. CASE InstallQueues
  BY <1>2, <1>4 DEF InstallQueues
<1>5. CASE ClearPending
  <2>1. /\ mEventQueue' = mEventQueue /\ mPendingWriteEventsQueue' = << >>
        /\ UNCHANGED <<wpc, ppc, batch>> /\ wpc = "off"
    BY <1>5 DEF ClearPending, IInv, Lifecycle, AfterJoinW
  <2>2. PendingEvents' = Held(<< >>)
    BY <2>1 DEF PendingEvents, Held, Payload
  <2>3. Unwritten' = << >>
    BY <2>1, <2>2, HeldEmpty DEF Unwritten
  <2>4. Len(Unwritten) \in 0..Len(Unwritten)
    BY <1>0
  <2> QED BY <1>1, <2>1, <2>3, <2>4, MiddleLeaves, OffersKept
<1>6. CASE InitializeCall \/ JoinWriter \/ JoinWaker \/ ResetOnInitialize
           \/ (\E p \in SubHals : Disable(p)) \/ DisabledAll \/ ClearSize \/ StartThreads
  BY <1>6, NothingMoves DEF InitializeCall, JoinWriter, JoinWaker, ResetOnInitialize,
     Disable, DisabledAll, ClearSize, StartThreads
<1>7. CASE NotifyWorkers
  BY <1>7, NothingMoves DEF NotifyWorkers, NotifyWriter
<1>8. CASE SpawnThreads
  <2>1. wpc = "off"
    BY <1>8 DEF SpawnThreads, IInv, Lifecycle, AfterJoinW
  <2> QED BY <1>8, <2>1, NothingMoves DEF SpawnThreads
<1> QED BY <1>3, <1>4, <1>5, <1>6, <1>7, <1>8 DEF BinderInitialize

\* What is on offer before and after a step of p; no other offer changes.
LEMMA OffersOfOne ==
  ASSUME IInv, NEW p \in SubHals, NEW to, NEW b, ppc' = [ppc EXCEPT ![p] = to],
         batch' = [batch EXCEPT ![p] = b]
  PROVE  Offered' = [Offered EXCEPT ![p] =
                       IF to \in {"creating", "created", "posting"} \union InPost
                       THEN b ELSE << >>]
BY DEF IInv, TypeOK, Offered

\* A batch goes into the queues whole, or is cut where it no longer fits.
LEMMA PostMoves ==
  ASSUME IInv, OffersFull, NEW p \in SubHals, PostToQueue(p)
  PROVE  Fifo!Next
<1> USE DEF PStep
<1> DEFINE b == batch[p]
           k == DirectWrite(b)
           head == TakeN(b, k)
           rest == DropN(b, k)
<1>1. /\ ppc[p] \in {"counted", "inpost"} /\ ppc' = [ppc EXCEPT ![p] = "posted"]
      /\ batch' = batch
      /\ wJob' = wJob /\ mEventQueue' = mEventQueue \o head
  BY DEF PostToQueue
<1>2. /\ b \in Seq(Events) /\ Len(b) \in Nat /\ k \in 0..Len(b) /\ b # << >>
      /\ batch' = [batch EXCEPT ![p] = b]
  <2>1. b \in Seq(Events) /\ batch' = [batch EXCEPT ![p] = b] /\ b # << >>
    BY <1>1 DEF IInv, TypeOK, OffersFull, InPost
  <2>2. k \in 0..Len(b)
    BY <2>1, DirectWriteType DEF IInv, TypeOK
  <2> QED BY <2>1, <2>2, LenProperties
<1>3. /\ head \in Seq(Events) /\ rest \in Seq(Events) /\ Len(rest) = Len(b) - k
      /\ b = head \o rest
  BY <1>2, TakeType, DropType, TakeThenDrop
<1>4. Offered[p] = b /\ Offered' = [Offered EXCEPT ![p] = << >>]
  BY <1>1, <1>2, OffersOfOne DEF Offered, InPost
<1>5. mEventQueue \in Seq(Events) /\ Unwritten \in Seq(Events)
  BY ChannelType
<1>6. mPendingWriteEventsQueue = << >> \/ k = 0
  BY DEF DirectWrite
<1>7. mPendingWriteEventsQueue = << >> => PendingEvents = << >> /\ wpc # "wrote"
  <2>1. mPendingWriteEventsQueue = << >> => PendingEvents = Held(<< >>)
    BY DEF PendingEvents, Held, Payload
  <2> QED BY <2>1, HeldEmpty DEF IInv, WriterOwnsFront
<1>8. wpc' = "wrote" <=> wpc = "wrote"
  BY DEF PostToQueue, NotifyWriter
<1>9. PendingEvents' = IF Queues(p) THEN PendingEvents \o rest ELSE PendingEvents
  BY PostPending, Zenon DEF LeftOver
<1> HIDE DEF head, rest, k
<1>10. CASE Queues(p)
  <2>1. Unwritten' = Unwritten \o rest
    <3>1. CASE wpc = "wrote"
      <4>1. PendingEvents \in Seq(Events)
        BY PendingType DEF IInv
      <4>2. wJob.n \in 0..Len(PendingEvents)
        <5>1. /\ PendingEvents = FrontEvents \o Behind
              /\ FrontEvents \in Seq(Events) /\ Behind \in Seq(Events)
              /\ wJob.n \in 0..Len(FrontEvents)
          BY <3>1, FrontHeld DEF WithFront
        <5>2. Len(PendingEvents) = Len(FrontEvents) + Len(Behind)
              /\ Len(Behind) \in Nat /\ Len(FrontEvents) \in Nat
          BY <5>1, ConcatProperties, LenProperties
        <5> QED BY <5>1, <5>2
      <4>3. DropN(PendingEvents \o rest, wJob.n) = DropN(PendingEvents, wJob.n) \o rest
        BY <1>3, <4>1, <4>2, DropOfConcat
      <4> QED BY <1>1, <1>8, <1>9, <1>10, <3>1, <4>3, Zenon DEF Unwritten
    <3>2. CASE wpc # "wrote"
      BY <1>8, <1>9, <1>10, <3>2, Zenon DEF Unwritten
    <3> QED BY <3>1, <3>2
  <2>2. Cat(Cat(mEventQueue, head), Cat(Unwritten, rest)) = Cat(Cat(mEventQueue, Unwritten), b)
    <3>1. CASE mPendingWriteEventsQueue = << >>
      <4>1. Unwritten = << >>
        BY <1>7, <3>1 DEF Unwritten
      <4>2. Cat(<< >>, rest) = rest /\ Cat(mEventQueue, << >>) = mEventQueue
        BY <1>3, <1>5, CatProperties
      <4>3. Cat(Cat(mEventQueue, head), rest) = Cat(mEventQueue, Cat(head, rest))
        BY <1>3, <1>5, CatAssociative
      <4>4. Cat(head, rest) = b
        BY <1>3, Zenon DEF Cat
      <4> QED BY <4>1, <4>2, <4>3, <4>4
    <3>2. CASE k = 0
      <4>1. head = << >>
        BY <3>2, SubSeqEmpty DEF head, TakeN
      <4>2. Cat(mEventQueue, << >>) = mEventQueue /\ Cat(<< >>, rest) = rest
        BY <1>3, <1>5, CatProperties
      <4>3. rest = b
        BY <1>3, <4>1, <4>2, Zenon DEF Cat
      <4>4. Cat(mEventQueue, Cat(Unwritten, b)) = Cat(Cat(mEventQueue, Unwritten), b)
        BY <1>2, <1>5, CatAssociative
      <4> QED BY <4>1, <4>2, <4>3, <4>4
    <3> QED BY <1>6, <3>1, <3>2
  <2>3. SubSeq(b, 1, Len(b)) = b
    BY <1>2, SubSeqFull
  <2>4. (mEventQueue \o Unwritten)' = (mEventQueue \o Unwritten) \o SubSeq(Offered[p], 1, Len(b))
    BY <1>1, <1>4, <2>1, <2>2, <2>3, Zenon DEF Cat
  <2>5. Fifo!Accept(p, Len(b))
    BY <1>2, <1>4, <2>4 DEF Fifo!Accept
  <2>6. Len(b) \in 0..Len(Offered[p])
    BY <1>2, <1>4
  <2> QED BY <2>5, <2>6 DEF Fifo!Next
<1>11. CASE ~Queues(p)
  <2>1. Unwritten' = Unwritten
    BY <1>1, <1>8, <1>9, <1>11, Zenon DEF Unwritten
  <2>2. Cat(Cat(mEventQueue, head), Unwritten) = Cat(Cat(mEventQueue, Unwritten), head)
    <3>1. CASE mPendingWriteEventsQueue = << >>
      <4>1. Unwritten = << >>
        BY <1>7, <3>1 DEF Unwritten
      <4>2. Cat(mEventQueue, head) \in Seq(Events) /\ Cat(mEventQueue, << >>) = mEventQueue
        BY <1>3, <1>5, CatProperties
      <4>3. Cat(Cat(mEventQueue, head), << >>) = Cat(mEventQueue, head)
        BY <4>2, CatProperties
      <4> QED BY <4>1, <4>2, <4>3
    <3>2. CASE k = 0
      <4>1. head = << >>
        BY <3>2, SubSeqEmpty DEF head, TakeN
      <4>2. Cat(mEventQueue, << >>) = mEventQueue /\ Cat(mEventQueue, Unwritten) \in Seq(Events)
        BY <1>5, CatProperties
      <4>3. Cat(Cat(mEventQueue, Unwritten), << >>) = Cat(mEventQueue, Unwritten)
        BY <4>2, CatProperties
      <4> QED BY <4>1, <4>2, <4>3
    <3> QED BY <1>6, <3>1, <3>2
  <2>3. (mEventQueue \o Unwritten)' = (mEventQueue \o Unwritten) \o SubSeq(Offered[p], 1, k)
    BY <1>1, <1>4, <2>1, <2>2, Zenon DEF Cat, head, TakeN
  <2>4. Fifo!Accept(p, k)
    BY <1>2, <1>4, <2>3 DEF Fifo!Accept
  <2>5. k \in 0..Len(Offered[p])
    BY <1>2, <1>4
  <2> QED BY <2>4, <2>5 DEF Fifo!Next
<1> QED BY <1>10, <1>11

\* createScopedWakelock puts a batch on offer, the early return of postEvents takes it
\* off again.
LEMMA PosterMoves ==
  ASSUME IInv, OffersFull, NEW p \in SubHals,
         Poster(p) \/ \E b \in Batches : BeginPost(p, b)
  PROVE  [Fifo!Next]_(Fifo!vars)
<1> USE DEF PStep, PMove, data, pendingVars
<1>0. batch[p] \in Seq(Events) /\ batch = [batch EXCEPT ![p] = batch[p]]
  BY DEF IInv, TypeOK
<1>1. ASSUME UNCHANGED <<mEventQueue, mPendingWriteEventsQueue, wpc, wJob>>
      PROVE  (mEventQueue \o Unwritten)' = mEventQueue \o Unwritten
  <2>1. PendingEvents' = PendingEvents
    BY <1>1 DEF PendingEvents
  <2>2. Unwritten' = Unwritten
    BY <1>1, <2>1 DEF Unwritten
  <2> QED BY <1>1, <2>2
<1>2. ASSUME NEW b \in Batches, BeginPost(p, b) PROVE Fifo!Next
  <2>1. /\ ppc[p] = "idle" /\ batch' = [batch EXCEPT ![p] = b]
        /\ \E to \in {"creating", "created"} : ppc' = [ppc EXCEPT ![p] = to]
        /\ UNCHANGED <<mEventQueue, mPendingWriteEventsQueue, wpc, wJob>>
    BY <1>2 DEF BeginPost
  <2>2. Offered[p] = << >> /\ Offered' = [Offered EXCEPT ![p] = b]
    BY <2>1, OffersOfOne DEF Offered, InPost
  <2>3. Fifo!Offer(p, b)
    BY <1>1, <2>1, <2>2 DEF Fifo!Offer
  <2> QED BY <2>3 DEF Fifo!Next
<1>3. CASE RefusePost(p)
  <2>1. /\ ppc[p] = "created" /\ ppc' = [ppc EXCEPT ![p] = "posted"] /\ batch' = batch
        /\ UNCHANGED <<mEventQueue, mPendingWriteEventsQueue, wpc, wJob>>
    BY <1>3 DEF RefusePost
  <2>2. batch' = [batch EXCEPT ![p] = batch[p]]
    BY <1>0, <2>1
  <2>3. Offered[p] = batch[p] /\ batch[p] # << >> /\ Offered' = [Offered EXCEPT ![p] = << >>]
    BY <2>1, <2>2, OffersOfOne DEF Offered, OffersFull, InPost
  <2>4. SubSeq(Offered[p], 1, 0) = << >>
    BY SubSeqEmpty
  <2>5. (mEventQueue \o Unwritten) \o << >> = mEventQueue \o Unwritten
    BY ChannelType, ConcatEmptySeq
  <2>6. Fifo!Accept(p, 0)
    BY <1>1, <2>1, <2>3, <2>4, <2>5 DEF Fifo!Accept
  <2>7. 0 \in 0..Len(Offered[p])
    BY <1>0, <2>3, LenProperties
  <2> QED BY <2>6, <2>7 DEF Fifo!Next
<1>4. CASE CreateLocked(p) \/ AdmitPost(p) \/ EnterPost(p) \/ CountPost(p)
  <2>1. /\ UNCHANGED <<batch, mEventQueue, mPendingWriteEventsQueue, wpc, wJob>>
        /\ ppc[p] \in {"creating", "created", "posting"} \union InPost
        /\ \E to \in {"created", "posting"} \union InPost : ppc' = [ppc EXCEPT ![p] = to]
    BY <1>4 DEF CreateLocked, AdmitPost, EnterPost, CountPost, InPost
  <2>2. Offered' = Offered
    BY <2>1 DEF Offered, IInv, TypeOK
  <2> QED BY <1>1, <2>1, <2>2 DEF Fifo!vars
<1>5. CASE EndPost(p) \/ MayRelease(p) \/ Release(p)
  <2>1. /\ \E b : batch' = [batch EXCEPT ![p] = b]
        /\ ppc[p] \in {"posted", "releasing"}
        /\ \E to \in {"releasing", "idle"} : ppc' = [ppc EXCEPT ![p] = to]
        /\ UNCHANGED <<mEventQueue, mPendingWriteEventsQueue, wpc, wJob>>
    BY <1>0, <1>5 DEF EndPost, MayRelease, Release, Destroyed
  <2>2. Offered' = [Offered EXCEPT ![p] = << >>]
    BY <2>1, OffersOfOne DEF InPost
  <2>3. Offered[p] = << >> /\ Offered' = Offered
    BY <2>1, <2>2 DEF Offered, InPost
  <2> QED BY <1>1, <2>1, <2>3 DEF Fifo!vars
<1> QED BY <1>2, <1>3, <1>4, <1>5, PostMoves DEF Poster

\* Every step is one of the channel or leaves it as it is.
LEMMA DeliveryStep ==
  IInv /\ OffersFull /\ [Next]_vars => [Fifo!Next]_(Fifo!vars)
<1> SUFFICES ASSUME IInv, OffersFull, [Next]_vars PROVE [Fifo!Next]_(Fifo!vars)
  OBVIOUS
<1>1. CASE \E k \in 1..EventQueueSize : FrameworkRead(k)
  <2>1. PICK k \in 1..EventQueueSize : FrameworkRead(k)
    BY <1>1
  <2>2. /\ k <= Len(mEventQueue) /\ mEventQueue' = DropN(mEventQueue, k)
        /\ UNCHANGED <<mPendingWriteEventsQueue, wpc, wJob, ppc, batch>>
    BY <2>1 DEF FrameworkRead, threads, posterVars, pendingVars
  <2>3. k \in 0..Len(mEventQueue)
    BY <2>2, ChannelType, SizesAssumption
  <2>4. PendingEvents' = PendingEvents
    BY <2>2 DEF PendingEvents
  <2>5. Unwritten' = Unwritten
    BY <2>2, <2>4 DEF Unwritten
  <2> QED BY <2>2, <2>3, <2>5, FrontLeaves, OffersKept
<1>2. CASE \/ \E p \in SubHals, enable \in BOOLEAN : Activate(p, enable)
           \/ FrameworkAck \/ Tick \/ UNCHANGED vars
  BY <1>2, NothingMoves DEF Activate, FrameworkAck, Tick, vars, data, threads,
     pendingVars, posterVars
<1>3. CASE Waker
  <2>1. UNCHANGED <<mEventQueue, mPendingWriteEventsQueue, wpc, wJob, ppc, batch>>
    BY <1>3 DEF Waker, WakerExit, WakerTest, WakerWait, WakerReset, WakerRead,
       WakerAcked, WakerNoAck, KStep, pendingVars
  <2> QED BY <2>1, NothingMoves
<1> QED BY <1>1, <1>2, <1>3, BinderMoves, WriterMoves, PosterMoves DEF Next

\* At first there is nothing on offer and nothing in the channel.
LEMMA DeliveryInit == Init => Fifo!Init /\ OffersFull
<1> SUFFICES ASSUME Init PROVE Fifo!Init /\ OffersFull
  OBVIOUS
<1>1. /\ ppc = [p \in SubHals |-> "idle"] /\ mEventQueue = << >> /\ wpc = "off"
      /\ mPendingWriteEventsQueue = << >>
  BY DEF Init
<1>2. Offered = [p \in SubHals |-> << >>] /\ OffersFull
  BY <1>1 DEF Offered, OffersFull, InPost
<1>3. PendingEvents = Held(<< >>)
  BY <1>1 DEF PendingEvents, Held, Payload
<1>4. Unwritten = << >>
  BY <1>1, <1>3, HeldEmpty DEF Unwritten
<1>5. << >> \o << >> = << >>
  BY ConcatEmptySeq, EmptySeq
<1> QED BY <1>1, <1>2, <1>4, <1>5 DEF Fifo!Init

\* The event path is the channel, for every size of its queues and whether or not
\* the sub-HALs quiesce: batches enter it whole or cut at the end, in the order of
\* the critical sections (662-691), and the direct writes, the overflow queue, W's
\* chunks and drops (584-611) and restarts only take events out of it.
THEOREM DeliveryImplemented == Spec => DeliversInOrder
<1>1. Spec => []OffersFull
  BY DeliveryInit, OffersStep, Invariance, PTL DEF Spec
<1> QED
  BY <1>1, DeliveryInit, DeliveryStep, Invariance, PTL DEF Spec, DeliversInOrder, Fifo!Spec

-----------------------------------------------------------------------------
(***************************************************************************)
(* The sum of a sequence.                                                  *)
(***************************************************************************)
\* f lists the sums of the first elements of s.
Sums(s, f) ==
  /\ f \in [0..Len(s) -> Nat] /\ f[0] = 0
  /\ \A i \in 1..Len(s) : f[i] = f[i - 1] + s[i]

\* Every sequence of acknowledgements has such a list.
LEMMA SumsExist ==
  ASSUME NEW s \in Seq(Nat)
  PROVE  \E f : Sums(s, f)
<1> DEFINE Prefix(k) == \E f \in [0..k -> Nat] :
                   f[0] = 0 /\ \A i \in 1..k : f[i] = f[i - 1] + s[i]
           T == {k \in Nat : Prefix(k)}
<1>0. Len(s) \in Nat /\ \A i \in 1..Len(s) : s[i] \in Nat
  BY LenProperties, ElementOfSeq
<1>1. 0 \in T
  <2> DEFINE g == [i \in 0..0 |-> 0]
  <2>1. g \in [0..0 -> Nat] /\ g[0] = 0 /\ 1..0 = {}
    OBVIOUS
  <2> HIDE DEF g
  <2>2. \A i \in 1..0 : g[i] = g[i - 1] + s[i]
    BY <2>1
  <2> QED BY <2>1, <2>2
<1>2. ASSUME NEW k \in 0..(Len(s) - 1), k \in T PROVE k + 1 \in T
  <2>1. PICK f \in [0..k -> Nat] :
          f[0] = 0 /\ \A i \in 1..k : f[i] = f[i - 1] + s[i]
    BY <1>2
  <2> DEFINE g == [i \in 0..(k + 1) |-> IF i = k + 1 THEN f[k] + s[k + 1] ELSE f[i]]
  <2>2. s[k + 1] \in Nat /\ f[k] \in Nat
    BY <1>0, <2>1
  <2>3. g \in [0..(k + 1) -> Nat] /\ g[0] = 0
    BY <2>1, <2>2
  <2>4. ASSUME NEW i \in 1..(k + 1) PROVE g[i] = g[i - 1] + s[i]
    <3>1. CASE i = k + 1
      <4>1. g[i] = f[k] + s[k + 1] /\ g[i - 1] = f[k]
        BY <3>1
      <4> HIDE DEF g
      <4> QED BY <3>1, <4>1
    <3>2. CASE i # k + 1
      <4>1. g[i] = f[i] /\ g[i - 1] = f[i - 1] /\ i \in 1..k
        BY <3>2
      <4> HIDE DEF g
      <4> QED BY <2>1, <4>1
    <3> QED BY <3>1, <3>2
  <2> HIDE DEF g
  <2>5. Prefix(k + 1)
    BY <2>3, <2>4
  <2>6. k + 1 \in Nat
    OBVIOUS
  <2> HIDE DEF Prefix
  <2> QED BY <2>5, <2>6
<1>3. Len(s) \in T
  <2> HIDE DEF T
  <2>1. 0..Len(s) \subseteq T
    BY <1>0, <1>1, <1>2, InductionUpTo
  <2> QED BY <1>0, <2>1
<1> QED BY <1>3 DEF Sums

\* Total ends any such list.
LEMMA SumsLast ==
  ASSUME NEW s \in Seq(Nat), NEW f, Sums(s, f)
  PROVE  Total(s) = f[Len(s)] /\ Total(s) \in Nat
<1> DEFINE n == Len(s)
           Eq(g) == g = [i \in 0..n |-> IF i = 0 THEN 0 ELSE g[i - 1] + s[i]]
           h == CHOOSE g : Eq(g)
<1>0. /\ n \in Nat /\ f \in [0..n -> Nat] /\ f[0] = 0
      /\ \A i \in 1..n : f[i] = f[i - 1] + s[i]
  BY LenProperties DEF Sums
<1>1. Total(s) = h[n]
  BY DEF Total
<1> HIDE DEF n
<1>2. Eq(f)
  <2>1. ASSUME NEW i \in 0..n PROVE f[i] = IF i = 0 THEN 0 ELSE f[i - 1] + s[i]
    <3>1. CASE i = 0
      BY <1>0, <3>1
    <3>2. CASE i # 0
      <4>1. i \in 1..n
        BY <1>0, <3>2
      <4> QED BY <1>0, <3>2, <4>1
    <3> QED BY <3>1, <3>2
  <2> QED BY <1>0, <2>1
<1>3. Eq(h)
  BY <1>2
<1> HIDE DEF h
<1>4. h = [i \in 0..n |-> IF i = 0 THEN 0 ELSE h[i - 1] + s[i]]
  BY <1>3
<1> HIDE DEF Eq
<1> DEFINE T == {k \in Nat : h[k] = f[k]}
<1>5. 0 \in T
  <2>1. h[0] = 0
    BY <1>0, <1>4
  <2> QED BY <1>0, <2>1
<1>6. ASSUME NEW k \in 0..(n - 1), k \in T PROVE k + 1 \in T
  <2>1. k + 1 \in 1..n /\ k + 1 \in 0..n /\ (k + 1) - 1 = k /\ k + 1 # 0
    BY <1>0
  <2>2. h[k + 1] = h[k] + s[k + 1]
    BY <1>4, <2>1
  <2>3. f[k + 1] = f[k] + s[k + 1]
    BY <1>0, <2>1
  <2>4. h[k] = f[k]
    BY <1>6
  <2> QED BY <2>1, <2>2, <2>3, <2>4
<1> HIDE DEF T
<1>7. 0..n \subseteq T
  BY <1>0, <1>5, <1>6, InductionUpTo
<1>8. h[n] = f[n] /\ f[n] \in Nat
  BY <1>0, <1>7 DEF T
<1> QED BY <1>1, <1>8 DEF n

\* The sum is a number; of none it is zero.
LEMMA TotalType ==
  ASSUME NEW s \in Seq(Nat)
  PROVE  Total(s) \in Nat
BY SumsExist, SumsLast

\* No acknowledgement adds up to nothing.
LEMMA TotalEmpty == Total(<< >>) = 0
<1>1. << >> \in Seq(Nat) /\ Len(<< >>) = 0
  BY EmptySeq
<1>2. PICK f : Sums(<< >>, f)
  BY <1>1, SumsExist
<1> QED BY <1>1, <1>2, SumsLast DEF Sums

\* One more acknowledgement adds to the sum.
LEMMA TotalAppend ==
  ASSUME NEW s \in Seq(Nat), NEW e \in Nat
  PROVE  Total(Append(s, e)) = Total(s) + e
<1> DEFINE n == Len(s)
           r == Append(s, e)
<1>1. PICK f : Sums(s, f)
  BY SumsExist
<1>2. /\ n \in Nat /\ r \in Seq(Nat) /\ Len(r) = n + 1
      /\ r[n + 1] = e /\ \A i \in 1..n : r[i] = s[i]
  BY LenProperties, AppendProperties
<1>3. Total(s) = f[n] /\ f \in [0..n -> Nat] /\ f[0] = 0
      /\ \A i \in 1..n : f[i] = f[i - 1] + s[i]
  BY <1>1, SumsLast DEF Sums
<1> DEFINE g == [i \in 0..(n + 1) |-> IF i = n + 1 THEN f[n] + e ELSE f[i]]
<1> HIDE DEF n, r
<1>4. g \in [0..(n + 1) -> Nat] /\ g[0] = 0 /\ g[n + 1] = f[n] + e
  BY <1>2, <1>3
<1>5. ASSUME NEW i \in 1..(n + 1) PROVE g[i] = g[i - 1] + r[i]
  <2>1. CASE i = n + 1
    <3>1. g[i] = f[n] + e /\ g[i - 1] = f[n]
      BY <1>2, <2>1
    <3> HIDE DEF g
    <3> QED BY <1>2, <2>1, <3>1
  <2>2. CASE i # n + 1
    <3>1. g[i] = f[i] /\ g[i - 1] = f[i - 1] /\ i \in 1..n
      BY <1>2, <2>2
    <3> HIDE DEF g
    <3> QED BY <1>2, <1>3, <3>1
  <2> QED BY <2>1, <2>2
<1> HIDE DEF g
<1>6. Sums(r, g)
  BY <1>2, <1>4, <1>5 DEF Sums
<1>7. Total(r) = g[n + 1]
  BY <1>2, <1>6, SumsLast
<1> QED BY <1>3, <1>4, <1>7 DEF r

\* The sum is the first acknowledgement and the sum of the others.
LEMMA TotalTail ==
  ASSUME NEW s \in Seq(Nat), s # << >>
  PROVE  /\ Total(s) = Head(s) + Total(Tail(s))
         /\ Head(s) \in Nat /\ Tail(s) \in Seq(Nat) /\ Total(Tail(s)) \in Nat
<1> DEFINE n == Len(s)
           r == Tail(s)
<1>1. /\ n \in Nat \ {0} /\ r \in Seq(Nat) /\ Len(r) = n - 1
      /\ Head(s) = s[1] /\ s[1] \in Nat
      /\ \A i \in 1..(n - 1) : r[i] = s[i + 1] /\ s[i + 1] \in Nat
  BY EmptySeq, HeadTailProperties, ElementOfSeq
<1> HIDE DEF n, r
<1>2. PICK f : Sums(r, f)
  BY <1>1, SumsExist
<1>3. Total(r) = f[n - 1] /\ Total(r) \in Nat
  BY <1>1, <1>2, SumsLast
<1>4. f \in [0..(n - 1) -> Nat] /\ f[0] = 0
      /\ \A i \in 1..(n - 1) : f[i] = f[i - 1] + s[i + 1]
  BY <1>1, <1>2 DEF Sums
<1> DEFINE g == [i \in 0..n |-> IF i = 0 THEN 0 ELSE s[1] + f[i - 1]]
<1>5. \A i \in 1..n : g[i] = s[1] + f[i - 1] /\ i - 1 \in 0..(n - 1) /\ f[i - 1] \in Nat
  BY <1>1, <1>4
<1>6. g \in [0..n -> Nat] /\ g[0] = 0
  <2>1. ASSUME NEW i \in 0..n PROVE (IF i = 0 THEN 0 ELSE s[1] + f[i - 1]) \in Nat
    <3>1. CASE i = 0
      BY <3>1
    <3>2. CASE i # 0
      <4>1. i \in 1..n
        BY <1>1, <3>2
      <4>2. f[i - 1] \in Nat /\ s[1] \in Nat
        BY <1>1, <1>5, <4>1
      <4> QED BY <3>2, <4>2
    <3> QED BY <3>1, <3>2
  <2> QED BY <1>1, <2>1
<1> HIDE DEF g
<1>7. ASSUME NEW i \in 1..n PROVE g[i] = g[i - 1] + s[i]
  <2>1. CASE i = 1
    BY <1>1, <1>4, <1>5, <1>6, <2>1
  <2>2. CASE i # 1
    <3>1. i - 1 \in 1..n /\ i - 1 \in 1..(n - 1) /\ (i - 1) + 1 = i
      BY <1>1, <2>2
    <3>2. g[i] = s[1] + f[i - 1] /\ g[i - 1] = s[1] + f[(i - 1) - 1]
      BY <1>5, <3>1
    <3>3. f[i - 1] = f[(i - 1) - 1] + s[i] /\ s[i] \in Nat
      BY <1>1, <1>4, <3>1
    <3>4. f[(i - 1) - 1] \in Nat /\ s[1] \in Nat
      BY <1>1, <1>5, <3>1
    <3> DEFINE x == f[(i - 1) - 1]
               y == s[i]
    <3>5. g[i] = s[1] + (x + y) /\ g[i - 1] = s[1] + x
      BY <3>2, <3>3
    <3>6. x \in Nat /\ y \in Nat
      BY <3>3, <3>4
    <3> HIDE DEF x, y
    <3>7. g[i] = g[i - 1] + y
      BY <3>4, <3>5, <3>6
    <3> QED BY <3>7 DEF y
  <2> QED BY <2>1, <2>2
<1>8. Sums(s, g)
  BY <1>1, <1>6, <1>7 DEF Sums, n
<1>9. Total(s) = g[n]
  BY <1>8, SumsLast DEF n
<1>10. g[n] = s[1] + f[n - 1]
  BY <1>1, <1>5
<1> QED BY <1>1, <1>3, <1>9, <1>10 DEF r

-----------------------------------------------------------------------------
(***************************************************************************)
(* The inductive invariant.                                                *)
(***************************************************************************)
\* An idle sub-HAL has no ScopedWakelock, nor has one that is to take its first
\* reference: the next one it makes is one more.
IdleUnlocked ==
  \A p \in SubHals : ppc[p] \in {"idle", "creating"} => scoped[p] = "none"

\* mEventQueueWriteMutex lets one post in at a time.
OneInPost ==
  \A p, q \in SubHals : ppc[p] \in InPost /\ ppc[q] \in InPost => p = q

\* The wake-up count of a pending batch covers what is left of the batch: what
\* a failed write takes off the reference count (591-595) covers the dropped.
CountsCoverPending ==
  \A i \in 1..Len(mPendingWriteEventsQueue) :
    CountWake(mPendingWriteEventsQueue[i].events)
      <= mPendingWriteEventsQueue[i].numWakeup

AInv == IdleUnlocked /\ OneInPost /\ CountsCoverPending

USE DEF AtMost, TakeN, DropN
USE DEF data, pendingVars, countVars, posterVars, threads, Goto, Control, WStep,
        KStep, PStep, PMove, MakeStale, IsFresh, Joined

\* No step that makes a sub-HAL idle leaves it a ScopedWakelock, and no other
\* gives one to an idle sub-HAL.
LEMMA IdleStep == IInv /\ IdleUnlocked /\ [Next]_vars => IdleUnlocked'
<1> SUFFICES ASSUME IInv, IdleUnlocked, [Next]_vars PROVE IdleUnlocked'
  OBVIOUS
<1> USE DEF IInv, TypeOK, IdleUnlocked
<1>1. CASE UNCHANGED <<ppc, scoped>>
  BY <1>1
<1>2. CASE UNCHANGED ppc /\ MakeStale
  BY <1>2
<1>3. CASE InitializeCall \/ BinderInitialize
  BY <1>1, <1>2, <1>3 DEF InitializeCall, BinderInitialize, DrainQueues,
     NotifyWorkers, JoinWriter, JoinWaker, ResetOnInitialize, Disable,
     DisabledAll, ClearPending, ClearSize, InstallQueues, StartThreads,
     SpawnThreads, ResetSharedWakelock
<1>4. CASE \E p \in SubHals, enable \in BOOLEAN : Activate(p, enable)
  BY <1>1, <1>4 DEF Activate
<1>5. CASE Writer
  BY <1>1, <1>5 DEF Writer, WriterExit, WriterTest, WriterWait, WriterTake,
     WriterWrite, WriterTimeout, WriterKeepsCount, WriterMayDrop, WriterDrop,
     WriterFinish
<1>6. CASE Waker
  BY <1>1, <1>2, <1>6 DEF Waker, WakerExit, WakerTest, WakerWait, WakerReset,
     WakerRead, WakerAcked, WakerNoAck, ResetSharedWakelock
<1>7. ASSUME NEW p \in SubHals,
             Poster(p) \/ \E b \in Batches : BeginPost(p, b)
      PROVE  IdleUnlocked'
  BY <1>7 DEF Poster, CreateLocked, RefusePost, AdmitPost, EnterPost, CountPost,
     PostToQueue, EndPost, MayRelease, Release, Destroyed, BeginPost
<1>8. CASE \E k \in 1..EventQueueSize : FrameworkRead(k)
  BY <1>1, <1>8 DEF FrameworkRead
<1>9. CASE FrameworkAck \/ Tick \/ UNCHANGED vars
  BY <1>1, <1>9 DEF FrameworkAck, Tick, vars
<1> QED BY <1>3, <1>4, <1>5, <1>6, <1>7, <1>8, <1>9 DEF Next

\* A post gets in when nobody else is there.
LEMMA OneInPostStep == IInv /\ OneInPost /\ [Next]_vars => OneInPost'
<1> SUFFICES ASSUME IInv, OneInPost, [Next]_vars PROVE OneInPost'
  OBVIOUS
<1> USE DEF IInv, TypeOK, OneInPost
<1>1. CASE UNCHANGED ppc
  BY <1>1
<1>2. CASE InitializeCall \/ BinderInitialize
  BY <1>1, <1>2 DEF InitializeCall, BinderInitialize, DrainQueues, NotifyWorkers,
     JoinWriter, JoinWaker, ResetOnInitialize, Disable, DisabledAll,
     ClearPending, ClearSize, InstallQueues, StartThreads, SpawnThreads
<1>3. CASE \E p \in SubHals, enable \in BOOLEAN : Activate(p, enable)
  BY <1>1, <1>3 DEF Activate
<1>4. CASE Writer
  BY <1>1, <1>4 DEF Writer, WriterExit, WriterTest, WriterWait, WriterTake,
     WriterWrite, WriterTimeout, WriterKeepsCount, WriterMayDrop, WriterDrop,
     WriterFinish
<1>5. CASE Waker
  BY <1>1, <1>5 DEF Waker, WakerExit, WakerTest, WakerWait, WakerReset, WakerRead,
     WakerAcked, WakerNoAck
<1>6. ASSUME NEW p \in SubHals, EnterPost(p) PROVE OneInPost'
  <2>1. \A q \in SubHals : ppc[q] \notin InPost
    BY <1>6 DEF EnterPost, EventMutexFree
  <2>2. \A q \in SubHals : q # p => ppc'[q] = ppc[q]
    BY <1>6 DEF EnterPost
  <2> QED BY <2>1, <2>2
<1>7. ASSUME NEW p \in SubHals,
             \/ Poster(p) /\ ~EnterPost(p)
             \/ \E b \in Batches : BeginPost(p, b)
      PROVE  OneInPost'
  <2>1. \A q \in SubHals : ppc'[q] \in InPost => ppc[q] \in InPost
    BY <1>7 DEF Poster, CreateLocked, RefusePost, AdmitPost, CountPost, PostToQueue,
       EndPost, MayRelease, Release, BeginPost, InPost
  <2> QED BY <2>1
<1>8. CASE \E k \in 1..EventQueueSize : FrameworkRead(k)
  BY <1>1, <1>8 DEF FrameworkRead
<1>9. CASE FrameworkAck \/ Tick \/ UNCHANGED vars
  BY <1>1, <1>9 DEF FrameworkAck, Tick, vars
<1> QED BY <1>2, <1>3, <1>4, <1>5, <1>6, <1>7, <1>8, <1>9 DEF Next

\* A batch is queued with the wake-up count of the whole post, and erasing from
\* it leaves that count as it was: it still covers the rest.
LEMMA CoverStep ==
  IInv /\ CountsCoverPending /\ [Next]_vars => CountsCoverPending'
<1> SUFFICES ASSUME IInv, CountsCoverPending, [Next]_vars
             PROVE  CountsCoverPending'
  OBVIOUS
<1> DEFINE q == mPendingWriteEventsQueue
<1>0. /\ q \in Seq(Pending) /\ Len(q) \in Nat
      /\ \A i \in 1..Len(q) : /\ q[i] \in Pending
                              /\ CountWake(q[i].events) <= q[i].numWakeup
  BY LenProperties, ElementOfSeq DEF IInv, TypeOK, CountsCoverPending
<1>1. CASE WriterFinish
  <2>1. /\ q # << >> /\ FrontEvents \in Seq(Events) /\ Len(FrontEvents) \in Nat
        /\ FrontEvents = q[1].events /\ 1 \in 1..Len(q)
    <3>1. wpc = "wrote"
      BY <1>1 DEF WriterFinish
    <3>2. q # << >> /\ FrontEvents \in Seq(Events) /\ Len(FrontEvents) \in Nat
      BY <3>1, FrontHeld DEF WithFront
    <3>3. FrontEvents = q[1].events /\ 1 \in 1..Len(q)
      BY <1>0, <3>2, EmptySeq DEF FrontEvents
    <3> QED BY <3>2, <3>3
  <2>2. CASE Len(FrontEvents) > EventQueueSize
    <3> DEFINE e == [q[1] EXCEPT !.events = DropN(FrontEvents, EventQueueSize)]
    <3>1. EventQueueSize \in 0..Len(FrontEvents)
      BY <2>1, <2>2, SizesAssumption
    <3>2. DropN(FrontEvents, EventQueueSize) \in Seq(Events)
      BY <2>1, <3>1, DropType
    <3>3. CountWake(DropN(FrontEvents, EventQueueSize)) <= CountWake(FrontEvents)
      <4>1. /\ CountWake(FrontEvents) = CountWake(TakeN(FrontEvents, EventQueueSize))
                 + CountWake(DropN(FrontEvents, EventQueueSize))
            /\ CountWake(TakeN(FrontEvents, EventQueueSize)) \in Nat
            /\ CountWake(DropN(FrontEvents, EventQueueSize)) \in Nat
        BY <2>1, <3>1, CountWakeSplit
      <4> HIDE DEF TakeN, DropN
      <4> QED BY <4>1
    <3>4. /\ e \in Pending /\ e.events = DropN(FrontEvents, EventQueueSize)
          /\ e.numWakeup = q[1].numWakeup
      BY <1>0, <2>1, <3>2 DEF Pending
    <3>5. CountWake(e.events) <= e.numWakeup
      <4>1. CountWake(FrontEvents) <= q[1].numWakeup /\ q[1].numWakeup \in Nat
        BY <1>0, <2>1 DEF Pending
      <4>2. CountWake(FrontEvents) \in Nat /\ CountWake(e.events) \in Nat
        BY <2>1, <3>2, <3>4, CountWakeType
      <4> HIDE DEF e, DropN
      <4> QED BY <3>3, <3>4, <4>1, <4>2
    <3>6. q' = [q EXCEPT ![1] = e]
      BY <1>1, <2>1, <2>2 DEF WriterFinish, FrontEvents
    <3> HIDE DEF e
    <3>7. /\ Len(q') = Len(q)
          /\ \A i \in 1..Len(q) : q'[i] = IF i = 1 THEN e ELSE q[i]
      BY <1>0, <2>1, <3>4, <3>6, ExceptSeq
    <3> QED BY <1>0, <3>5, <3>7 DEF CountsCoverPending
  <2>3. CASE ~(Len(FrontEvents) > EventQueueSize)
    <3>1. q' = Tail(q)
      BY <1>1, <2>3 DEF WriterFinish, FrontEvents
    <3>2. /\ Len(q') = Len(q) - 1
          /\ \A i \in 1..(Len(q) - 1) : q'[i] = q[i + 1] /\ i + 1 \in 1..Len(q)
      BY <1>0, <2>1, <3>1, HeadTailProperties
    <3> QED BY <1>0, <3>2 DEF CountsCoverPending
  <2> QED BY <2>2, <2>3
<1>2. ASSUME NEW p \in SubHals, PostToQueue(p) PROVE CountsCoverPending'
  <2> DEFINE b == batch[p]
             e == [events |-> LeftOver(p), numWakeup |-> CountWake(b)]
  <2>1. q' = IF Queues(p) THEN Append(q, e) ELSE q
    BY <1>2 DEF PostToQueue, Queues, LeftOver
  <2>2. b \in Seq(Events) /\ DirectWrite(b) \in 0..Len(b) /\ LeftOver(p) \in Seq(Events)
    BY <1>2, PostPending DEF IInv, TypeOK
  <2>3. CountWake(LeftOver(p)) <= CountWake(b) /\ CountWake(b) \in Nat
    <3>1. /\ CountWake(b) = CountWake(TakeN(b, DirectWrite(b))) + CountWake(LeftOver(p))
          /\ CountWake(TakeN(b, DirectWrite(b))) \in Nat
          /\ CountWake(LeftOver(p)) \in Nat
      BY <2>2, CountWakeSplit DEF LeftOver
    <3> HIDE DEF TakeN, b
    <3> QED BY <3>1
  <2>4. e \in Pending /\ CountWake(e.events) <= e.numWakeup
    BY <2>2, <2>3 DEF Pending
  <2> HIDE DEF e, b
  <2>5. CASE Queues(p)
    <3>1. /\ Len(q') = Len(q) + 1 /\ q'[Len(q) + 1] = e
          /\ \A i \in 1..Len(q) : q'[i] = q[i]
      BY <1>0, <2>1, <2>4, <2>5, AppendProperties
    <3>2. ASSUME NEW i \in 1..Len(q')
          PROVE  CountWake(q'[i].events) <= q'[i].numWakeup
      <4>1. i = Len(q) + 1 \/ i \in 1..Len(q)
        BY <1>0, <3>1
      <4> QED BY <1>0, <2>4, <3>1, <4>1
    <3> QED BY <3>2 DEF CountsCoverPending
  <2>6. CASE ~Queues(p)
    BY <2>1, <2>6 DEF CountsCoverPending
  <2> QED BY <2>5, <2>6
<1>3. CASE ClearPending
  <2>1. Len(q') = 0
    BY <1>3, EmptySeq DEF ClearPending
  <2> QED BY <2>1 DEF CountsCoverPending
<1>4. CASE ClearSize
  BY <1>4 DEF ClearSize, CountsCoverPending
<1>5. CASE /\ ~WriterFinish /\ \A p \in SubHals : ~PostToQueue(p)
           /\ ~ClearPending /\ ~ClearSize
  BY <1>5, PendingKept DEF CountsCoverPending
<1> QED BY <1>1, <1>2, <1>3, <1>4, <1>5
-----------------------------------------------------------------------------
(***************************************************************************)
(* The balance of a step: the count moves as what it stands for does.      *)
(***************************************************************************)
Queued  == CountWake(mEventQueue)
Waiting == CountWake(Unwritten)
Acked   == Total(mWakeLockQueue)
Due     == InFlight + LiveWakelocks

DueOK ==
  /\ Counted \in Nat /\ Queued \in Nat /\ Waiting \in Nat /\ owed \in Nat /\ Acked \in Nat
  /\ LiveWakelocks \in Nat /\ mWakelockRefCount \in Nat /\ Due \in Nat
  /\ Due = Counted + Queued + Waiting + owed + Acked + LiveWakelocks

\* Who has counted and not yet queued: nobody, or the one post under the mutex.
CountedOK ==
  /\ \A p \in SubHals : ppc[p] = "counted" => Counted = CountWake(batch[p])
  /\ (\A p \in SubHals : ppc[p] # "counted") => Counted = 0

\* One post at a time counts: the choice in Counted is no choice.
LEMMA CountedBy == OneInPost => CountedOK
<1>1. ASSUME OneInPost, NEW p \in SubHals, ppc[p] = "counted"
      PROVE  Counted = CountWake(batch[p])
  <2> DEFINE q == CHOOSE q \in SubHals : ppc[q] = "counted"
  <2>1. q \in SubHals /\ ppc[q] = "counted"
    BY <1>1
  <2>2. Counted = CountWake(batch[q])
    BY <1>1 DEF Counted
  <2> HIDE DEF q
  <2>3. q = p
    BY <1>1, <2>1 DEF OneInPost, InPost
  <2> QED BY <2>2, <2>3
<1>2. (\A p \in SubHals : ppc[p] # "counted") => Counted = 0
  BY DEF Counted
<1> QED BY <1>1, <1>2 DEF CountedOK

\* The same of the next state.
LEMMA CountedByNext == OneInPost' => CountedOK'
BY CountedBy, PTL

\* A step in which nobody starts or stops having counted leaves Counted alone.
LEMMA CountedKept ==
  ASSUME OneInPost, OneInPost',
         \A p \in SubHals : /\ ppc'[p] = "counted" <=> ppc[p] = "counted"
                            /\ ppc[p] = "counted" => batch'[p] = batch[p]
  PROVE  Counted' = Counted
<1>1. CASE \E p \in SubHals : ppc[p] = "counted"
  <2>1. PICK p \in SubHals : ppc[p] = "counted"
    BY <1>1
  <2>2. ppc'[p] = "counted" /\ batch'[p] = batch[p]
    BY <2>1
  <2>3. Counted = CountWake(batch[p])
    BY <2>1, CountedBy DEF CountedOK
  <2>4. Counted' = CountWake(batch'[p])
    BY <2>2, CountedByNext DEF CountedOK
  <2> QED BY <2>2, <2>3, <2>4
<1>2. CASE \A p \in SubHals : ppc[p] # "counted"
  <2>1. Counted = 0
    BY <1>2, CountedBy DEF CountedOK
  <2>2. Counted' = 0
    BY <1>2, CountedByNext DEF CountedOK
  <2> QED BY <2>1, <2>2
<1> QED BY <1>1, <1>2

\* Everything the count stands for is a number, before and after a step.
LEMMA DueType == IInv => DueOK
<1> SUFFICES ASSUME IInv PROVE DueOK
  OBVIOUS
<1>1. /\ mEventQueue \in Seq(Events) /\ PendingEvents \in Seq(Events)
      /\ owed \in Nat /\ mWakeLockQueue \in Seq(Nat) /\ mWakelockRefCount \in Nat
  BY PendingType DEF IInv, TypeOK
<1>2. Unwritten \in Seq(Events)
  <2>1. CASE wpc = "wrote"
    <3>1. /\ PendingEvents = FrontEvents \o Behind
          /\ FrontEvents \in Seq(Events) /\ Behind \in Seq(Events)
          /\ Len(FrontEvents) \in Nat /\ wJob.n \in 0..Len(FrontEvents)
      BY <2>1, FrontHeld DEF WithFront
    <3>2. /\ Len(PendingEvents) = Len(FrontEvents) + Len(Behind)
          /\ Len(Behind) \in Nat
      BY <3>1, ConcatProperties, LenProperties
    <3>3. wJob.n \in 0..Len(PendingEvents)
      BY <3>1, <3>2
    <3> QED BY <1>1, <2>1, <3>3, DropType DEF Unwritten
  <2>2. CASE wpc # "wrote"
    BY <1>1, <2>2 DEF Unwritten
  <2> QED BY <2>1, <2>2
<1>3. Queued \in Nat /\ Waiting \in Nat /\ Acked \in Nat
  BY <1>1, <1>2, CountWakeType, TotalType DEF Queued, Waiting, Acked
<1>4. LiveWakelocks \in Nat
  <2>1. IsFiniteSet({p \in SubHals : scoped[p] = "locked"})
    BY SubHalsAssumption, FS_Subset
  <2> QED BY <2>1, FS_CardinalityType DEF LiveWakelocks
<1>5. Due = Counted + Queued + Waiting + owed + Acked + LiveWakelocks
  BY DEF Due, InFlight, Queued, Waiting, Acked
<1>6. Counted \in Nat
  <2>1. CASE \E q \in SubHals : ppc[q] = "counted"
    <3> DEFINE p == CHOOSE p \in SubHals : ppc[p] = "counted"
    <3>1. p \in SubHals
      BY <2>1
    <3>2. Counted = CountWake(batch[p])
      BY <2>1 DEF Counted
    <3> HIDE DEF p
    <3>3. batch[p] \in Seq(Events)
      BY <3>1 DEF IInv, TypeOK
    <3> QED BY <3>2, <3>3, CountWakeType
  <2>2. CASE ~\E q \in SubHals : ppc[q] = "counted"
    BY <2>2 DEF Counted
  <2> QED BY <2>1, <2>2
<1> QED BY <1>1, <1>3, <1>4, <1>5, <1>6 DEF DueOK

\* The same of the next state.
LEMMA DueTypeNext == IInv' => DueOK'
BY DueType, PTL

\* A new value of one ScopedWakelock adds or takes away the old and the new.
LEMMA LiveExcept ==
  ASSUME IInv, NEW p \in SubHals, NEW v,
         scoped' = [scoped EXCEPT ![p] = v]
  PROVE  LiveWakelocks' = LiveWakelocks - (IF scoped[p] = "locked" THEN 1 ELSE 0)
                                        + (IF v = "locked" THEN 1 ELSE 0)
<1> DEFINE S == {q \in SubHals : scoped[q] = "locked"}
           T == {q \in SubHals : scoped'[q] = "locked"}
<1>0. scoped \in [SubHals -> LockStates]
  BY DEF IInv, TypeOK
<1>1. IsFiniteSet(S)
  BY SubHalsAssumption, FS_Subset
<1>2. /\ LiveWakelocks = Cardinality(S) /\ LiveWakelocks' = Cardinality(T)
      /\ Cardinality(S) \in Nat /\ (p \in S <=> scoped[p] = "locked")
  BY <1>1, FS_CardinalityType DEF LiveWakelocks
<1>3. CASE v = "locked"
  <2>1. T = S \union {p}
    BY <1>0, <1>3
  <2> HIDE DEF S, T
  <2>2. Cardinality(S \union {p}) = IF p \in S THEN Cardinality(S) ELSE Cardinality(S) + 1
    BY <1>1, FS_AddElement
  <2> QED BY <1>2, <1>3, <2>1, <2>2
<1>4. CASE v # "locked"
  <2>1. T = S \ {p}
    BY <1>0, <1>4
  <2> HIDE DEF S, T
  <2>2. Cardinality(S \ {p}) = IF p \in S THEN Cardinality(S) - 1 ELSE Cardinality(S)
    BY <1>1, FS_RemoveElement
  <2> QED BY <1>2, <1>4, <2>1, <2>2
<1> QED BY <1>3, <1>4

\* Moving mWakelockTimeoutResetTime leaves no ScopedWakelock counted.
LEMMA LiveStale == MakeStale /\ IInv => LiveWakelocks' = 0
<1> SUFFICES ASSUME MakeStale, IInv PROVE LiveWakelocks' = 0
  OBVIOUS
<1>1. {p \in SubHals : scoped'[p] = "locked"} = {}
  OBVIOUS
<1> QED BY <1>1, FS_EmptySet DEF LiveWakelocks

\* A step is balanced if the count does not fall short by it, but for a fault
\* that the history remembers, and does not run over by it, but for a leak.
Balanced ==
  /\ TimeoutFault \/ DropFault \/ UncountedFault
     \/ mWakelockRefCount' - mWakelockRefCount >= Due' - Due
  /\ OverflowLeak \/ StopLeak \/ mWakelockRefCount' = 0
     \/ mWakelockRefCount' - mWakelockRefCount <= Due' - Due

\* What a Decrement takes off, but for the floor at zero.
LEMMA DecrementBy ==
  ASSUME mWakelockRefCount \in Nat, NEW d \in Nat, NEW fresh \in BOOLEAN,
         Decrement(d, fresh)
  PROVE  /\ mWakelockRefCount' \in Nat
         /\ mWakelockRefCount' >= mWakelockRefCount - d
         /\ mWakelockRefCount' <= mWakelockRefCount
         /\ fresh => mWakelockRefCount' = 0
                      \/ mWakelockRefCount' = mWakelockRefCount - d
         /\ ~fresh => mWakelockRefCount' = mWakelockRefCount
BY DEF Decrement

\* The same of K and B, for whom the test of the flag is part of it.
LEMMA DecrementIfRunningBy ==
  ASSUME mWakelockRefCount \in Nat, NEW d \in Nat,
         DecrementIfRunning(d, TRUE)
  PROVE  /\ mWakelockRefCount' \in Nat
         /\ mWakelockRefCount' >= mWakelockRefCount - d
         /\ mThreadsRun => mWakelockRefCount' = 0
                           \/ mWakelockRefCount' = mWakelockRefCount - d
         /\ ~mThreadsRun => mWakelockRefCount' = mWakelockRefCount
<1>1. CASE mThreadsRun
  BY <1>1, DecrementBy DEF DecrementIfRunning
<1>2. CASE ~mThreadsRun
  BY <1>2 DEF DecrementIfRunning
<1> QED BY <1>1, <1>2

\* A step that moves no event, reference or ScopedWakelock is balanced.
LEMMA StillBalanced ==
  ASSUME IInv, IInv',
         UNCHANGED <<mEventQueue, owed, mWakeLockQueue, scoped, mWakelockRefCount>>,
         mPendingWriteEventsQueue' = mPendingWriteEventsQueue, Counted' = Counted,
         (wpc' = wpc /\ wJob' = wJob) \/ (wpc # "wrote" /\ wpc' # "wrote")
  PROVE  Balanced
<1>1. PendingEvents' = PendingEvents
  BY DEF PendingEvents
<1>2. Unwritten' = Unwritten
  BY <1>1 DEF Unwritten
<1>3. /\ Queued' = Queued /\ Waiting' = Waiting /\ Acked' = Acked
      /\ LiveWakelocks' = LiveWakelocks
  BY <1>2 DEF Queued, Waiting, Acked, LiveWakelocks
<1>4. Due' = Due
  BY <1>3 DEF Due, InFlight, Queued, Waiting, Acked
<1> QED BY <1>4, DueType DEF Balanced, DueOK

\* initializeCommon (210-272) runs with the threads stopped: it discards events
\* and ScopedWakelocks, and leaves the count alone.
LEMMA BinderBalanced ==
  ASSUME IInv, IInv', InitializeCall \/ BinderInitialize
  PROVE  Balanced
<1> USE DEF Lifecycle, AfterJoinW, AfterJoinK
<1>0. /\ Counted \in Nat /\ Queued \in Nat /\ Waiting \in Nat /\ owed \in Nat /\ Acked \in Nat
      /\ LiveWakelocks \in Nat /\ mWakelockRefCount \in Nat /\ Due \in Nat
      /\ Due = Counted + Queued + Waiting + owed + Acked + LiveWakelocks
  BY DueType DEF DueOK
<1>1. /\ Due' \in Nat /\ LiveWakelocks' \in Nat
      /\ Due' = Counted' + Queued' + Waiting' + owed' + Acked' + LiveWakelocks'
  BY DueTypeNext DEF DueOK
<1>2. ASSUME NEW q, q = mPendingWriteEventsQueue,
             mPendingWriteEventsQueue' = q, wpc' = wpc, wJob' = wJob
      PROVE  Waiting' = Waiting
  BY <1>2 DEF Waiting, Unwritten, PendingEvents
<1>3. UNCHANGED scoped => LiveWakelocks' = LiveWakelocks
  BY DEF LiveWakelocks
<1>4. Counted' = Counted
  <2>1. UNCHANGED <<ppc, batch>>
    BY DEF InitializeCall, BinderInitialize, DrainQueues, NotifyWorkers, JoinWriter,
       JoinWaker, ResetOnInitialize, Disable, DisabledAll, ClearPending, ClearSize,
       InstallQueues, StartThreads, SpawnThreads
  <2> QED BY <2>1 DEF Counted
<1>5. ASSUME Due' <= Due, mWakelockRefCount' = mWakelockRefCount, ~mThreadsRun'
      PROVE  Balanced
  BY <1>0, <1>1, <1>5 DEF Balanced, StopLeak
<1>6. CASE InitializeCall
  <2>1. /\ Queued' = Queued /\ Acked' = Acked /\ Waiting' = Waiting /\ owed' = 0
        /\ LiveWakelocks' = LiveWakelocks
    BY <1>2, <1>3, <1>6 DEF InitializeCall, Queued, Acked
  <2>2. Due' <= Due
    BY <1>0, <1>1, <1>4, <2>1
  <2> QED BY <1>5, <1>6, <2>2 DEF InitializeCall
<1>7. CASE DrainQueues
  <2>1. /\ Waiting' = Waiting /\ owed' = owed /\ LiveWakelocks' = LiveWakelocks
    BY <1>2, <1>3, <1>7 DEF DrainQueues
  <2>2. Queued' = Queued \/ Queued' = 0
    BY <1>7, CountWakeEmpty DEF DrainQueues, Queued
  <2>3. Acked' = Acked
    <3>1. Total(Append(mWakeLockQueue, 0)) = Total(mWakeLockQueue) + 0
      BY TotalAppend DEF IInv, TypeOK
    <3>2. mWakeLockQueue' = mWakeLockQueue \/ mWakeLockQueue' = Append(mWakeLockQueue, 0)
      BY <1>7 DEF DrainQueues
    <3>3. Total(mWakeLockQueue) + 0 = Total(mWakeLockQueue)
      BY <1>0 DEF Acked
    <3> QED BY <3>1, <3>2, <3>3, Zenon DEF Acked
  <2>4. Due' <= Due
    BY <1>0, <1>1, <1>4, <2>1, <2>2, <2>3
  <2> QED BY <1>5, <1>7, <2>4 DEF DrainQueues, IInv
<1>8. CASE NotifyWorkers \/ JoinWriter \/ JoinWaker \/ StartThreads \/ SpawnThreads
           \/ DisabledAll \/ ClearSize \/ \E p \in SubHals : Disable(p)
  <2>1. /\ UNCHANGED <<mEventQueue, owed, mWakeLockQueue, scoped, mWakelockRefCount>>
        /\ mPendingWriteEventsQueue' = mPendingWriteEventsQueue
        /\ Counted' = Counted
    BY <1>8, <1>4 DEF NotifyWorkers, JoinWriter, JoinWaker, StartThreads, SpawnThreads,
       DisabledAll, ClearSize, Disable
  <2>2. (wpc' = wpc /\ wJob' = wJob) \/ (wpc # "wrote" /\ wpc' # "wrote")
    BY <1>8 DEF NotifyWorkers, NotifyWriter, JoinWriter, JoinWaker, StartThreads,
       SpawnThreads, DisabledAll, ClearSize, Disable, IInv
  <2> QED BY <2>1, <2>2, StillBalanced
<1>9. CASE ResetOnInitialize
  <2>1. /\ Waiting' = Waiting /\ owed' = owed /\ LiveWakelocks' = 0
        /\ Queued' = Queued /\ Acked' = Acked
    BY <1>2, <1>9, LiveStale DEF ResetOnInitialize, ResetSharedWakelock, Queued, Acked
  <2>2. ~mThreadsRun' /\ mWakelockRefCount' = mWakelockRefCount
    BY <1>9 DEF ResetOnInitialize, ResetSharedWakelock, DecrementIfRunning, IInv
  <2>3. Due' <= Due
    BY <1>0, <1>1, <1>4, <2>1
  <2> QED BY <1>5, <2>2, <2>3
<1>10. CASE ClearPending
  <2>1. PendingEvents' = Held(<< >>) /\ wpc' # "wrote"
    BY <1>10 DEF ClearPending, PendingEvents, Held, Payload, IInv
  <2>2. Waiting' = 0
    BY <2>1, HeldEmpty, CountWakeEmpty DEF Waiting, Unwritten
  <2>3. /\ Queued' = Queued /\ owed' = owed /\ LiveWakelocks' = LiveWakelocks
        /\ Acked' = Acked
    BY <1>3, <1>10 DEF ClearPending, Queued, Acked
  <2>4. Due' <= Due
    BY <1>0, <1>1, <1>4, <2>2, <2>3
  <2> QED BY <1>5, <1>10, <2>4 DEF ClearPending, IInv
<1>11. CASE InstallQueues
  <2>1. /\ Queued' = 0 /\ Acked' = 0
    BY <1>11, CountWakeEmpty, TotalEmpty DEF InstallQueues, Queued, Acked
  <2>2. /\ Waiting' = Waiting /\ owed' = owed /\ LiveWakelocks' = LiveWakelocks
    BY <1>2, <1>3, <1>11 DEF InstallQueues
  <2>3. Due' <= Due
    BY <1>0, <1>1, <1>4, <2>1, <2>2
  <2> QED BY <1>5, <1>11, <2>3 DEF InstallQueues, IInv
<1> QED
  BY <1>6, <1>7, <1>8, <1>9, <1>10, <1>11 DEF BinderInitialize

\* The wake-up events of what W writes or gives up.
Gone == CountWake(TakeN(FrontEvents, wJob.n))

\* What W writes moves from the pending queue to the event queue; what it gives
\* up takes its references with it (584-611).
LEMMA WriterBalanced ==
  ASSUME IInv, IInv', AInv, Writer
  PROVE  Balanced
<1>0. /\ Counted \in Nat /\ Queued \in Nat /\ Waiting \in Nat /\ owed \in Nat /\ Acked \in Nat
      /\ LiveWakelocks \in Nat /\ mWakelockRefCount \in Nat /\ Due \in Nat
      /\ Due = Counted + Queued + Waiting + owed + Acked + LiveWakelocks
  BY DueType DEF DueOK
<1>1. /\ Due' \in Nat
      /\ Due' = Counted' + Queued' + Waiting' + owed' + Acked' + LiveWakelocks'
  BY DueTypeNext DEF DueOK
<1>2. /\ owed' = owed /\ Acked' = Acked /\ LiveWakelocks' = LiveWakelocks
      /\ Counted' = Counted
  <2>1. UNCHANGED <<owed, mWakeLockQueue, scoped, ppc, batch>>
    BY DEF Writer, WriterExit, WriterTest, WriterWait, WriterTake, WriterWrite,
       WriterTimeout, WriterKeepsCount, WriterMayDrop, WriterDrop, WriterFinish
  <2> QED BY <2>1 DEF Acked, LiveWakelocks, Counted
<1> DEFINE taken == TakeN(FrontEvents, wJob.n)
           left  == DropN(PendingEvents, wJob.n)
<1>3. ASSUME wpc \in {"writing", "failed", "dropping"}
      PROVE  /\ Waiting = CountWake(taken) + CountWake(left)
             /\ CountWake(taken) \in Nat /\ CountWake(left) \in Nat
             /\ taken \in Seq(Events)
  <2>1. /\ PendingEvents = FrontEvents \o Behind
        /\ FrontEvents \in Seq(Events) /\ Behind \in Seq(Events)
        /\ wJob.n \in 0..Len(FrontEvents)
    BY <1>3, FrontHeld DEF WithFront
  <2> DEFINE d == DropN(FrontEvents, wJob.n)
  <2>2. /\ taken \in Seq(Events) /\ d \in Seq(Events) /\ FrontEvents = taken \o d
        /\ left = d \o Behind
    <3>1. taken \in Seq(Events) /\ d \in Seq(Events)
      BY <2>1, TakeDropElements
    <3>2. FrontEvents = taken \o d
      BY <2>1, TakeThenDrop
    <3>3. DropN(FrontEvents \o Behind, wJob.n) = d \o Behind
      BY <2>1, DropOfConcat
    <3> QED BY <2>1, <3>1, <3>2, <3>3
  <2>3. Waiting = CountWake(PendingEvents)
    BY <1>3 DEF Waiting, Unwritten
  <2> HIDE DEF taken, d, left
  <2>4. CountWake(PendingEvents) = CountWake(FrontEvents) + CountWake(Behind)
    BY <2>1, CountWakeConcat
  <2>5. CountWake(FrontEvents) = CountWake(taken) + CountWake(d)
    BY <2>2, CountWakeConcat
  <2>6. CountWake(left) = CountWake(d) + CountWake(Behind)
    BY <2>1, <2>2, CountWakeConcat
  <2>7. /\ CountWake(taken) \in Nat /\ CountWake(d) \in Nat /\ CountWake(Behind) \in Nat
    BY <2>1, <2>2, CountWakeType
  <2> QED BY <2>2, <2>3, <2>4, <2>5, <2>6, <2>7
<1>4. ASSUME wpc' = "wrote", WriterWrite \/ WriterTimeout \/ WriterKeepsCount \/ WriterDrop
      PROVE  /\ wpc \in {"writing", "failed", "dropping"}
             /\ Waiting' = CountWake(left)
  <2>1. /\ wpc \in {"writing", "failed", "dropping"} /\ wpc' = "wrote" /\ wJob' = wJob
        /\ mPendingWriteEventsQueue' = mPendingWriteEventsQueue
    BY <1>4 DEF WriterWrite, WriterTimeout, WriterKeepsCount, WriterDrop
  <2>2. PendingEvents' = PendingEvents
    BY <2>1 DEF PendingEvents
  <2>3. Unwritten' = left
    BY <2>1, <2>2 DEF Unwritten
  <2> QED BY <2>1, <2>3 DEF Waiting
<1>5. CASE \/ WriterExit \/ WriterTest \/ WriterWait \/ WriterTake \/ WriterMayDrop
           \/ WriterTimeout /\ wpc' # "wrote"
  <2>1. /\ UNCHANGED <<mEventQueue, owed, mWakeLockQueue, scoped, mWakelockRefCount>>
        /\ mPendingWriteEventsQueue' = mPendingWriteEventsQueue
        /\ wpc # "wrote" /\ wpc' # "wrote"
    BY <1>5 DEF WriterExit, WriterTest, WriterWait, WriterTake, WriterMayDrop,
       WriterTimeout
  <2> QED BY <1>2, <2>1, StillBalanced
<1>6. CASE WriterWrite
  <2>0. wpc \in {"writing", "failed", "dropping"} /\ Waiting' = CountWake(left)
    BY <1>4, <1>6 DEF WriterWrite
  <2>1. Queued' = Queued + CountWake(taken)
    <3>1. mEventQueue \in Seq(Events) /\ taken \in Seq(Events)
      BY <1>3, <2>0 DEF IInv, TypeOK
    <3>2. mEventQueue' = mEventQueue \o taken
      BY <1>6 DEF WriterWrite, FrontEvents
    <3> HIDE DEF taken
    <3>3. CountWake(mEventQueue \o taken) = CountWake(mEventQueue) + CountWake(taken)
      BY <3>1, CountWakeConcat
    <3> QED BY <3>2, <3>3 DEF Queued
  <2>2. mWakelockRefCount' = mWakelockRefCount
    BY <1>6 DEF WriterWrite
  <2> HIDE DEF taken, left
  <2>3. Due' = Due
    <3>1. Waiting = CountWake(taken) + Waiting' /\ CountWake(taken) \in Nat
          /\ Waiting' \in Nat
      BY <1>3, <2>0
    <3> QED BY <1>0, <1>1, <1>2, <2>1, <3>1
  <2> QED BY <1>0, <2>2, <2>3 DEF Balanced
<1>7. CASE wpc' = "wrote" /\ (WriterTimeout \/ WriterKeepsCount \/ WriterDrop)
  <2>0. /\ wpc \in {"writing", "failed", "dropping"} /\ Waiting' = CountWake(left)
        /\ Queued' = Queued
    BY <1>4, <1>7 DEF WriterTimeout, WriterKeepsCount, WriterDrop, Queued
  <2>1. Due' = Due - Gone /\ Gone \in Nat
    <3>1. Waiting = Gone + Waiting' /\ Gone \in Nat /\ Waiting' \in Nat
      <4> HIDE DEF taken, left
      <4>1. Gone = CountWake(taken)
        BY DEF Gone, taken
      <4> QED BY <1>3, <2>0, <4>1
    <3>2. Queued' = Queued
      BY <2>0
    <3> HIDE DEF left, taken
    <3> QED BY <1>0, <1>1, <1>2, <3>1, <3>2
  <2>2. /\ FrontEvents \in Seq(Events) /\ Len(FrontEvents) \in Nat
        /\ wJob.n = AtMost(Len(FrontEvents), EventQueueSize)
        /\ mPendingWriteEventsQueue # << >>
        /\ wJob.wake = Head(mPendingWriteEventsQueue).numWakeup
    BY <2>0, FrontHeld DEF WithFront
  <2>3. CountWake(FrontEvents) <= wJob.wake /\ wJob.wake \in Nat
    <3>1. /\ Head(mPendingWriteEventsQueue) = mPendingWriteEventsQueue[1]
          /\ 1 \in 1..Len(mPendingWriteEventsQueue)
      BY <2>2, EmptySeq DEF IInv, TypeOK
    <3>2. CountWake(FrontEvents) <= wJob.wake
      BY <2>2, <3>1 DEF AInv, CountsCoverPending, FrontEvents
    <3> QED BY <3>2 DEF IInv, TypeOK
  <2>4. Gone <= DropDelta /\ DropDelta \in Nat /\ (wJob.wake = 0 => Gone = 0)
    <3>1. CASE Len(FrontEvents) > EventQueueSize
      <4>1. wJob.n = EventQueueSize
        BY <2>2, <3>1, SizesAssumption
      <4>2. DropDelta = Gone
        BY <3>1, <4>1 DEF DropDelta, FrontEvents, Gone
      <4>3. Gone <= CountWake(FrontEvents)
        <5>1. wJob.n \in 0..Len(FrontEvents)
          BY <2>0, FrontHeld DEF WithFront
        <5>2. /\ CountWake(FrontEvents) = Gone + CountWake(DropN(FrontEvents, wJob.n))
              /\ CountWake(DropN(FrontEvents, wJob.n)) \in Nat
          BY <2>2, <5>1, CountWakeSplit DEF Gone
        <5> HIDE DEF DropN
        <5> QED BY <2>1, <5>2
      <4>4. CountWake(FrontEvents) \in Nat
        BY <2>2, CountWakeType
      <4> QED BY <2>1, <2>3, <4>2, <4>3, <4>4
    <3>2. CASE ~(Len(FrontEvents) > EventQueueSize)
      <4>1. wJob.n = Len(FrontEvents)
        BY <2>2, <3>2, SizesAssumption
      <4>2. taken = FrontEvents
        BY <2>2, <4>1, SubSeqFull
      <4>3. DropDelta = wJob.wake
        BY <3>2 DEF DropDelta, FrontEvents
      <4>4. Gone = CountWake(FrontEvents)
        BY <4>2, Zenon DEF Gone
      <4> QED BY <2>1, <2>3, <4>3, <4>4
    <3> QED BY <3>1, <3>2
  <2>5. CASE WriterTimeout
    <3>1. Gone = 0 /\ mWakelockRefCount' = mWakelockRefCount
      <4>1. wJob.wake = 0 /\ mWakelockRefCount' = mWakelockRefCount
        BY <1>7, <2>3, <2>5 DEF WriterTimeout
      <4> QED BY <2>4, <4>1
    <3> QED BY <1>0, <2>1, <3>1 DEF Balanced
  <2>6. CASE WriterKeepsCount
    <3>1. ~mThreadsRun' /\ mWakelockRefCount' = mWakelockRefCount
      BY <2>6 DEF WriterKeepsCount
    <3> QED BY <1>0, <2>1, <3>1 DEF Balanced, StopLeak
  <2>7. CASE WriterDrop
    <3>1. Decrement(DropDelta, TRUE)
      BY <2>7 DEF WriterDrop
    <3>2. /\ mWakelockRefCount' \in Nat
          /\ mWakelockRefCount' >= mWakelockRefCount - DropDelta
          /\ mWakelockRefCount' <= mWakelockRefCount
          /\ \/ mWakelockRefCount' = 0
             \/ mWakelockRefCount' = mWakelockRefCount - DropDelta
      BY <1>0, <2>4, <3>1, DecrementBy
    <3>3. DropFault \/ DropDelta <= Gone
      <4>1. DropFault \/ ~(DropDelta > Gone)
        BY <2>7 DEF DropFault, FrontEvents, Gone
      <4> QED BY <2>1, <2>4, <4>1
    <3>4. DropFault \/ mWakelockRefCount' - mWakelockRefCount >= Due' - Due
      <4>1. DropDelta \in Nat
        BY <2>4
      <4>2. ASSUME DropDelta <= Gone
            PROVE  mWakelockRefCount' - mWakelockRefCount >= Due' - Due
        BY <1>0, <1>1, <2>1, <3>2, <4>1, <4>2
      <4> QED BY <3>3, <4>2
    <3>5. \/ mWakelockRefCount' = 0
          \/ mWakelockRefCount' - mWakelockRefCount <= Due' - Due
      <4>1. DropDelta \in Nat /\ Gone <= DropDelta
        BY <2>4
      <4>2. ASSUME mWakelockRefCount' = mWakelockRefCount - DropDelta
            PROVE  mWakelockRefCount' - mWakelockRefCount <= Due' - Due
        BY <1>0, <2>1, <4>1, <4>2
      <4> QED BY <3>2, <4>2
    <3> QED BY <3>4, <3>5 DEF Balanced
  <2> QED BY <1>7, <2>5, <2>6, <2>7
<1>8. CASE WriterFinish
  <2>1. PendingEvents' = left /\ wpc = "wrote" /\ wpc' = "loop"
    BY <1>8, FinishPending DEF WriterFinish
  <2>2. Unwritten' = Unwritten
    BY <2>1 DEF Unwritten
  <2>3. Waiting' = Waiting /\ Queued' = Queued /\ mWakelockRefCount' = mWakelockRefCount
    BY <1>8, <2>2 DEF Waiting, Queued, WriterFinish
  <2>4. Due' = Due
    BY <1>0, <1>1, <1>2, <2>3
  <2> QED BY <1>0, <2>3, <2>4 DEF Balanced
<1>9. WriterKeepsCount \/ WriterDrop => wpc' = "wrote"
  BY DEF WriterKeepsCount, WriterDrop
<1> QED BY <1>5, <1>6, <1>7, <1>8, <1>9 DEF Writer

\* K takes off what the framework acknowledges; its timeout is the fault
\* (619-642).
LEMMA WakerBalanced ==
  ASSUME IInv, IInv', Waker
  PROVE  Balanced
<1>0. /\ Counted \in Nat /\ Queued \in Nat /\ Waiting \in Nat /\ owed \in Nat /\ Acked \in Nat
      /\ LiveWakelocks \in Nat /\ mWakelockRefCount \in Nat /\ Due \in Nat
      /\ Due = Counted + Queued + Waiting + owed + Acked + LiveWakelocks
  BY DueType DEF DueOK
<1>1. /\ Due' \in Nat
      /\ Due' = Counted' + Queued' + Waiting' + owed' + Acked' + LiveWakelocks'
  BY DueTypeNext DEF DueOK
<1>2. Queued' = Queued /\ owed' = owed /\ Waiting' = Waiting /\ Counted' = Counted
  <2>1. /\ UNCHANGED <<mEventQueue, owed, wpc, wJob, ppc, batch>>
        /\ mPendingWriteEventsQueue' = mPendingWriteEventsQueue
    BY DEF Waker, WakerExit, WakerTest, WakerWait, WakerReset, WakerRead,
       WakerAcked, WakerNoAck
  <2> QED BY <2>1 DEF Queued, Waiting, Unwritten, PendingEvents, Counted
<1>3. CASE WakerExit
  <2>1. ~mThreadsRun' /\ mWakelockRefCount' = mWakelockRefCount /\ Acked' = Acked
    BY <1>3 DEF WakerExit, ResetSharedWakelock, DecrementIfRunning, Acked
  <2>2. LiveWakelocks' = 0
    BY <1>3, LiveStale DEF WakerExit, ResetSharedWakelock
  <2>3. Due' <= Due
    BY <1>0, <1>1, <1>2, <2>1, <2>2
  <2> QED BY <1>0, <1>1, <2>1, <2>3 DEF Balanced, StopLeak
<1>4. CASE WakerReset
  <2>1. mWakelockRefCount' = 0
    BY <1>0, <1>4 DEF WakerReset, ResetSharedWakelock, DecrementIfRunning, Decrement
  <2> QED BY <1>4, <2>1 DEF Balanced, TimeoutFault
<1>5. CASE WakerTest \/ WakerWait \/ WakerRead \/ WakerNoAck
  <2>1. /\ UNCHANGED <<mEventQueue, owed, mWakeLockQueue, scoped, mWakelockRefCount>>
        /\ mPendingWriteEventsQueue' = mPendingWriteEventsQueue
        /\ wpc' = wpc /\ wJob' = wJob
    BY <1>5 DEF WakerTest, WakerWait, WakerRead, WakerNoAck
  <2> QED BY <1>2, <2>1, StillBalanced
<1>6. CASE WakerAcked
  <2> DEFINE n == Head(mWakeLockQueue)
  <2>1. Acked = n + Acked' /\ n \in Nat
    <3>1. mWakeLockQueue \in Seq(Nat) /\ mWakeLockQueue # << >>
          /\ mWakeLockQueue' = Tail(mWakeLockQueue)
      BY <1>6 DEF WakerAcked, IInv, TypeOK
    <3> QED BY <3>1, TotalTail DEF Acked
  <2>2. DecrementIfRunning(n, TRUE) /\ mThreadsRun' = mThreadsRun
    BY <1>6 DEF WakerAcked
  <2>3. LiveWakelocks' = LiveWakelocks
    BY <1>6 DEF WakerAcked, LiveWakelocks
  <2> HIDE DEF n
  <2>4. Due' = Due - n
    BY <1>0, <1>1, <1>2, <2>1, <2>3, DueTypeNext DEF DueOK
  <2>5. /\ mWakelockRefCount' \in Nat
        /\ mWakelockRefCount' >= mWakelockRefCount - n
        /\ mThreadsRun => mWakelockRefCount' = 0
                          \/ mWakelockRefCount' = mWakelockRefCount - n
    BY <1>0, <2>1, <2>2, DecrementIfRunningBy
  <2> QED BY <1>0, <2>1, <2>2, <2>4, <2>5 DEF Balanced, StopLeak
<1> QED BY <1>3, <1>4, <1>5, <1>6 DEF Waker

\* The arithmetic of a balance.
LEMMA StaysAbove ==
  ASSUME NEW a \in Nat, NEW b \in Nat, NEW c \in Nat, NEW d \in Nat,
         a - b >= c - d, b >= d
  PROVE  a >= c
OBVIOUS

\* The same from above.
LEMMA StaysBelow ==
  ASSUME NEW a \in Nat, NEW b \in Nat, NEW c \in Nat, NEW d \in Nat,
         a - b <= c - d, b <= d
  PROVE  a <= c
OBVIOUS

\* A ScopedWakelock is one reference (createScopedWakelock, and its destructor).
LEMMA ScopeBalanced ==
  ASSUME IInv, IInv', AInv, AInv', NEW p \in SubHals,
         \/ CreateLocked(p) \/ Release(p) \/ EndPost(p)
         \/ \E b \in Batches : BeginPost(p, b)
  PROVE  Balanced
<1>0. /\ Counted \in Nat /\ Queued \in Nat /\ Waiting \in Nat /\ owed \in Nat /\ Acked \in Nat
      /\ LiveWakelocks \in Nat /\ mWakelockRefCount \in Nat /\ Due \in Nat
      /\ Due = Counted + Queued + Waiting + owed + Acked + LiveWakelocks
  BY DueType DEF DueOK
<1>1. /\ Due' \in Nat /\ LiveWakelocks' \in Nat
      /\ Due' = Counted' + Queued' + Waiting' + owed' + Acked' + LiveWakelocks'
  BY DueTypeNext DEF DueOK
<1>2. /\ Queued' = Queued /\ owed' = owed /\ Waiting' = Waiting /\ Acked' = Acked
      /\ mThreadsRun' = mThreadsRun
  <2>1. /\ UNCHANGED <<mEventQueue, owed, wpc, wJob, mWakeLockQueue, mThreadsRun>>
        /\ mPendingWriteEventsQueue' = mPendingWriteEventsQueue
    BY DEF CreateLocked, Release, EndPost, BeginPost
  <2> QED BY <2>1 DEF Queued, Waiting, Unwritten, PendingEvents, Acked
<1>3. Due' - Due = LiveWakelocks' - LiveWakelocks
  <2>1. /\ ppc[p] # "counted" /\ ppc'[p] # "counted"
        /\ \A q \in SubHals : q # p => ppc'[q] = ppc[q] /\ batch'[q] = batch[q]
    BY DEF CreateLocked, Release, EndPost, BeginPost, Destroyed, IInv, TypeOK
  <2>2. Counted' = Counted
    BY <2>1, CountedKept DEF AInv
  <2> QED BY <1>0, <1>1, <1>2, <2>2
<1>4. ASSUME NEW b \in Batches, BeginPost(p, b) PROVE Balanced
  <2>1. scoped[p] # "locked" /\ mWakelockRefCount' = mWakelockRefCount
    BY <1>4 DEF BeginPost, AInv, IdleUnlocked
  <2>2. LiveWakelocks' = LiveWakelocks
    <3>1. PICK v \in {"none", "unlocked"} : scoped' = [scoped EXCEPT ![p] = v]
      BY <1>4 DEF BeginPost
    <3>2. LiveWakelocks' = LiveWakelocks - (IF scoped[p] = "locked" THEN 1 ELSE 0)
                                         + (IF v = "locked" THEN 1 ELSE 0)
      BY <3>1, LiveExcept
    <3> QED BY <1>0, <2>1, <3>2
  <2> QED BY <1>0, <1>1, <1>3, <2>1, <2>2 DEF Balanced
<1>5. CASE CreateLocked(p)
  <2>1. scoped[p] # "locked" /\ scoped' = [scoped EXCEPT ![p] = "locked"]
    BY <1>5 DEF CreateLocked, AInv, IdleUnlocked
  <2>2. LiveWakelocks' = LiveWakelocks + 1
    <3>1. LiveWakelocks' = LiveWakelocks - (IF scoped[p] = "locked" THEN 1 ELSE 0)
                                         + (IF "locked" = "locked" THEN 1 ELSE 0)
      BY <2>1, LiveExcept
    <3> QED BY <1>0, <2>1, <3>1
  <2>3. mWakelockRefCount' = mWakelockRefCount + 1
    BY <1>5 DEF CreateLocked, Increment
  <2> QED BY <1>0, <1>1, <1>3, <2>2, <2>3 DEF Balanced
<1>6. CASE Release(p) \/ EndPost(p)
  <2>1. scoped' = [scoped EXCEPT ![p] = "none"]
    BY <1>6 DEF Release, EndPost, Destroyed
  <2>2. LiveWakelocks' = LiveWakelocks - (IF scoped[p] = "locked" THEN 1 ELSE 0)
    <3>1. LiveWakelocks' = LiveWakelocks - (IF scoped[p] = "locked" THEN 1 ELSE 0)
                                         + (IF "none" = "locked" THEN 1 ELSE 0)
      BY <2>1, LiveExcept
    <3> QED BY <1>0, <3>1
  <2>3. CASE Release(p) /\ scoped[p] = "locked"
    <3>1. Decrement(1, TRUE)
      BY <2>3, Zenon DEF Release
    <3>2. /\ mWakelockRefCount' \in Nat
          /\ mWakelockRefCount' >= mWakelockRefCount - 1
          /\ mWakelockRefCount' = 0 \/ mWakelockRefCount' = mWakelockRefCount - 1
      BY <1>0, <3>1, DecrementBy
    <3>3. Due' - Due = 0 - 1
      BY <1>0, <1>1, <1>3, <2>2, <2>3
    <3> QED BY <1>0, <3>2, <3>3 DEF Balanced
  <2>4. CASE EndPost(p) /\ scoped[p] = "locked"
    <3>1. ~mThreadsRun' /\ mWakelockRefCount' = mWakelockRefCount
      BY <2>4 DEF EndPost, IsLocked
    <3>2. Due' - Due = 0 - 1
      BY <1>0, <1>1, <1>3, <2>2, <2>4
    <3> QED BY <1>0, <3>1, <3>2 DEF Balanced, StopLeak
  <2>5. CASE scoped[p] # "locked"
    <3>1. mWakelockRefCount' = mWakelockRefCount
      BY <1>6, <2>5 DEF EndPost, Release, Decrement
    <3>2. LiveWakelocks' = LiveWakelocks
      BY <1>0, <2>2, <2>5
    <3> QED BY <1>0, <1>1, <1>3, <3>1, <3>2 DEF Balanced
  <2> QED BY <1>6, <2>3, <2>4, <2>5
<1> QED BY <1>4, <1>5, <1>6

\* Under the mutex a post counts its wake-up events before it queues them (663-665).
LEMMA CountBalanced ==
  ASSUME IInv, IInv', AInv, AInv', NEW p \in SubHals, CountPost(p)
  PROVE  Balanced
<1>0. /\ Counted \in Nat /\ Queued \in Nat /\ Waiting \in Nat /\ owed \in Nat /\ Acked \in Nat
      /\ LiveWakelocks \in Nat /\ mWakelockRefCount \in Nat /\ Due \in Nat
      /\ Due = Counted + Queued + Waiting + owed + Acked + LiveWakelocks
  BY DueType DEF DueOK
<1>1. /\ Due' \in Nat /\ Counted' \in Nat
      /\ Due' = Counted' + Queued' + Waiting' + owed' + Acked' + LiveWakelocks'
  BY DueTypeNext DEF DueOK
<1>2. /\ Queued' = Queued /\ owed' = owed /\ Waiting' = Waiting /\ Acked' = Acked
      /\ LiveWakelocks' = LiveWakelocks
  <2>1. /\ UNCHANGED <<mEventQueue, owed, wpc, wJob, mWakeLockQueue, scoped>>
        /\ mPendingWriteEventsQueue' = mPendingWriteEventsQueue
    BY DEF CountPost
  <2> QED BY <2>1 DEF Queued, Waiting, Unwritten, PendingEvents, Acked, LiveWakelocks
<1>3. Counted = 0
  <2>1. \A q \in SubHals : ppc[q] # "counted"
    BY DEF CountPost, AInv, OneInPost, InPost
  <2> QED BY <2>1, CountedBy DEF AInv, CountedOK
<1>4. Counted' = CountWake(batch[p])
  <2>1. ppc'[p] = "counted" /\ batch'[p] = batch[p]
    BY DEF CountPost, IInv, TypeOK
  <2>2. Counted' = CountWake(batch'[p])
    BY <2>1, CountedByNext DEF AInv, CountedOK
  <2> QED BY <2>1, <2>2
<1>5. mWakelockRefCount' = mWakelockRefCount + CountWake(batch[p])
  BY DEF CountPost, Increment
<1> QED BY <1>0, <1>1, <1>2, <1>3, <1>4, <1>5 DEF Balanced

\* What postEventsToMessageQueue writes to the event queue at once (667-678).
Given(p) == TakeN(batch[p], DirectWrite(batch[p]))

\* A post is balanced: as many wake-up events are accepted as were counted, or one
\* of the faults and leaks happened.
LEMMA PostBalanced ==
  ASSUME IInv, IInv', AInv, AInv', NEW p \in SubHals, PostToQueue(p)
  PROVE  Balanced
<1> DEFINE b == batch[p]
<1>0. /\ Counted \in Nat /\ Queued \in Nat /\ Waiting \in Nat /\ owed \in Nat /\ Acked \in Nat
      /\ LiveWakelocks \in Nat /\ mWakelockRefCount \in Nat /\ Due \in Nat
      /\ Due = Counted + Queued + Waiting + owed + Acked + LiveWakelocks
  BY DueType DEF DueOK
<1>1. /\ Due' \in Nat
      /\ Due' = Counted' + Queued' + Waiting' + owed' + Acked' + LiveWakelocks'
  BY DueTypeNext DEF DueOK
<1>2. /\ owed' = owed /\ Acked' = Acked /\ LiveWakelocks' = LiveWakelocks
      /\ mThreadsRun' = mThreadsRun /\ (wpc' = "wrote" <=> wpc = "wrote")
      /\ wJob' = wJob
  BY DEF PostToQueue, Acked, LiveWakelocks, NotifyWriter
<1>3. /\ b \in Seq(Events) /\ mEventQueue \in Seq(Events)
      /\ PendingEvents \in Seq(Events)
  BY PendingType DEF IInv, TypeOK
<1>4. /\ LeftOver(p) \in Seq(Events) /\ DirectWrite(b) \in 0..Len(b)
      /\ Len(LeftOver(p)) = Len(b) - DirectWrite(b)
      /\ PendingEvents' = IF Queues(p) THEN PendingEvents \o LeftOver(p)
                                       ELSE PendingEvents
  BY PostPending
<1>5. Given(p) \in Seq(Events) /\ mEventQueue' = mEventQueue \o Given(p)
  BY <1>3, <1>4, TakeType DEF PostToQueue, Given
<1>6. /\ CountWake(b) = CountWake(Given(p)) + CountWake(LeftOver(p))
      /\ CountWake(Given(p)) \in Nat /\ CountWake(LeftOver(p)) \in Nat
      /\ CountWake(b) \in Nat
  <2>1. CountWake(b) \in Nat
    BY <1>3, CountWakeType
  <2> QED BY <1>3, <1>4, <2>1, CountWakeSplit DEF Given, LeftOver
<1>7. Queued' = Queued + CountWake(Given(p))
  BY <1>3, <1>5, CountWakeConcat DEF Queued
<1>8. Waiting' = IF Queues(p) THEN Waiting + CountWake(LeftOver(p)) ELSE Waiting
  <2>1. CASE Queues(p)
    <3>1. PendingEvents' = PendingEvents \o LeftOver(p)
      BY <1>4, <2>1
    <3>2. CASE wpc = "wrote"
      <4>1. wJob.n \in 0..Len(PendingEvents)
        <5>1. /\ PendingEvents = FrontEvents \o Behind
              /\ FrontEvents \in Seq(Events) /\ Behind \in Seq(Events)
              /\ Len(FrontEvents) \in Nat /\ wJob.n \in 0..Len(FrontEvents)
          BY <3>2, FrontHeld DEF WithFront
        <5>2. /\ Len(PendingEvents) = Len(FrontEvents) + Len(Behind)
              /\ Len(Behind) \in Nat
          BY <5>1, ConcatProperties, LenProperties
        <5> QED BY <5>1, <5>2
      <4>2. Unwritten = DropN(PendingEvents, wJob.n) /\ Unwritten \in Seq(Events)
        BY <1>3, <3>2, <4>1, DropType DEF Unwritten
      <4>3. Unwritten' = DropN(PendingEvents \o LeftOver(p), wJob.n)
        BY <1>2, <3>1, <3>2 DEF Unwritten
      <4> HIDE DEF DropN
      <4>4. Unwritten' = Unwritten \o LeftOver(p)
        BY <1>3, <1>4, <4>1, <4>2, <4>3, DropOfConcat
      <4> QED BY <1>4, <2>1, <4>2, <4>4, CountWakeConcat DEF Waiting
    <3>3. CASE wpc # "wrote"
      <4>1. Unwritten = PendingEvents /\ Unwritten' = PendingEvents \o LeftOver(p)
        BY <1>2, <3>1, <3>3 DEF Unwritten
      <4> QED BY <1>3, <1>4, <2>1, <4>1, CountWakeConcat DEF Waiting
    <3> QED BY <3>2, <3>3
  <2>2. CASE ~Queues(p)
    <3>1. PendingEvents' = PendingEvents
      BY <1>4, <2>2
    <3>2. Unwritten' = Unwritten
      BY <1>2, <3>1 DEF Unwritten
    <3> QED BY <2>2, <3>2 DEF Waiting
  <2> QED BY <2>1, <2>2
<1>9. mWakelockRefCount' = mWakelockRefCount
  BY DEF PostToQueue
<1>10. /\ Counted' = 0
       /\ ppc[p] = "counted" => Counted = CountWake(b)
       /\ ppc[p] = "inpost" => Counted = 0
  <2>1. /\ ppc[p] \in {"counted", "inpost"} /\ ppc'[p] = "posted"
        /\ \A q \in SubHals : q # p => ppc'[q] = ppc[q]
    BY DEF PostToQueue, IInv, TypeOK
  <2>2. \A q \in SubHals : q # p => ppc[q] # "counted"
    BY <2>1 DEF AInv, OneInPost, InPost
  <2>3. \A q \in SubHals : ppc'[q] # "counted"
    BY <2>1, <2>2
  <2>4. Counted' = 0
    BY <2>3, CountedByNext DEF AInv, CountedOK
  <2>5. CountedOK
    BY CountedBy DEF AInv
  <2>6. ppc[p] = "inpost" => \A q \in SubHals : ppc[q] # "counted"
    BY <2>2
  <2> QED BY <2>4, <2>5, <2>6 DEF CountedOK
<1>11. OverflowLeak \/ Queues(p) \/ CountWake(LeftOver(p)) = 0
  <2>1. OverflowLeak \/ RestFits(Len(LeftOver(p))) \/ ~(CountWake(LeftOver(p)) > 0)
    <3>1. OverflowLeak \/ RestFits(Len(b) - DirectWrite(b)) \/ ~(CountWake(LeftOver(p)) > 0)
      BY DEF OverflowLeak, LeftOver
    <3> QED BY <1>4, <3>1
  <2>2. LeftOver(p) = << >> => CountWake(LeftOver(p)) = 0
    BY CountWakeEmpty
  <2>3. CountWake(LeftOver(p)) > 0 \/ CountWake(LeftOver(p)) = 0
    BY <1>6
  <2> QED BY <2>1, <2>2, <2>3 DEF Queues
<1> HIDE DEF b
<1>12. /\ Due' - Due <= CountWake(b) - Counted /\ Due' - Due >= 0 - Counted
       /\ Queues(p) \/ CountWake(LeftOver(p)) = 0 => Due' - Due = CountWake(b) - Counted
  <2> DEFINE in  == CountWake(Given(p))
             out == CountWake(LeftOver(p))
             all == CountWake(b)
  <2>1. /\ Queued' = Queued + in /\ all = in + out /\ in \in Nat /\ out \in Nat
        /\ Waiting' = IF Queues(p) THEN Waiting + out ELSE Waiting
    BY <1>6, <1>7, <1>8
  <2> HIDE DEF in, out, all
  <2>2. /\ Due' - Due <= all - Counted /\ Due' - Due >= 0 - Counted
        /\ Queues(p) \/ out = 0 => Due' - Due = all - Counted
    BY <1>0, <1>1, <1>2, <1>10, <2>1
  <2> QED BY <2>2, Zenon DEF out, all
<1>13. CASE ppc[p] = "counted"
  <2>1. OverflowLeak \/ Due' - Due = 0
    BY <1>0, <1>6, <1>10, <1>11, <1>12, <1>13
  <2>2. Due' - Due <= 0
    BY <1>0, <1>6, <1>10, <1>12, <1>13
  <2> QED BY <1>0, <1>1, <1>9, <2>1, <2>2 DEF Balanced
<1>14. CASE ppc[p] = "inpost"
  <2>1. Due' - Due >= 0 /\ Due' - Due <= CountWake(b)
    BY <1>0, <1>6, <1>10, <1>12, <1>14
  <2>2. UncountedFault \/ CountWake(b) = 0
    <3>1. UncountedFault \/ ~(CountWake(b) > 0)
      BY <1>14 DEF UncountedFault, b
    <3> QED BY <1>6, <3>1
  <2> QED BY <1>0, <1>1, <1>6, <1>9, <2>1, <2>2 DEF Balanced
<1> QED BY <1>13, <1>14 DEF PostToQueue

\* The framework takes events from the queue into its debt, and its debt into an
\* acknowledgement.
LEMMA FrameworkBalanced ==
  ASSUME IInv, IInv',
         FrameworkAck \/ \E k \in 1..EventQueueSize : FrameworkRead(k)
  PROVE  Balanced
<1>0. /\ Counted \in Nat /\ Queued \in Nat /\ Waiting \in Nat /\ owed \in Nat /\ Acked \in Nat
      /\ LiveWakelocks \in Nat /\ mWakelockRefCount \in Nat /\ Due \in Nat
      /\ Due = Counted + Queued + Waiting + owed + Acked + LiveWakelocks
  BY DueType DEF DueOK
<1>1. /\ Due' \in Nat
      /\ Due' = Counted' + Queued' + Waiting' + owed' + Acked' + LiveWakelocks'
  BY DueTypeNext DEF DueOK
<1>2. /\ Waiting' = Waiting /\ LiveWakelocks' = LiveWakelocks
      /\ mWakelockRefCount' = mWakelockRefCount /\ Counted' = Counted
  BY DEF FrameworkAck, FrameworkRead, Waiting, Unwritten, PendingEvents,
     LiveWakelocks, Counted
<1>3. ASSUME NEW k \in 1..EventQueueSize, FrameworkRead(k)
      PROVE  Due' = Due
  <2> DEFINE read == TakeN(mEventQueue, k)
  <2>1. k \in 0..Len(mEventQueue) /\ mEventQueue \in Seq(Events)
    BY <1>3, LenProperties, SizesAssumption DEF FrameworkRead, IInv, TypeOK
  <2>2. /\ CountWake(mEventQueue) = CountWake(read) + CountWake(DropN(mEventQueue, k))
        /\ CountWake(read) \in Nat /\ CountWake(DropN(mEventQueue, k)) \in Nat
    BY <2>1, CountWakeSplit
  <2>3. /\ mEventQueue' = DropN(mEventQueue, k) /\ mWakeLockQueue' = mWakeLockQueue
        /\ owed' = owed + CountWake(read)
    BY <1>3 DEF FrameworkRead
  <2> HIDE DEF read, DropN
  <2>4. Queued = CountWake(read) + Queued' /\ Queued' \in Nat /\ Acked' = Acked
    BY <2>2, <2>3 DEF Queued, Acked
  <2> QED BY <1>0, <1>1, <1>2, <2>2, <2>3, <2>4
<1>4. ASSUME FrameworkAck
      PROVE  Due' = Due
  <2>1. Total(Append(mWakeLockQueue, owed)) = Total(mWakeLockQueue) + owed
    BY TotalAppend DEF IInv, TypeOK
  <2>2. /\ Queued' = Queued /\ owed' = 0
        /\ mWakeLockQueue' = Append(mWakeLockQueue, owed)
    BY <1>4 DEF FrameworkAck, Queued
  <2>3. Acked' = Acked + owed
    BY <2>1, <2>2, Zenon DEF Acked
  <2> QED BY <1>0, <1>1, <1>2, <2>2, <2>3
<1> QED BY <1>0, <1>2, <1>3, <1>4 DEF Balanced

\* Every step is balanced.
LEMMA StepBalanced ==
  ASSUME IInv, IInv', AInv, AInv', [Next]_vars
  PROVE  Balanced
<1>1. CASE InitializeCall \/ BinderInitialize
  BY <1>1, BinderBalanced
<1>2. CASE Writer
  BY <1>2, WriterBalanced
<1>3. CASE Waker
  BY <1>3, WakerBalanced
<1>4. ASSUME NEW p \in SubHals,
             Poster(p) \/ \E b \in Batches : BeginPost(p, b)
      PROVE  Balanced
  <2>1. CASE \/ CreateLocked(p) \/ Release(p) \/ EndPost(p)
             \/ \E b \in Batches : BeginPost(p, b)
    BY <2>1, ScopeBalanced
  <2>2. CASE PostToQueue(p)
    BY <2>2, PostBalanced
  <2>3. CASE RefusePost(p) \/ AdmitPost(p) \/ EnterPost(p) \/ MayRelease(p)
    <3>1. /\ UNCHANGED <<mEventQueue, owed, mWakeLockQueue, scoped, mWakelockRefCount>>
          /\ mPendingWriteEventsQueue' = mPendingWriteEventsQueue
          /\ wpc' = wpc /\ wJob' = wJob
      BY <2>3 DEF RefusePost, AdmitPost, EnterPost, MayRelease
    <3>2. /\ ppc[p] # "counted" /\ ppc'[p] # "counted" /\ batch' = batch
          /\ \A q \in SubHals : q # p => ppc'[q] = ppc[q]
      BY <2>3 DEF RefusePost, AdmitPost, EnterPost, MayRelease, IInv, TypeOK
    <3>3. Counted' = Counted
      BY <3>2, CountedKept DEF AInv
    <3> QED BY <3>1, <3>3, StillBalanced
  <2>4. CASE CountPost(p)
    BY <2>4, CountBalanced
  <2> QED BY <1>4, <2>1, <2>2, <2>3, <2>4 DEF Poster
<1>5. CASE FrameworkAck \/ \E k \in 1..EventQueueSize : FrameworkRead(k)
  BY <1>5, FrameworkBalanced
<1>6. CASE Tick \/ UNCHANGED vars
           \/ \E p \in SubHals, enable \in BOOLEAN : Activate(p, enable)
  <2>1. /\ UNCHANGED <<mEventQueue, owed, mWakeLockQueue, scoped, mWakelockRefCount>>
        /\ mPendingWriteEventsQueue' = mPendingWriteEventsQueue
        /\ wpc' = wpc /\ wJob' = wJob /\ Counted' = Counted
    BY <1>6 DEF Tick, vars, Activate, Counted
  <2> QED BY <2>1, StillBalanced
<1> QED BY <1>1, <1>2, <1>3, <1>4, <1>5, <1>6 DEF Next

-----------------------------------------------------------------------------
(***************************************************************************)
(* Theorems.                                                               *)
(***************************************************************************)
\* Nothing is in flight or counted at the start.
LEMMA InitAudited == InitAudit => AInv /\ WakeEventsCovered /\ NoReferenceLeak
<1> SUFFICES ASSUME InitAudit PROVE AInv /\ WakeEventsCovered /\ NoReferenceLeak
  OBVIOUS
<1>1. AInv
  BY EmptySeq DEF InitAudit, Init, AInv, IdleUnlocked, OneInPost, InPost,
     CountsCoverPending
<1>2. PendingEvents = Held(<< >>) /\ wpc # "wrote"
  BY DEF InitAudit, Init, PendingEvents, Held, Payload
<1>3. Queued = 0 /\ Waiting = 0 /\ Acked = 0 /\ Counted = 0
  BY <1>2, HeldEmpty, CountWakeEmpty, TotalEmpty
     DEF InitAudit, Init, Queued, Waiting, Unwritten, Acked, Counted
<1>4. LiveWakelocks = 0
  <2>1. {p \in SubHals : scoped[p] = "locked"} = {}
    BY DEF InitAudit, Init
  <2> QED BY <2>1, FS_EmptySet DEF LiveWakelocks
<1>5. InFlight + LiveWakelocks = 0 /\ mWakelockRefCount = 0
  BY <1>3, <1>4 DEF InitAudit, Init, InFlight, Queued, Waiting, Acked
<1> QED BY <1>1, <1>5 DEF WakeEventsCovered, NoReferenceLeak

\* A balanced step keeps the count what the history lets it be.
LEMMA AuditStep ==
  ASSUME IInv, IInv', AInv, AInv', WakeEventsCovered, NoReferenceLeak,
         [NextAudit]_<<vars, clean, tight>>
  PROVE  WakeEventsCovered' /\ NoReferenceLeak'
<1>1. /\ Due \in Nat /\ mWakelockRefCount \in Nat
      /\ Due' \in Nat /\ mWakelockRefCount' \in Nat
  BY DueType, DueTypeNext DEF DueOK
<1>2. Due = InFlight + LiveWakelocks /\ Due' = InFlight' + LiveWakelocks'
  BY DEF Due
<1>3. Balanced
  BY StepBalanced DEF NextAudit, vars
<1>4. CASE UNCHANGED <<vars, clean, tight>>
  <2>1. Due' = Due
    BY <1>4 DEF vars, Due, InFlight, LiveWakelocks, Unwritten, PendingEvents, Counted
  <2> QED BY <1>2, <1>4, <2>1 DEF vars, WakeEventsCovered, NoReferenceLeak
<1>5. CASE NextAudit
  <2>1. clean' => \/ Due' = 0
                  \/ clean /\ ~TimeoutFault /\ ~DropFault /\ ~UncountedFault
    BY <1>2, <1>5, Zenon DEF NextAudit
  <2>2. tight' => mWakelockRefCount' = 0 \/ (tight /\ ~OverflowLeak /\ ~StopLeak)
    BY <1>5, Zenon DEF NextAudit
  <2>3. WakeEventsCovered'
    <3>1. ASSUME clean' PROVE mWakelockRefCount' >= Due'
      <4>1. CASE Due' = 0
        BY <1>1, <4>1
      <4>2. CASE clean /\ ~TimeoutFault /\ ~DropFault /\ ~UncountedFault
        <5>1. mWakelockRefCount >= Due
          BY <1>2, <4>2 DEF WakeEventsCovered
        <5>2. mWakelockRefCount' - mWakelockRefCount >= Due' - Due
          BY <1>3, <4>2 DEF Balanced
        <5> QED BY <1>1, <5>1, <5>2, StaysAbove
      <4> QED BY <2>1, <3>1, <4>1, <4>2
    <3> QED BY <1>2, <3>1 DEF WakeEventsCovered
  <2>4. NoReferenceLeak'
    <3>1. ASSUME tight' PROVE mWakelockRefCount' <= Due'
      <4>1. CASE mWakelockRefCount' = 0
        BY <1>1, <4>1
      <4>2. CASE tight /\ ~OverflowLeak /\ ~StopLeak /\ mWakelockRefCount' # 0
        <5>1. mWakelockRefCount <= Due
          BY <1>2, <4>2 DEF NoReferenceLeak
        <5>2. mWakelockRefCount' - mWakelockRefCount <= Due' - Due
          BY <1>3, <4>2 DEF Balanced
        <5> QED BY <1>1, <5>1, <5>2, StaysBelow
      <4> QED BY <2>2, <3>1, <4>1, <4>2
    <3> QED BY <1>2, <3>1 DEF NoReferenceLeak
  <2> QED BY <2>3, <2>4
<1> QED BY <1>4, <1>5

\* The history variables watch the event path and do not disturb it.
LEMMA AuditedSpec == SpecAudit => Spec
<1>1. InitAudit => Init
  BY DEF InitAudit
<1>2. [NextAudit]_<<vars, clean, tight>> => [Next]_vars
  BY DEF NextAudit
<1> QED BY <1>1, <1>2, PTL DEF SpecAudit, Spec

\* The count covers and does not exceed what it stands for, as the history lets
\* it, in every reachable state of the event path.
THEOREM AuditInvariance ==
  SpecAudit => [](AInv /\ WakeEventsCovered /\ NoReferenceLeak)
<1> DEFINE J == AInv /\ WakeEventsCovered /\ NoReferenceLeak
<1>1. IInv /\ AInv /\ [Next]_vars => AInv'
  BY IdleStep, OneInPostStep, CoverStep DEF AInv
<1>2. [NextAudit]_<<vars, clean, tight>> => [Next]_vars
  BY DEF NextAudit
<1>3. IInv /\ IInv' /\ J /\ [NextAudit]_<<vars, clean, tight>> => J'
  <2> SUFFICES ASSUME IInv, IInv', J, [NextAudit]_<<vars, clean, tight>> PROVE J'
    OBVIOUS
  <2>1. AInv'
    BY <1>1, <1>2
  <2> QED BY <2>1, AuditStep
<1>4. SpecAudit => []IInv
  BY AuditedSpec, Invariance, PTL
<1> HIDE DEF J
<1>5. InitAudit => J
  BY InitAudited DEF J
<1>6. SpecAudit => []J
  BY <1>3, <1>4, <1>5, PTL DEF SpecAudit
<1> QED BY <1>6, PTL DEF J

\* Every wake-up event on its way to the framework holds a reference (the count is
\* never below what postEvents accepted and nobody acknowledged), unless, since
\* nothing was last in flight, the timeout of K fired (623-638), a split batch was
\* given up (591-597) or a post met a stop. The proof shows that no other step of
\* any thread lets the count fall short.
THEOREM WakeEventsCoveredCorrect == SpecAudit => []WakeEventsCovered
BY AuditInvariance, PTL

\* No reference is left over (the count is never above that), unless, since it was
\* last zero, a full pending queue refused the rest of a batch (682) or the threads
\* were stopped (711). The proof shows that no other step of any thread leaks one.
THEOREM NoReferenceLeakCorrect == SpecAudit => []NoReferenceLeak
BY AuditInvariance, PTL
=============================================================================
