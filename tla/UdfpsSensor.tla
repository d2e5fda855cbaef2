----------------------------- MODULE UdfpsSensor -----------------------------
(***************************************************************************)
(* The fingerprint touch sensor (sensors/udfps_hal.cpp). One thread is in  *)
(* poll all the time, another calls activate, which flushes the node. Both *)
(* read the same descriptor, each with an lseek and a read, so that they   *)
(* share its offset. The node is notified of a press and of its end.       *)
(***************************************************************************)
VARIABLES
  press,               \* "none", or the finger is down and its press is "new",
                       \* "found" by poll, "told", or "dropped"
  pending,             \* poll would return at once: notified since the last read
  atEnd,               \* the offset is past the text
  ppc, apc             \* the threads in udfps_poll and in udfps_activate

device  == <<press, pending, atEnd>>
vars == <<device, ppc, apc>>

TypeOK ==
  /\ press \in {"none", "new", "found", "told", "dropped"}
  /\ pending \in BOOLEAN /\ atEnd \in BOOLEAN
  /\ ppc \in {"out", "wait", "seek", "read", "found"}
  /\ apc \in {"idle", "wait", "seek", "read"}

\* The descriptor is open and was not read yet.
Init ==
  /\ press = "none" /\ pending \in BOOLEAN /\ atEnd = FALSE
  /\ ppc = "out" /\ apc = "idle"

-----------------------------------------------------------------------------
\* The kernel. A notification may also come while nothing changes.
Press == press = "none" /\ press' = "new" /\ pending' = TRUE
Lift  == press # "none" /\ press' = "none" /\ pending' = TRUE
Touch ==
  /\ Press \/ Lift \/ (pending' = TRUE /\ UNCHANGED press)
  /\ UNCHANGED <<atEnd, ppc, apc>>

Unseen(p) == IF p = "new" THEN "dropped" ELSE p

Rewind_Never == UNCHANGED device    \* mutant: no lseek
Rewind == atEnd' = FALSE /\ UNCHANGED <<press, pending>>

\* Past its end the node reads as nothing, and the notification stays.
ReadNothing == atEnd /\ UNCHANGED device
ReadText    == ~atEnd /\ pending' = FALSE /\ atEnd' = TRUE
\* A read that fails may have taken the notification, or not.
ReadNoText  == /\ \/ UNCHANGED <<press, pending>>
                  \/ pending' = FALSE /\ press' = Unseen(press)
               /\ UNCHANGED atEnd

-----------------------------------------------------------------------------
(***************************************************************************)
(* udfps_poll.                                                             *)
(***************************************************************************)
CallPoll == ppc = "out" /\ ppc' = "wait" /\ UNCHANGED <<device, apc>>

WaitEvent == ppc = "wait" /\ pending /\ ppc' = "seek" /\ UNCHANGED <<device, apc>>
WaitFails == ppc = "wait" /\ ppc' = "out" /\ UNCHANGED <<device, apc>>

\* A failed lseek is logged, and nothing is read.
SeekState == ppc = "seek" /\ Rewind /\ ppc' = "read" /\ UNCHANGED apc
SeekFails == ppc = "seek" /\ ppc' = "wait" /\ UNCHANGED <<device, apc>>

\* Without a press the loop goes on.
ReadState ==
  /\ ppc = "read"
  /\ \/ ReadNothing /\ ppc' = "wait"
     \/ ReadText /\ press = "none" /\ ppc' = "wait" /\ UNCHANGED press
     \/ ReadText /\ press # "none" /\ ppc' = "found" /\ press' = "found"
  /\ UNCHANGED apc

\* Neither is a text that is not three numbers, nor a failed read.
ReadBadState ==
  /\ ppc = "read" /\ ReadText /\ press' = Unseen(press) /\ ppc' = "wait"
  /\ UNCHANGED apc
ReadFails == ppc = "read" /\ ReadNoText /\ ppc' = "wait" /\ UNCHANGED apc

Return ==
  /\ ppc = "found" /\ ppc' = "out"
  /\ press' = IF press = "found" THEN "told" ELSE press
  /\ UNCHANGED <<pending, atEnd, apc>>

-----------------------------------------------------------------------------
(***************************************************************************)
(* udfps_activate and udfps_flush_events. Disabling does nothing.          *)
(***************************************************************************)
Activate == apc = "idle" /\ apc' = "wait" /\ UNCHANGED <<device, ppc>>

FlushWait  == apc = "wait" /\ pending /\ apc' = "seek" /\ UNCHANGED <<device, ppc>>
\* Nothing pends, or poll fails.
FlushEnds  == apc = "wait" /\ ~pending /\ apc' = "idle" /\ UNCHANGED <<device, ppc>>
FlushFails == apc = "wait" /\ apc' = "idle" /\ UNCHANGED <<device, ppc>>

FlushSeek      == apc = "seek" /\ Rewind /\ apc' = "read" /\ UNCHANGED ppc
FlushSeekFails == apc = "seek" /\ apc' = "wait" /\ UNCHANGED <<device, ppc>>

\* What was read, or whether, makes no difference: the loop polls again.
FlushRead ==
  /\ apc = "read" /\ apc' = "wait"
  /\ ReadNothing \/ (ReadText /\ press' = Unseen(press))
  /\ UNCHANGED ppc
FlushReadFails == apc = "read" /\ ReadNoText /\ apc' = "wait" /\ UNCHANGED ppc

-----------------------------------------------------------------------------
Poll  == CallPoll \/ WaitEvent \/ SeekState \/ ReadState \/ ReadBadState \/ Return
Flush == FlushWait \/ FlushEnds \/ FlushSeek \/ FlushRead
PollFails == WaitFails \/ SeekFails \/ ReadFails
FlushStepFails == FlushFails \/ FlushSeekFails \/ FlushReadFails

Next == Touch \/ Poll \/ PollFails \/ Activate \/ Flush \/ FlushStepFails

Spec == Init /\ [][Next]_vars

\* Both threads run, and poll, lseek and read do not fail for ever.
Fairness ==
  /\ WF_vars(Poll) /\ SF_vars(WaitEvent) /\ SF_vars(SeekState)
  /\ SF_vars(ReadState \/ ReadBadState)
  /\ WF_vars(Flush) /\ SF_vars(FlushSeek) /\ SF_vars(FlushRead)

\* A press that neither thread has seen is pending: a read consumes a notification
\* only with the text, never at its end.
UnseenPends == press = "new" => pending

\* No press stays unseen while the finger is down: poll finds it, or a flush or a
\* read that failed takes it. A thread whose read comes to the end of the node
\* because the other one moved the offset (51, 57) leaves nothing behind, as the
\* other one has read.
PressSeen == press = "new" ~> press # "new"

\* A round of the flush that reads takes the notification, or finds it taken by poll, though
\* the two move each other's offset (51, 57): it never reads past the end of a
\* node that has more to say and goes round again. Not so when it is touched.
RoundTakesAll == [][FlushRead => ~pending']_vars
StaysTaken    == [](~pending => []~pending)

\* Once the node is quiet activate returns: each round of its flush (100) whose
\* lseek and read succeed takes the notification it saw, or poll did.
ActivateReturns ==
  <>[][~Touch]_vars => (apc # "idle" ~> apc = "idle")
=============================================================================
