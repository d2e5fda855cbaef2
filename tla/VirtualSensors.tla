--------------------------- MODULE VirtualSensors ---------------------------
(***************************************************************************)
(* The pickup sensor (sensors/oplus_virtual_sensors.cpp): the kernel queues *)
(* events on a device; poll waits, reads one and converts it. Events are   *)
(* numbered here as they arrive.                                           *)
(***************************************************************************)
EXTENDS Naturals, Sequences, Functions

CONSTANTS
  MaxEvents            \* bound: events that arrive

VARIABLES
  dev,                 \* the device's queue
  event,               \* the buffer of virtual_sensors_poll, 0 before a read
  vpc,                 \* the thread in virtual_sensors_poll
  \* History.
  handles,             \* of the events that arrived, known or not
  lost,                \* events whose read failed or was short
  handed               \* events poll returned

vars == <<dev, event, vpc, handles, lost, handed>>

Init ==
  /\ dev = << >> /\ event = 0 /\ vpc = "out"
  /\ handles = << >> /\ lost = {} /\ handed = << >>

\* The kernel.
Arrive(handle) ==
  /\ Len(handles) < MaxEvents
  /\ handles' = Append(handles, handle) /\ dev' = Append(dev, Len(handles) + 1)
  /\ UNCHANGED <<event, vpc, lost, handed>>

-----------------------------------------------------------------------------
\* event is a local variable.
CallPoll ==
  /\ vpc = "out" /\ vpc' = "wait" /\ event' = 0
  /\ UNCHANGED <<dev, handles, lost, handed>>

WaitEvent ==
  /\ vpc = "wait" /\ dev # << >> /\ vpc' = "read"
  /\ UNCHANGED <<dev, event, handles, lost, handed>>
WaitFails ==
  /\ vpc = "wait" /\ vpc' = "out"
  /\ UNCHANGED <<dev, event, handles, lost, handed>>

ReadEvent ==
  /\ vpc = "read" /\ vpc' = "convert"
  /\ event' = Head(dev) /\ dev' = Tail(dev)
  /\ UNCHANGED <<handles, lost, handed>>

\* The read fails, before or after the device gave the event up, or is short.
ReadFails_Goes ==    \* mutant: a failed read is taken for an event
  /\ vpc = "read" /\ vpc' = "convert"
  /\ \/ UNCHANGED <<dev, lost>>
     \/ dev' = Tail(dev) /\ lost' = lost \union {Head(dev)}
  /\ event' = Head(dev)
  /\ UNCHANGED <<handles, handed>>
ReadFails ==
  /\ vpc = "read" /\ vpc' = "wait"
  /\ \/ UNCHANGED <<dev, lost>>
     \/ dev' = Tail(dev) /\ lost' = lost \union {Head(dev)}
  /\ UNCHANGED <<event, handles, handed>>

\* An unknown sensor makes poll return an error.
ConvertEvent ==
  /\ vpc = "convert" /\ vpc' = "out"
  /\ handed' = IF handles[event] = "pickup" THEN Append(handed, event) ELSE handed
  /\ UNCHANGED <<dev, event, handles, lost>>

Poll == CallPoll \/ WaitEvent \/ ReadEvent \/ ReadFails \/ ConvertEvent
Next == Poll \/ WaitFails \/ \E h \in {"pickup", "unknown"} : Arrive(h)

Spec == Init /\ [][Next]_vars

\* The events that left the device and are not being converted.
Taken == Len(handles) - Len(dev) - (IF vpc = "convert" THEN 1 ELSE 0)

\* poll has returned each pickup that left the device, once and in order, but for
\* those whose read failed (78-93): neither an error nor an unknown sensor makes it
\* return one again or skip the next.
PickupsInOrder ==
  /\ Range(handed) = {i \in 1..Taken : handles[i] = "pickup" /\ i \notin lost}
  /\ \A j, k \in DOMAIN handed : j < k => handed[j] < handed[k]
=============================================================================
