----------------------------- MODULE TouchNodes -----------------------------
(***************************************************************************)
(* The touch gesture HAL (touch/) and the power HAL's double tap mode      *)
(* (power/power-mode.cpp): each request writes one node of the touch       *)
(* panel's driver.                                                         *)
(***************************************************************************)
EXTENDS Naturals

CONSTANTS
  Requests             \* ids of gestures that are asked for, known or not

Tap == "double_tap"    \* the node of double tap to wake

\* kGestureInfoMap: the node of each gesture.
kGestureInfoMap ==
  [id \in 0..11 |->
     CASE id = 0 -> "double_swipe" [] id = 1 -> "down_arrow"  [] id = 2 -> "up_arrow"
       [] id = 3 -> "right_arrow"  [] id = 4 -> "left_arrow"  [] id = 5 -> "down_swipe"
       [] id = 6 -> "up_swipe"     [] id = 7 -> "right_swipe" [] id = 8 -> "left_swipe"
       [] id = 9 -> "letter_m"     [] id = 10 -> "letter_o"   [] id = 11 -> "letter_w"]

getSupportedGestures == DOMAIN kGestureInfoMap
Nodes == {kGestureInfoMap[id] : id \in getSupportedGestures} \union {Tap}

VARIABLES
  nodes,               \* what the driver has
  \* History.
  answered,            \* the last value whose request was answered with success
  refused              \* of those, the nodes that refused it when it was flushed

vars == <<nodes, answered, refused>>

Init ==
  /\ nodes = [n \in Nodes |-> FALSE]
  /\ answered = [n \in Nodes |-> FALSE] /\ refused = {}

-----------------------------------------------------------------------------
Written(n, enabled) ==
  /\ nodes' = [nodes EXCEPT ![n] = enabled] /\ refused' = refused \ {n}
Answer(n, enabled) == answered' = [answered EXCEPT ![n] = enabled]
Fails == UNCHANGED vars

\* The value is in the buffer of the stream when fail() is asked, so that only an
\* open that failed shows; it is written when the stream is closed.
GestureFails_Unseen(n, enabled) ==    \* mutant: fail() is not asked
  Answer(n, enabled) /\ UNCHANGED <<nodes, refused>>
GestureFails(n, enabled) == Fails

setGestureEnabled(id, enabled) ==
  IF id \notin getSupportedGestures THEN Fails
  ELSE LET n == kGestureInfoMap[id]
       IN  \/ GestureFails(n, enabled)
           \/ Answer(n, enabled) /\ Written(n, enabled)
           \/ /\ Answer(n, enabled) /\ refused' = refused \union {n}
              /\ UNCHANGED nodes

\* The power HAL writes without a buffer.
setDeviceSpecificMode(enabled) ==
  \/ Fails
  \/ Answer(Tap, enabled) /\ Written(Tap, enabled)

Next == \E enabled \in BOOLEAN :
          \/ \E id \in Requests : setGestureEnabled(id, enabled)
          \/ setDeviceSpecificMode(enabled)

Spec == Init /\ [][Next]_vars

-----------------------------------------------------------------------------
\* After every request the driver has, for each gesture and the double tap, what
\* the last successful answer for it said: no request touches the node of another.
\* The one exception is a gesture whose node refused the value at the close of the
\* stream, after fail() was asked (TouchscreenGesture.cpp:50-53).
TouchAnswersHold ==
  \A n \in Nodes \ refused : nodes[n] = answered[n]
=============================================================================
