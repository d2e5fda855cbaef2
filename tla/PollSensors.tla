----------------------------- MODULE PollSensors -----------------------------
(***************************************************************************)
(* The two sensors that are poll devices, each with threads of its own.    *)
(***************************************************************************)
EXTENDS Naturals

CONSTANTS MaxEvents

VARIABLES press, pending, atEnd, ppc, apc,
          dev, event, vpc, handles, lost, handed

Udfps   == INSTANCE UdfpsSensor
Virtual == INSTANCE VirtualSensors

udfpsVars   == <<press, pending, atEnd, ppc, apc>>
virtualVars == <<dev, event, vpc, handles, lost, handed>>
sensorsVars == <<udfpsVars, virtualVars>>

SensorsInit == Udfps!Init /\ Virtual!Init
SensorsNext ==
  \/ Udfps!Next /\ UNCHANGED virtualVars
  \/ Virtual!Next /\ UNCHANGED udfpsVars

FairSpec == SensorsInit /\ [][SensorsNext]_sensorsVars /\ Udfps!Fairness

\* See UdfpsSensor and VirtualSensors.
PressSeen == Udfps!PressSeen
\* activate returns once the fingerprint node is quiet.
ActivateReturns == Udfps!ActivateReturns
\* Pickups come once and in order.
PickupsInOrder == Virtual!PickupsInOrder
=============================================================================
