----------------------------- MODULE DeviceHals -----------------------------
(***************************************************************************)
(* The small vendor parts: property overrides, lights, touch nodes. They   *)
(* share no state, so each behaviour looks at one of them while the others *)
(* rest.                                                                   *)
(***************************************************************************)
EXTENDS Integers

CONSTANTS Colors, Properties, MaxNodes, Requests, BuiltSets, OperatorCodes, RamSizes

VARIABLES focus, brightness, maxBrightness, shown, nodes, answered, refused,
          built, props, todo

Lights == INSTANCE Lights
Touch  == INSTANCE TouchNodes
Boot   == INSTANCE VendorInit

lightsVars == <<brightness, maxBrightness, shown>>
touchVars  == <<nodes, answered, refused>>
bootVars   == <<built, props, todo>>

\* The four bytes of a colour; a property and a node are read as int.
ASSUME LightsAssumption ==
  /\ Colors \subseteq [alpha : 0..255, red : 0..255, green : 0..255, blue : 0..255]
  /\ Properties \subseteq Int /\ MaxNodes \subseteq Int

\* The partitions come with properties of the identity that init knows of.
ASSUME BootAssumption == \A names \in BuiltSets : names \subseteq Boot!IdentityProperties

Init == /\ focus \in {"lights", "touch", "boot"}
        /\ Lights!Init /\ Touch!Init
        /\ IF focus = "boot" THEN Boot!Init
           ELSE built = {} /\ props = Boot!Stock({}) /\ todo = << >>
Next ==
  /\ UNCHANGED focus
  /\ \/ focus = "lights" /\ Lights!Next /\ UNCHANGED <<touchVars, bootVars>>
     \/ focus = "touch" /\ Touch!Next /\ UNCHANGED <<lightsVars, bootVars>>
     \/ focus = "boot" /\ Boot!Next /\ UNCHANGED <<lightsVars, touchVars>>

Spec == Init /\ [][Next]_<<focus, lightsVars, touchVars, bootVars>>

\* More light asked for is never less light shown.
NeverDarker == Lights!NeverDarker
\* What is written to the panel is in its range.
InPanelRange == Lights!InPanelRange
\* An answer of success is true of the touch panel's driver.
TouchAnswersHold == Touch!TouchAnswersHold
\* The properties name one device.
OneIdentity == Boot!OneIdentity
=============================================================================
