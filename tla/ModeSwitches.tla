---------------------------- MODULE ModeSwitches ----------------------------
(***************************************************************************)
(* The display and OTG modes of RealmeParts (apps/RealmeParts): each mode  *)
(* is a node of the kernel, a switch on the settings screen, a tile, and a *)
(* preference that Startup writes back to the node after a boot. The       *)
(* forced refresh rate is one more: its node is SurfaceFlinger, it has no  *)
(* tile and is on until it is switched off.                                *)
(*                                                                         *)
(* All handlers run on the main thread of one process, one at a time. The  *)
(* process can be killed, also inside a handler, and the device can lose   *)
(* its power: preferences that were applied but not written are lost then. *)
(***************************************************************************)
CONSTANTS
  SWITCH_CONFIGS,      \* the modes that Startup restores, each to its node
  Rate,                \* refresh_rate_90Forced
  Supported,           \* those whose node is writable
  Committed,           \* those whose tile commits the preference
  Default              \* the nodes after a boot

Modes == SWITCH_CONFIGS \union {Rate}

ASSUME ModeAssumption ==
  /\ Supported \subseteq Modes /\ Committed \subseteq Modes
  /\ Default \in [Modes -> BOOLEAN]
  /\ \A m \in Modes \ Supported : ~Default[m]
  /\ Rate \notin SWITCH_CONFIGS /\ Rate \in Supported /\ ~Default[Rate]

\* Those with a node that Startup and the switches write.
Restored == SWITCH_CONFIGS \intersect Supported

VARIABLES
  node,                \* is "1" in the node; one that is missing reads as "0"
  memory, disk,        \* the preferences, as the process sees them and written
  startup,             \* of this boot: "due", "done" or "died" half-way
  open, checked,       \* the settings screen, its switches
  \* History.
  choice,              \* what the user last chose
  stale,               \* the node was written since by another than the switch,
                       \* or refused what the switch wrote
  fault,               \* the choice was forgotten
  refused              \* the node did not take what was last written to it

files  == <<node, memory, disk>>
screen == <<open, checked, stale>>
vars == <<files, startup, screen, choice, fault, refused>>

\* What a preference that was never stored counts as.
Unset == [m \in Modes |-> m = Rate]

TypeOK ==
  /\ node \in [Modes -> BOOLEAN] /\ \A m \in Modes \ Supported : ~node[m]
  /\ memory \in [Modes -> BOOLEAN] /\ disk \in [Modes -> BOOLEAN]
  /\ startup \in {"due", "done", "died"} /\ open \in BOOLEAN
  /\ checked \in [Modes -> BOOLEAN] /\ stale \subseteq Modes
  /\ choice \in [Modes -> BOOLEAN] /\ fault \subseteq Modes /\ refused \subseteq Modes

Init ==
  /\ node = Default /\ memory = Unset /\ disk = Unset /\ startup = "due"
  /\ open = FALSE /\ checked = Unset /\ stale = {}
  /\ choice = Unset /\ fault = {} /\ refused = {}

-----------------------------------------------------------------------------
\* The nodes after a write. getFile is null for an unsupported mode, and
\* writeValue(null, _) does nothing; a node that can be written is in a directory
\* that exists. An IOException is logged, and the caller goes on as if nothing had
\* happened: the node did not take the value.
writeValue(m, value, taken) ==
  IF m \in Supported /\ taken THEN [node EXCEPT ![m] = value] ELSE node

\* The same for SurfaceFlinger, and a RemoteException.
setForcedRefreshRate(nodes, value, taken) ==
  IF taken THEN [nodes EXCEPT ![Rate] = value] ELSE nodes

\* A value that the node had anyway is as good as taken.
Refused(ms, values) == {m \in ms : node'[m] # values[m]}

\* apply; the whole map is written some time later.
Apply(m, value) == memory' = [memory EXCEPT ![m] = value] /\ UNCHANGED disk
\* commit.
Commit(m, value) == memory' = [memory EXCEPT ![m] = value] /\ disk' = memory'

WriteOut ==
  /\ memory # disk /\ disk' = memory
  /\ UNCHANGED <<node, memory, startup, screen, choice, fault, refused>>

\* The settings screen is created: each switch is set to its node, and a switch
\* that is set persists what it is set to. That of the rate is set to its
\* preference, which is in force once Startup has run.
OpenScreen_NoRead ==    \* mutant: the switches show the preferences
  /\ ~open /\ open' = TRUE /\ checked' = memory /\ stale' = {}
  /\ UNCHANGED <<files, startup, choice, fault, refused>>
OpenScreen ==
  /\ ~open /\ open' = TRUE
  /\ memory' = [m \in Modes |-> IF m = Rate THEN memory[m] ELSE node[m]]
  /\ checked' = memory'
  /\ stale' = IF startup = "done" /\ Rate \notin fault \union refused
              THEN {} ELSE {Rate}
  /\ fault' = fault \union {m \in SWITCH_CONFIGS : node[m] # memory[m]}
  /\ UNCHANGED <<node, disk, startup, choice, refused>>

ScreenGone  == open' = FALSE /\ checked' = Unset /\ stale' = {}
CloseScreen ==
  /\ open /\ ScreenGone
  /\ UNCHANGED <<files, startup, choice, fault, refused>>

\* onPreferenceChange, then the switch persists the new value, also one that the
\* node refused. The switch of an unsupported mode is disabled.
Toggle(m) ==
  LET value == ~checked[m]
  IN  /\ open /\ Apply(m, value)
      /\ checked' = [checked EXCEPT ![m] = value]
      /\ stale' = (stale \ {m}) \union Refused({m}, checked')
      /\ choice' = [choice EXCEPT ![m] = value] /\ fault' = fault \ {m}
      /\ refused' = (refused \ {m}) \union Refused({m}, choice')
      /\ UNCHANGED <<startup, open>>
Switch(m, taken) ==
  /\ m \in Restored /\ node' = writeValue(m, ~checked[m], taken)
  /\ Toggle(m)
SwitchRate(taken) ==
  node' = setForcedRefreshRate(node, ~checked[Rate], taken) /\ Toggle(Rate)

\* The open screen does not see who else writes the nodes.
Touched(ms) == IF open THEN stale \union ms ELSE stale

\* onClick of the tile. It shows the new value and stores it in any case.
ClickTile_NoStore(m, taken) ==    \* mutant: the preference is not stored
  /\ m # Rate /\ node' = writeValue(m, ~node[m], taken) /\ UNCHANGED <<memory, disk>>
  /\ stale' = Touched({m})
  /\ choice' = [choice EXCEPT ![m] = ~node[m]] /\ fault' = fault \ {m}
  /\ refused' = (refused \ {m}) \union Refused({m}, choice')
  /\ UNCHANGED <<startup, open, checked>>
ClickTile(m, taken) ==
  LET value == ~node[m]
  IN  /\ m # Rate /\ node' = writeValue(m, value, taken)
      /\ IF m \in Committed THEN Commit(m, value) ELSE Apply(m, value)
      /\ stale' = Touched({m})
      /\ choice' = [choice EXCEPT ![m] = value] /\ fault' = fault \ {m}
      /\ refused' = (refused \ {m}) \union Refused({m}, choice')
      /\ UNCHANGED <<startup, open, checked>>

\* Startup has written the preferences to the nodes that took them.
restoreSwitches(taken) ==
  [m \in Modes |-> IF m \in Restored \intersect taken THEN memory[m] ELSE node[m]]

\* The rate is forced, or left alone.
handleRefreshRate(nodes, taken) ==
  IF memory[Rate] THEN setForcedRefreshRate(nodes, TRUE, Rate \in taken) ELSE nodes

Startup(taken) ==
  LET written == Restored \union (IF memory[Rate] THEN {Rate} ELSE {})
  IN  /\ startup = "due" /\ startup' = "done"
      /\ node' = handleRefreshRate(restoreSwitches(taken), taken)
      /\ refused' = (refused \ written) \union Refused(written, memory)
      /\ stale' = Touched(Modes)
      /\ UNCHANGED <<memory, disk, open, checked, choice, fault>>

-----------------------------------------------------------------------------
(***************************************************************************)
(* Outside.                                                                *)
(***************************************************************************)
\* Preferences that were not written yet are lost with the process.
Unwritten == {m \in Modes : memory[m] # disk[m]}
ProcessEnds ==
  /\ memory' = disk /\ UNCHANGED disk /\ ScreenGone

Kill ==
  /\ ProcessEnds
  /\ fault' = fault \union Unwritten
  /\ UNCHANGED <<node, startup, choice, refused>>

\* In a tile or a switch, between the node and the preference; or in Startup,
\* which is not run again before the next boot.
KillInside(m, value) ==
  /\ \/ m # Rate /\ value = ~node[m]
     \/ open /\ m \in Supported /\ value = ~checked[m]
  /\ ProcessEnds
  /\ \E taken \in BOOLEAN :
       node' = IF m = Rate THEN setForcedRefreshRate(node, value, taken)
                           ELSE writeValue(m, value, taken)
  /\ choice' = [choice EXCEPT ![m] = value]
  /\ fault' = fault \union {m} \union Unwritten
  /\ UNCHANGED <<startup, refused>>
KillInStartup(taken) ==
  /\ startup = "due" /\ startup' = "died" /\ ProcessEnds
  /\ node' = restoreSwitches(taken)
  /\ fault' = fault \union Unwritten
  /\ UNCHANGED <<choice, refused>>

\* After it no node has refused anything yet.
Reboot ==
  /\ ProcessEnds
  /\ node' = Default /\ startup' = "due" /\ refused' = {}
  /\ fault' = fault \union Unwritten
  /\ UNCHANGED choice

Next ==
  \/ WriteOut \/ OpenScreen \/ CloseScreen \/ Kill \/ Reboot
  \/ \E m \in Modes, taken \in BOOLEAN : Switch(m, taken) \/ ClickTile(m, taken)
  \/ \E taken \in BOOLEAN : SwitchRate(taken)
  \/ \E m \in Modes, value \in BOOLEAN : KillInside(m, value)
  \/ \E taken \in SUBSET Supported : Startup(taken)
  \/ \E taken \in SUBSET Restored : KillInStartup(taken)

Spec == Init /\ [][Next]_vars

-----------------------------------------------------------------------------
\* Once Startup has run, every node holds what the user chose last, by switch or
\* by tile, in this boot or in an earlier one; never chosen is off, and the rate
\* is forced. Not so while the last write to the node was refused, which nobody
\* notices (Utils.java:61-63). The choice itself is forgotten only if the process
\* or the power went before the preference was written, or if the settings screen
\* was opened while the node did not hold it, between a boot and Startup or after
\* a refusal: the switches then show what the node holds and store it over the
\* choice (DeviceSettings.java:82, Startup.java:34-41).
RestoredIsChosen ==
  startup = "done" => \A m \in Supported \ (fault \union refused) : node[m] = choice[m]

\* The switches on the open screen show their nodes, unless a tile or Startup
\* wrote the node while it was open, as it is not read again, or the node refused
\* the switch (DCModeSwitch.java:35-36). The rate's shows what SurfaceFlinger was
\* told, unless the screen is opened before Startup has run or after a refusal.
SwitchesShowNodes ==
  open => \A m \in Modes \ stale : checked[m] = node[m]
=============================================================================
