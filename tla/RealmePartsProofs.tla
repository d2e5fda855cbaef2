-------------------------- MODULE RealmePartsProofs --------------------------
(***************************************************************************)
(* Proofs of the invariants of RealmeParts: those of the speaker cleaner   *)
(* for any number of fragments, those of the mode switches for any modes   *)
(* and defaults, and that the composition keeps both.                      *)
(***************************************************************************)
EXTENDS RealmeParts, TLAPS

-----------------------------------------------------------------------------
(***************************************************************************)
(* The speaker cleaner.                                                    *)
(***************************************************************************)

\* Only the fragment on the screen, or one whose onStop is to come, plays or can
\* have left the parameter on.
Attended ==
  /\ Playing \subseteq stopping \union shown
  /\ clean /\ ~killed => shown # {} \/ stopping # {}

SpeakerIInv == SpeakerTypeOK /\ PlayingIsCleaning /\ Attended

-----------------------------------------------------------------------------
\* The initial state satisfies the invariant: nothing plays.
LEMMA InitSpeaker == SpeakerInit => SpeakerIInv
BY DEF SpeakerInit, SpeakerIInv, SpeakerTypeOK, PlayingIsCleaning, Attended, Playing

\* stopPlaying (98-110) keeps the types and leaves nothing of f playing: all
\* others that play are noted as cut.
LEMMA StopEffect ==
  ASSUME SpeakerTypeOK, NEW f \in Fragments, stopPlaying(f)
  PROVE  /\ player' \in [Fragments -> {"none", "playing", "broken"}]
         /\ enabled' \in [Fragments -> BOOLEAN] /\ cut' \subseteq Fragments
         /\ clean' = FALSE /\ killed' = FALSE
         /\ Playing' = Playing \ {f} /\ Playing' \subseteq cut'
         /\ \A g \in Fragments : player'[g] = "playing" => ~enabled'[g]
BY DEF SpeakerTypeOK, stopPlaying, Playing

\* Every step preserves the invariant; the proof has a step per action.
LEMMA SpeakerStep == SpeakerIInv /\ [SpeakerNext]_speakerVars => SpeakerIInv'
<1> SUFFICES ASSUME SpeakerIInv, [SpeakerNext]_speakerVars PROVE SpeakerIInv'
  OBVIOUS
<1> USE DEF SpeakerIInv
<1>1. CASE Leave
  BY <1>1 DEF Leave, fragmentVars, SpeakerTypeOK, PlayingIsCleaning, Attended, Playing
<1>2. ASSUME NEW f \in Fragments, StartPlaying(f) PROVE SpeakerIInv'
  BY <1>2 DEF StartPlaying, SwitchOn, RemoveAndPost, SpeakerTypeOK,
    PlayingIsCleaning, Attended, Playing
<1>3. CASE KillSpeaker
  BY <1>3 DEF KillSpeaker, SpeakerTypeOK, PlayingIsCleaning, Attended, Playing
<1>4. ASSUME NEW f \in Fragments, NEW prepared \in BOOLEAN, StartFails(f, prepared) PROVE SpeakerIInv'
  BY <1>4 DEF StartFails, SwitchOn, SpeakerTypeOK, PlayingIsCleaning,
    Attended, Playing
<1>5. ASSUME NEW f \in Fragments, Enter(f) PROVE SpeakerIInv'
  BY <1>5 DEF Enter, fragmentVars, SpeakerTypeOK, PlayingIsCleaning,
    Attended, Playing
<1>6. ASSUME NEW f \in Fragments, EnterNew(f) PROVE SpeakerIInv'
  BY <1>6 DEF EnterNew, SpeakerTypeOK, PlayingIsCleaning, Attended, Playing
<1>7. ASSUME NEW f \in Fragments, OnStop(f) PROVE SpeakerIInv'
  <2>1. stopPlaying(f) /\ UNCHANGED <<shown, timer>> /\ stopping' = stopping \ {f}
    BY <1>7 DEF OnStop
  <2> QED
    BY <2>1, StopEffect DEF SpeakerTypeOK, PlayingIsCleaning, Attended
<1>8. ASSUME NEW f \in Fragments, TimesOut(f) PROVE SpeakerIInv'
  <2>1. /\ stopPlaying(f) /\ UNCHANGED <<shown, stopping>>
        /\ timer' = [timer EXCEPT ![f] = FALSE]
    BY <1>8 DEF TimesOut
  <2> QED
    BY <2>1, StopEffect DEF SpeakerTypeOK, PlayingIsCleaning, Attended
<1>9. CASE UNCHANGED speakerVars
  BY <1>9 DEF speakerVars, fragmentVars, SpeakerTypeOK, PlayingIsCleaning, Attended, Playing
<1> QED
  BY <1>1, <1>2, <1>3, <1>4, <1>5, <1>6, <1>7, <1>8, <1>9 DEF SpeakerNext

-----------------------------------------------------------------------------
\* The inductive invariant holds of every reachable state.
THEOREM SpeakerInvariant == SpeakerSpec => []SpeakerIInv
BY InitSpeaker, SpeakerStep, PTL DEF SpeakerSpec

\* What plays, plays with the parameter on, unless a late timer or onStop of
\* another fragment cut in (cut): the one parameter is then switched off under the
\* player that is still playing (ClearSpeakerFragment.java:98-110).
THEOREM PlaysAreClean == SpeakerSpec => []PlayingIsCleaning
<1>1. SpeakerIInv => PlayingIsCleaning
  BY DEF SpeakerIInv
<1> QED
  BY <1>1, SpeakerInvariant, PTL

\* Away from the screen nothing plays and the parameter is off.
THEOREM AwayIsQuiet == SpeakerSpec => []QuietWhenAway
<1>1. SpeakerIInv => QuietWhenAway
  BY DEF SpeakerIInv, SpeakerTypeOK, Attended, QuietWhenAway, Playing
<1> QED
  BY <1>1, SpeakerInvariant, PTL

\* Every step keeps the runnable of what plays: it goes only as it runs.
LEMMA TimerStep ==
  SpeakerTypeOK /\ EveryPlayHasItsTimer /\ [SpeakerNext]_speakerVars
    => EveryPlayHasItsTimer'
<1> SUFFICES ASSUME SpeakerTypeOK, EveryPlayHasItsTimer,
                    [SpeakerNext]_speakerVars
             PROVE  EveryPlayHasItsTimer'
  OBVIOUS
<1> USE DEF SpeakerTypeOK, EveryPlayHasItsTimer, Playing
<1>1. CASE Leave \/ KillSpeaker \/ UNCHANGED speakerVars
  BY <1>1 DEF Leave, KillSpeaker, speakerVars, fragmentVars
<1>2. ASSUME NEW f \in Fragments,
             Enter(f) \/ EnterNew(f) \/ StartPlaying(f)
               \/ \E prepared \in BOOLEAN : StartFails(f, prepared)
      PROVE  EveryPlayHasItsTimer'
  BY <1>2 DEF Enter, EnterNew, StartPlaying, StartFails, RemoveAndPost, fragmentVars
<1>3. ASSUME NEW f \in Fragments, OnStop(f) \/ TimesOut(f)
      PROVE  EveryPlayHasItsTimer'
  <2>1. Playing' = Playing \ {f} /\ \A g \in Fragments \ {f} : timer'[g] = timer[g]
    BY <1>3, StopEffect DEF OnStop, TimesOut
  <2> QED BY <2>1
<1> QED BY <1>1, <1>2, <1>3 DEF SpeakerNext

\* Whatever plays has its end posted: the safety half of EveryPlayEnds.
THEOREM PlaysHaveTimers == SpeakerSpec => []EveryPlayHasItsTimer
<1>1. SpeakerInit => EveryPlayHasItsTimer
  BY DEF SpeakerInit, EveryPlayHasItsTimer, Playing
<1>2. SpeakerIInv => SpeakerTypeOK
  BY DEF SpeakerIInv
<1> QED
  BY <1>1, <1>2, TimerStep, SpeakerInvariant, PTL DEF SpeakerSpec

-----------------------------------------------------------------------------
(***************************************************************************)
(* The mode switches.                                                      *)
(***************************************************************************)

\* The preferences the process sees are the user's choices, but for the forgotten
\* ones. It is this that Startup relies on.
RememberedIsChosen == \A m \in Modes \ fault : memory[m] = choice[m]

\* Before Startup the rate is forced only by its switch, which stores it; a switch
\* back that SurfaceFlinger refused is known as such.
RateIsRemembered ==
  startup = "due" /\ Rate \notin fault \union refused /\ node[Rate] => memory[Rate]

SwitchesIInv == TypeOK /\ RateIsRemembered /\ RememberedIsChosen /\ RestoredIsChosen /\ SwitchesShowNodes

-----------------------------------------------------------------------------
\* After a boot nothing has been chosen, and nothing is restored.
LEMMA InitSwitches == Init => SwitchesIInv
<1> SUFFICES ASSUME Init PROVE SwitchesIInv
  OBVIOUS
<1>1. Unset \in [Modes -> BOOLEAN]
  BY DEF Unset
<1>2. TypeOK
  BY <1>1, ModeAssumption DEF Init, TypeOK
<1>3. RateIsRemembered
  BY ModeAssumption DEF Init, RateIsRemembered
<1>4. RememberedIsChosen /\ RestoredIsChosen /\ SwitchesShowNodes
  BY DEF Init, RememberedIsChosen, RestoredIsChosen, SwitchesShowNodes
<1> QED
  BY <1>2, <1>3, <1>4 DEF SwitchesIInv

\* writeValue (43-64) and setForcedRefreshRate (30-52) touch one node, if it is
\* there.
LEMMA WriteEffect ==
  ASSUME TypeOK, NEW m \in Modes, NEW value \in BOOLEAN, NEW taken \in BOOLEAN,
         \/ node' = writeValue(m, value, taken)
         \/ m = Rate /\ node' = setForcedRefreshRate(node, value, taken)
  PROVE  /\ node' \in [Modes -> BOOLEAN] /\ \A k \in Modes \ Supported : ~node'[k]
         /\ \A k \in Modes \ {m} : node'[k] = node[k]
<1>1. Rate \in Supported
  BY ModeAssumption
<1> QED
  BY <1>1 DEF TypeOK, writeValue, setForcedRefreshRate

\* restoreSwitches (34-41) keeps the type and leaves the rate alone.
LEMMA RestoreEffect ==
  ASSUME TypeOK, NEW taken \in SUBSET Supported
  PROVE  /\ restoreSwitches(taken) \in [Modes -> BOOLEAN]
         /\ \A m \in Modes \ Supported : ~restoreSwitches(taken)[m]
         /\ restoreSwitches(taken)[Rate] = node[Rate]
<1>1. Rate \in Modes /\ Rate \notin Restored
  BY ModeAssumption DEF Modes, Restored
<1> QED
  BY <1>1 DEF TypeOK, restoreSwitches, Restored

\* A switch or a tile: the preference is stored whether the node took the value
\* or not, and a node that did not is noted.
LEMMA ChooseEffect ==
  ASSUME SwitchesIInv, NEW m \in Modes, NEW value \in BOOLEAN,
         node' \in [Modes -> BOOLEAN], \A k \in Modes \ Supported : ~node'[k],
         \A k \in Modes \ {m} : node'[k] = node[k],
         memory' = [memory EXCEPT ![m] = value], disk' \in {disk, memory'},
         choice' = [choice EXCEPT ![m] = value], fault' = fault \ {m},
         refused' = (refused \ {m}) \union Refused({m}, choice'),
         UNCHANGED startup
  PROVE  /\ memory' \in [Modes -> BOOLEAN] /\ disk' \in [Modes -> BOOLEAN]
         /\ choice' \in [Modes -> BOOLEAN] /\ refused' \subseteq Modes
         /\ RateIsRemembered' /\ RememberedIsChosen' /\ RestoredIsChosen'
<1>1. memory' \in [Modes -> BOOLEAN] /\ choice' \in [Modes -> BOOLEAN]
  BY DEF SwitchesIInv, TypeOK
<1>2. \A k \in Modes \ {m} : memory'[k] = memory[k] /\ choice'[k] = choice[k]
  BY DEF SwitchesIInv, TypeOK
<1>3. memory'[m] = value /\ choice'[m] = value
  BY DEF SwitchesIInv, TypeOK
<1>4. m \notin refused' => node'[m] = value
  BY <1>3 DEF Refused
<1>5. Supported \subseteq Modes /\ Rate \in Modes
  BY ModeAssumption
<1>6. disk' \in [Modes -> BOOLEAN] /\ refused' \subseteq Modes
  BY <1>1 DEF SwitchesIInv, TypeOK, Refused
<1>7. RateIsRemembered'
  BY <1>2, <1>3, <1>4, <1>5 DEF SwitchesIInv, RateIsRemembered
<1>8. RememberedIsChosen'
  BY <1>2, <1>3 DEF SwitchesIInv, RememberedIsChosen
<1>9. RestoredIsChosen'
  BY <1>2, <1>3, <1>4, <1>5 DEF SwitchesIInv, RestoredIsChosen
<1> QED
  BY <1>1, <1>6, <1>7, <1>8, <1>9

\* A switch shows what it was set to, and one whose node refused it is stale.
LEMMA ToggleStep ==
  ASSUME SwitchesIInv, NEW m \in Modes, Toggle(m),
         node' \in [Modes -> BOOLEAN], \A k \in Modes \ Supported : ~node'[k],
         \A k \in Modes \ {m} : node'[k] = node[k]
  PROVE  SwitchesIInv'
<1> DEFINE value == ~checked[m]
<1>1. /\ open /\ memory' = [memory EXCEPT ![m] = value] /\ UNCHANGED <<disk, startup, open>>
      /\ checked' = [checked EXCEPT ![m] = value]
      /\ stale' = (stale \ {m}) \union Refused({m}, checked')
      /\ choice' = [choice EXCEPT ![m] = value] /\ fault' = fault \ {m}
      /\ refused' = (refused \ {m}) \union Refused({m}, choice')
  BY DEF Toggle, Apply
<1>2. value \in BOOLEAN
  OBVIOUS
<1> HIDE DEF value
<1>3. /\ memory' \in [Modes -> BOOLEAN] /\ disk' \in [Modes -> BOOLEAN]
      /\ choice' \in [Modes -> BOOLEAN] /\ refused' \subseteq Modes
      /\ RateIsRemembered' /\ RememberedIsChosen' /\ RestoredIsChosen'
  BY <1>1, <1>2, ChooseEffect
<1>4. checked' \in [Modes -> BOOLEAN] /\ checked'[m] = value
      /\ \A k \in Modes \ {m} : checked'[k] = checked[k]
  BY <1>1, <1>2 DEF SwitchesIInv, TypeOK
<1>5. TypeOK'
  BY <1>1, <1>3, <1>4 DEF SwitchesIInv, TypeOK, Refused
<1>6. SwitchesShowNodes'
  BY <1>1, <1>4 DEF SwitchesIInv, SwitchesShowNodes, Refused
<1> QED
  BY <1>3, <1>5, <1>6 DEF SwitchesIInv

\* Every step preserves the invariant; the proof has a step per action.
LEMMA SwitchesStep == SwitchesIInv /\ [Next]_vars => SwitchesIInv'
<1> SUFFICES ASSUME SwitchesIInv, [Next]_vars PROVE SwitchesIInv'
  OBVIOUS
<1> USE DEF SwitchesIInv
<1>1. CASE WriteOut
  BY <1>1 DEF WriteOut, screen, TypeOK, RateIsRemembered, RememberedIsChosen,
    RestoredIsChosen, SwitchesShowNodes, Modes
<1>2. CASE OpenScreen
  <2>1. /\ memory' = [m \in Modes |-> IF m = Rate THEN memory[m] ELSE node[m]]
        /\ checked' = memory' /\ open' = TRUE
        /\ stale' = IF startup = "done" /\ Rate \notin fault \union refused
                    THEN {} ELSE {Rate}
        /\ fault' = fault \union {m \in SWITCH_CONFIGS : node[m] # memory[m]}
        /\ UNCHANGED <<node, disk, startup, choice, refused>>
    BY <1>2 DEF OpenScreen
  <2>2. /\ SWITCH_CONFIGS \subseteq Modes /\ Modes = SWITCH_CONFIGS \union {Rate}
        /\ Rate \in Supported
    BY ModeAssumption DEF Modes
  <2>3. memory' \in [Modes -> BOOLEAN]
    BY <2>1 DEF TypeOK
  <2>4. TypeOK'
    BY <2>1, <2>2, <2>3 DEF TypeOK
  <2>5. RateIsRemembered'
    BY <2>1, <2>2 DEF RateIsRemembered
  <2>6. RememberedIsChosen' /\ RestoredIsChosen'
    BY <2>1, <2>2, ModeAssumption DEF RememberedIsChosen, RestoredIsChosen, TypeOK
  <2>7. SwitchesShowNodes'
    BY <2>1, <2>2 DEF SwitchesShowNodes, RestoredIsChosen, RememberedIsChosen, TypeOK
  <2> QED
    BY <2>4, <2>5, <2>6, <2>7
<1>3. CASE CloseScreen
  <2>1. Unset \in [Modes -> BOOLEAN]
    BY DEF Unset
  <2> QED
    BY <1>3, <2>1 DEF CloseScreen, ScreenGone, files, TypeOK, RateIsRemembered,
      RememberedIsChosen, RestoredIsChosen, SwitchesShowNodes
<1>4. ASSUME NEW taken \in SUBSET Supported, Startup(taken) PROVE SwitchesIInv'
  <2> DEFINE restored == restoreSwitches(taken)
             written  == Restored \union (IF memory[Rate] THEN {Rate} ELSE {})
  <2>1. /\ restored \in [Modes -> BOOLEAN] /\ restored[Rate] = node[Rate]
        /\ \A m \in Modes \ Supported : ~restored[m]
    BY RestoreEffect
  <2>2. /\ node' = handleRefreshRate(restored, taken) /\ startup = "due" /\ startup' = "done"
        /\ refused' = (refused \ written) \union Refused(written, memory)
        /\ stale' = Touched(Modes) /\ UNCHANGED <<memory, disk, open, checked, choice, fault>>
    BY <1>4 DEF Startup
  <2> HIDE DEF restored
  <2>3. /\ Rate \in Modes /\ Rate \in Supported /\ Rate \notin Restored
        /\ Supported \subseteq Modes /\ Supported = Restored \union {Rate}
    BY ModeAssumption DEF Modes, Restored
  <2>4. /\ node' \in [Modes -> BOOLEAN] /\ \A m \in Modes \ Supported : ~node'[m]
        /\ ~memory[Rate] => node'[Rate] = node[Rate]
    BY <2>1, <2>2, <2>3 DEF handleRefreshRate, setForcedRefreshRate
  <2>5. TypeOK'
    BY <2>2, <2>3, <2>4 DEF TypeOK, Touched, Refused
  <2>6. \A m \in written : m \notin refused' => node'[m] = memory[m]
    BY <2>2 DEF Refused
  <2>7. ~memory[Rate] /\ Rate \notin fault \union refused' => node'[Rate] = memory[Rate]
    BY <2>2, <2>3, <2>4 DEF RateIsRemembered, TypeOK
  <2>8. RestoredIsChosen'
    BY <2>2, <2>3, <2>6, <2>7 DEF RestoredIsChosen, RememberedIsChosen
  <2>9. RateIsRemembered' /\ RememberedIsChosen' /\ SwitchesShowNodes'
    BY <2>2 DEF RateIsRemembered, RememberedIsChosen, SwitchesShowNodes, Touched
  <2> QED
    BY <2>5, <2>8, <2>9
<1>5. ASSUME ProcessEnds, fault \union Unwritten \subseteq fault', fault' \subseteq Modes
      PROVE  /\ memory' \in [Modes -> BOOLEAN] /\ disk' \in [Modes -> BOOLEAN]
             /\ open' = FALSE /\ checked' \in [Modes -> BOOLEAN] /\ stale' = {}
             /\ \A m \in Modes \ fault' : memory'[m] = memory[m] /\ memory[m] = choice[m]
  <2>1. Unset \in [Modes -> BOOLEAN]
    BY DEF Unset
  <2> QED
    BY <1>5, <2>1 DEF ProcessEnds, ScreenGone, Unwritten, TypeOK, RememberedIsChosen
<1>6. CASE Kill
  <2>1. fault' = fault \union Unwritten /\ UNCHANGED <<node, startup, choice, refused>>
    BY <1>6 DEF Kill
  <2>2. /\ memory' \in [Modes -> BOOLEAN] /\ disk' \in [Modes -> BOOLEAN]
        /\ open' = FALSE /\ checked' \in [Modes -> BOOLEAN] /\ stale' = {}
        /\ fault' \subseteq Modes
        /\ \A m \in Modes \ fault' : memory'[m] = memory[m] /\ memory[m] = choice[m]
    BY <1>5, <1>6, <2>1 DEF Kill, Unwritten, TypeOK
  <2> QED
    BY <2>1, <2>2, ModeAssumption DEF TypeOK, RateIsRemembered, RememberedIsChosen,
      RestoredIsChosen, SwitchesShowNodes
<1>7. CASE Reboot
  <2>1. /\ node' = Default /\ startup' = "due" /\ refused' = {}
        /\ fault' = fault \union Unwritten /\ UNCHANGED choice
    BY <1>7 DEF Reboot
  <2>2. /\ memory' \in [Modes -> BOOLEAN] /\ disk' \in [Modes -> BOOLEAN]
        /\ open' = FALSE /\ checked' \in [Modes -> BOOLEAN] /\ stale' = {}
        /\ fault' \subseteq Modes
        /\ \A m \in Modes \ fault' : memory'[m] = memory[m] /\ memory[m] = choice[m]
    BY <1>5, <1>7, <2>1 DEF Reboot, Unwritten, TypeOK
  <2> QED
    BY <2>1, <2>2, ModeAssumption DEF TypeOK, RateIsRemembered, RememberedIsChosen,
      RestoredIsChosen, SwitchesShowNodes
<1>8. ASSUME NEW m \in Modes, NEW taken \in BOOLEAN, Switch(m, taken) PROVE SwitchesIInv'
  <2>1. Toggle(m) /\ node' = writeValue(m, ~checked[m], taken)
    BY <1>8 DEF Switch
  <2>2. /\ node' \in [Modes -> BOOLEAN] /\ \A k \in Modes \ Supported : ~node'[k]
        /\ \A k \in Modes \ {m} : node'[k] = node[k]
    BY <2>1, WriteEffect
  <2> QED
    BY <2>1, <2>2, ToggleStep
<1>9. ASSUME NEW taken \in BOOLEAN, SwitchRate(taken) PROVE SwitchesIInv'
  <2>1. Toggle(Rate) /\ node' = setForcedRefreshRate(node, ~checked[Rate], taken) /\ Rate \in Modes
    BY <1>9 DEF SwitchRate, Modes
  <2>2. /\ node' \in [Modes -> BOOLEAN] /\ \A k \in Modes \ Supported : ~node'[k]
        /\ \A k \in Modes \ {Rate} : node'[k] = node[k]
    BY <2>1, WriteEffect
  <2> QED
    BY <2>1, <2>2, ToggleStep
<1>10. ASSUME NEW m \in Modes, NEW taken \in BOOLEAN, ClickTile(m, taken)
       PROVE  SwitchesIInv'
  <2>1. /\ node' = writeValue(m, ~node[m], taken)
        /\ memory' = [memory EXCEPT ![m] = ~node[m]] /\ disk' \in {disk, memory'}
        /\ stale' = Touched({m}) /\ UNCHANGED <<startup, open, checked>>
        /\ choice' = [choice EXCEPT ![m] = ~node[m]] /\ fault' = fault \ {m}
        /\ refused' = (refused \ {m}) \union Refused({m}, choice')
    BY <1>10 DEF ClickTile, Apply, Commit
  <2>2. /\ node' \in [Modes -> BOOLEAN] /\ \A k \in Modes \ Supported : ~node'[k]
        /\ \A k \in Modes \ {m} : node'[k] = node[k]
    BY <2>1, WriteEffect
  <2>3. /\ memory' \in [Modes -> BOOLEAN] /\ disk' \in [Modes -> BOOLEAN]
        /\ choice' \in [Modes -> BOOLEAN] /\ refused' \subseteq Modes
        /\ RateIsRemembered' /\ RememberedIsChosen' /\ RestoredIsChosen'
    BY <2>1, <2>2, ChooseEffect
  <2>4. TypeOK'
    BY <2>1, <2>2, <2>3 DEF TypeOK, Touched
  <2>5. SwitchesShowNodes'
    BY <2>1, <2>2 DEF SwitchesShowNodes, Touched
  <2> QED
    BY <2>3, <2>4, <2>5
<1>11. ASSUME NEW m \in Modes, NEW value \in BOOLEAN, KillInside(m, value)
       PROVE  SwitchesIInv'
  <2>1. /\ choice' = [choice EXCEPT ![m] = value] /\ UNCHANGED <<startup, refused>>
        /\ fault' = fault \union {m} \union Unwritten
    BY <1>11 DEF KillInside
  <2>2. /\ node' \in [Modes -> BOOLEAN] /\ \A k \in Modes \ Supported : ~node'[k]
        /\ \A k \in Modes \ {m} : node'[k] = node[k]
    <3>1. PICK taken \in BOOLEAN :
            node' = IF m = Rate THEN setForcedRefreshRate(node, value, taken)
                                ELSE writeValue(m, value, taken)
      BY <1>11 DEF KillInside
    <3> QED
      BY <3>1, WriteEffect
  <2>3. /\ memory' \in [Modes -> BOOLEAN] /\ disk' \in [Modes -> BOOLEAN]
        /\ open' = FALSE /\ checked' \in [Modes -> BOOLEAN] /\ stale' = {}
        /\ fault' \subseteq Modes
        /\ \A k \in Modes \ fault' : memory'[k] = memory[k] /\ memory[k] = choice[k]
    BY <1>5, <1>11, <2>1 DEF KillInside, Unwritten, TypeOK
  <2>4. /\ choice' \in [Modes -> BOOLEAN]
        /\ \A k \in Modes \ fault' : choice'[k] = choice[k]
    BY <2>1 DEF TypeOK
  <2>5. TypeOK'
    BY <2>1, <2>2, <2>3, <2>4 DEF TypeOK
  <2>6. RateIsRemembered'
    BY <2>1, <2>2, <2>3, ModeAssumption DEF RateIsRemembered, Modes
  <2>7. RestoredIsChosen'
    BY <2>1, <2>2, <2>4, ModeAssumption DEF RestoredIsChosen
  <2> QED
    BY <2>3, <2>4, <2>5, <2>6, <2>7 DEF RememberedIsChosen, SwitchesShowNodes
<1>12. ASSUME NEW taken \in SUBSET Restored, KillInStartup(taken) PROVE SwitchesIInv'
  <2>1. /\ startup' = "died" /\ UNCHANGED <<choice, refused>>
        /\ node' = restoreSwitches(taken) /\ fault' = fault \union Unwritten
    BY <1>12 DEF KillInStartup
  <2>2. /\ memory' \in [Modes -> BOOLEAN] /\ disk' \in [Modes -> BOOLEAN]
        /\ open' = FALSE /\ checked' \in [Modes -> BOOLEAN] /\ stale' = {}
        /\ fault' \subseteq Modes
        /\ \A m \in Modes \ fault' : memory'[m] = memory[m] /\ memory[m] = choice[m]
    BY <1>5, <1>12, <2>1 DEF KillInStartup, Unwritten, TypeOK
  <2>3. taken \subseteq Supported
    BY DEF Restored
  <2>4. node' \in [Modes -> BOOLEAN] /\ \A m \in Modes \ Supported : ~node'[m]
    BY <2>1, <2>3, RestoreEffect
  <2> QED
    BY <2>1, <2>2, <2>4 DEF TypeOK, RateIsRemembered, RememberedIsChosen,
      RestoredIsChosen, SwitchesShowNodes
<1>13. CASE UNCHANGED vars
  BY <1>13 DEF vars, files, screen, TypeOK, RateIsRemembered, RememberedIsChosen,
    RestoredIsChosen, SwitchesShowNodes
<1> QED
  BY <1>1, <1>2, <1>3, <1>4, <1>6, <1>7, <1>8, <1>9, <1>10, <1>11, <1>12, <1>13 DEF Next

-----------------------------------------------------------------------------
\* The inductive invariant holds of every reachable state.
THEOREM SwitchesInvariant == Spec => []SwitchesIInv
BY InitSwitches, SwitchesStep, PTL DEF Spec

\* Once Startup has run, every node holds what the user chose last, unless the
\* choice was forgotten (fault) or the node did not take it (refused).
THEOREM ChoicesAreRestored == Spec => []RestoredIsChosen
<1>1. SwitchesIInv => RestoredIsChosen
  BY DEF SwitchesIInv
<1> QED
  BY <1>1, SwitchesInvariant, PTL

\* The switches on the open screen show their nodes, but for the stale ones: those
\* whose node another wrote since, or whose node refused what they show.
THEOREM SwitchesAreTrue == Spec => []SwitchesShowNodes
<1>1. SwitchesIInv => SwitchesShowNodes
  BY DEF SwitchesIInv
<1> QED
  BY <1>1, SwitchesInvariant, PTL

-----------------------------------------------------------------------------
(***************************************************************************)
(* The app.                                                                *)
(***************************************************************************)

\* A step of the app is a step of one part, at which the other one rests: the
\* app does what its parts do.
THEOREM PartsRunAlone == PartsSpec => Spec /\ SpeakerSpec
<1>1. PartsInit => Init /\ SpeakerInit
  BY DEF PartsInit
<1>2. [PartsNext]_partsVars => [Next]_vars /\ [SpeakerNext]_speakerVars
  BY DEF PartsNext, partsVars
<1> QED
  BY <1>1, <1>2, PTL DEF PartsSpec, Spec, SpeakerSpec

\* So what holds of each part holds of the app, as long as it lives and after each
\* time that it is killed.
THEOREM PartsInvariant ==
  PartsSpec => [](RestoredIsChosen /\ SwitchesShowNodes /\ PlayingIsCleaning /\ QuietWhenAway)
BY PartsRunAlone, ChoicesAreRestored, SwitchesAreTrue, PlaysAreClean, AwayIsQuiet, PTL
=============================================================================
