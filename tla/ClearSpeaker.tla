---------------------------- MODULE ClearSpeaker ----------------------------
(***************************************************************************)
(* ClearSpeakerFragment (apps/RealmeParts, speaker): a loud sound is       *)
(* played for 30 s, or until the screen is left, with the audio HAL's      *)
(* parameter status_earpiece_clean on.                                     *)
(*                                                                         *)
(* Everything runs on the main thread. A fragment that has been left stays *)
(* in memory as long as its timer is posted; the parameter outlives the    *)
(* process.                                                                *)
(***************************************************************************)
CONSTANT Fragments     \* room for fragments in memory

VARIABLES
  shown,               \* the fragment on the screen, if any
  stopping,            \* those left whose onStop is to come
  player,              \* mMediaPlayer: "none", "playing", or "broken": not prepared
  enabled,             \* the switch can be toggled
  timer,               \* the runnable is posted
  clean,               \* status_earpiece_clean
  \* History.
  cut,                 \* plays to which another fragment turned the parameter off
  killed               \* the process ended with the parameter on, as it still is

fragmentVars == <<player, enabled, timer, cut>>
speakerVars == <<shown, stopping, fragmentVars, clean, killed>>

SpeakerTypeOK ==
  /\ shown \subseteq Fragments /\ stopping \subseteq Fragments \ shown
  /\ \A f, g \in shown : f = g
  /\ player \in [Fragments -> {"none", "playing", "broken"}]
  /\ enabled \in [Fragments -> BOOLEAN] /\ timer \in [Fragments -> BOOLEAN]
  /\ \A f \in Fragments : player[f] = "playing" => ~enabled[f]
  /\ clean \in BOOLEAN /\ cut \subseteq Fragments /\ killed \in BOOLEAN

SpeakerInit ==
  /\ shown = {} /\ stopping = {}
  /\ player = [f \in Fragments |-> "none"]
  /\ enabled = [f \in Fragments |-> TRUE]
  /\ timer = [f \in Fragments |-> FALSE]
  /\ clean = FALSE /\ cut = {} /\ killed = FALSE

Playing == {f \in Fragments : player[f] = "playing"}

-----------------------------------------------------------------------------
\* A player that is not playing is kept.
stopPlaying_IfPlaying(f) ==    \* mutant: the parameter only goes with a player
  /\ player' = [player EXCEPT ![f] = IF @ = "playing" THEN "none" ELSE @]
  /\ clean' = (clean /\ player[f] # "playing")
  /\ enabled' = [enabled EXCEPT ![f] = TRUE]
  /\ cut' = (cut \union Playing) \ {f} /\ killed' = FALSE
stopPlaying(f) ==
  /\ player' = [player EXCEPT ![f] = IF @ = "playing" THEN "none" ELSE @]
  /\ clean' = FALSE
  /\ enabled' = [enabled EXCEPT ![f] = TRUE]
  /\ cut' = (cut \union Playing) \ {f} /\ killed' = FALSE

\* A new fragment, or one that comes back; then its onStop may yet be averted.
Enter(f) ==
  /\ shown = {} /\ shown' = {f} /\ stopping' = stopping \ {f}
  /\ UNCHANGED <<fragmentVars, clean, killed>>
EnterNew(f) ==
  /\ shown = {} /\ shown' = {f} /\ f \notin stopping /\ ~timer[f]
  /\ player' = [player EXCEPT ![f] = "none"]
  /\ enabled' = [enabled EXCEPT ![f] = TRUE]
  /\ UNCHANGED <<stopping, timer, clean, cut, killed>>

Leave ==
  /\ shown # {} /\ shown' = {} /\ stopping' = stopping \union shown
  /\ UNCHANGED <<fragmentVars, clean, killed>>

\* onStop comes late when another activity takes over.
OnStop(f) ==
  /\ f \in stopping /\ stopping' = stopping \ {f} /\ stopPlaying(f)
  /\ UNCHANGED <<shown, timer>>

\* onPreferenceChange(true); a switch that was refused stays off.
SwitchOn_NoParameter(f) ==    \* mutant: the parameter is not set
  /\ f \in shown /\ enabled[f]
  /\ UNCHANGED clean /\ killed' = FALSE
SwitchOn(f) ==
  /\ f \in shown /\ enabled[f]
  /\ clean' = TRUE /\ killed' = FALSE

RemoveAndPost_Swapped(f) == timer' = [timer EXCEPT ![f] = FALSE]    \* mutant
RemoveAndPost(f) == timer' = [timer EXCEPT ![f] = TRUE]

StartPlaying(f) ==
  /\ SwitchOn(f) /\ RemoveAndPost(f)
  /\ player' = [player EXCEPT ![f] = "playing"]
  /\ enabled' = [enabled EXCEPT ![f] = FALSE]
  /\ cut' = cut \ {f}
  /\ UNCHANGED <<shown, stopping>>

\* An IOException, from setDataSource or, with the switch disabled, from prepare.
StartFails(f, prepared) ==
  /\ SwitchOn(f)
  /\ player' = [player EXCEPT ![f] = "broken"]
  /\ enabled' = [enabled EXCEPT ![f] = ~prepared]
  /\ UNCHANGED <<shown, stopping, timer, cut>>

TimesOut(f) ==
  /\ timer[f] /\ timer' = [timer EXCEPT ![f] = FALSE] /\ stopPlaying(f)
  /\ UNCHANGED <<shown, stopping>>

KillSpeaker ==
  /\ shown' = {} /\ stopping' = {}
  /\ player' = [f \in Fragments |-> "none"]
  /\ enabled' = [f \in Fragments |-> TRUE]
  /\ timer' = [f \in Fragments |-> FALSE]
  /\ cut' = {} /\ killed' = clean /\ UNCHANGED clean

SpeakerNext ==
  \/ Leave \/ KillSpeaker
  \/ \E f \in Fragments :
        \/ Enter(f) \/ EnterNew(f) \/ OnStop(f) \/ StartPlaying(f) \/ TimesOut(f)
        \/ \E prepared \in BOOLEAN : StartFails(f, prepared)

SpeakerSpec == SpeakerInit /\ [][SpeakerNext]_speakerVars

-----------------------------------------------------------------------------
\* What plays, plays with the parameter on, unless another fragment turned it
\* off meanwhile: nothing cancels the timer when the screen is left, and onStop
\* may come when the next fragment plays already (58-60, 69-72).
PlayingIsCleaning ==
  \A f \in Playing \ cut : clean

\* Away from the screen nothing plays and the parameter is off, also after a
\* start that failed with the parameter on (75, 91-94); it stays on only if the
\* process ended.
QuietWhenAway ==
  shown = {} /\ stopping = {} => Playing = {} /\ (clean => killed)

\* The runnable that ends a sound is posted as long as the sound plays: a screen
\* left and entered again, a second fragment or a start that fails takes it away
\* from no fragment that still plays (57-60, 69-72).
EveryPlayHasItsTimer == \A f \in Playing : timer[f]

\* No sound is played for ever: each successful start posts the runnable that
\* ends it, and the one it removes before is not its own (57-60).
EveryPlayEnds ==
  \A f \in Fragments : []<>(player[f] # "playing")
=============================================================================
