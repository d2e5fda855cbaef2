----------------------------- MODULE RealmeParts -----------------------------
(***************************************************************************)
(* The RealmeParts app: the mode switches and the speaker cleaner. They    *)
(* share a process and its main thread, but no state, and each can lose    *)
(* the process at any step: a behaviour looks at one while the other rests. *)
(***************************************************************************)
EXTENDS ModeSwitches, ClearSpeaker

VARIABLE part          \* "switches" or "speaker"

partsVars == <<part, vars, speakerVars>>

PartsInit == part \in {"switches", "speaker"} /\ Init /\ SpeakerInit

PartsNext ==
  /\ UNCHANGED part
  /\ \/ part = "switches" /\ Next /\ UNCHANGED speakerVars
     \/ part = "speaker" /\ SpeakerNext /\ UNCHANGED vars

\* The looper runs the timer of a fragment, if the process lives that long.
PartsSpec ==
  /\ PartsInit /\ [][PartsNext]_partsVars
  /\ \A f \in Fragments : WF_speakerVars(TimesOut(f))
=============================================================================
