------------------------------ MODULE WakeLock ------------------------------
(***************************************************************************)
(* What the proxy promises of its wake lock: a lock shared by counted      *)
(* references. The first taken locks it, the last returned unlocks it, no  *)
(* more are returned than were taken. Each taking starts the timeout anew. *)
(* While the proxy is stopped the lock stays as it is; the last use before *)
(* that may be the one that stops it.                                      *)
(***************************************************************************)
EXTENDS Naturals

CONSTANT Timeout

VARIABLES running, references, held, age

vars == <<running, references, held, age>>

Init == running \in BOOLEAN /\ references = 0 /\ ~held /\ age = 0

StartOrStop == running' = ~running /\ UNCHANGED <<references, held, age>>

Take ==
  /\ running
  /\ references' \in Nat /\ references' > references
  /\ held' /\ age' = 0
  /\ running' \in BOOLEAN

\* Acknowledged, dropped, at the end of a post, or all at once by the timeout.
Return ==
  /\ running
  /\ references' \in 0..references
  /\ held' <=> references' > 0
  /\ UNCHANGED age /\ running' \in BOOLEAN

Older == age < Timeout /\ age' = age + 1 /\ UNCHANGED <<running, references, held>>

Next == StartOrStop \/ Take \/ Return \/ Older

Spec == Init /\ [][Next]_vars
=============================================================================
