------------------------------ MODULE LossyFifo ------------------------------
(***************************************************************************)
(* What the proxy promises of the events it is given: each accepted batch  *)
(* enters one channel, in order and uncut but for a tail that is refused;  *)
(* events leave the channel only by being delivered or lost. Nothing is    *)
(* reordered, duplicated, invented or interleaved with another batch.      *)
(***************************************************************************)
EXTENDS Naturals, Sequences

CONSTANTS Posters, Batches

VARIABLES
  offer,    \* offer[p]: the batch p is handing over, or << >>
  channel   \* the events accepted, not yet delivered or lost

vars == <<offer, channel>>

Init == offer = [p \in Posters |-> << >>] /\ channel = << >>

Offer(p, b) ==
  /\ offer[p] = << >>
  /\ offer' = [offer EXCEPT ![p] = b]
  /\ UNCHANGED channel

Accept(p, k) ==
  /\ offer[p] # << >>
  /\ channel' = channel \o SubSeq(offer[p], 1, k)
  /\ offer' = [offer EXCEPT ![p] = << >>]

\* The events at i + 1 .. j are delivered (i = 0) or lost.
Leave(i, j) ==
  /\ channel' = SubSeq(channel, 1, i) \o SubSeq(channel, j + 1, Len(channel))
  /\ UNCHANGED offer

Next ==
  \/ \E p \in Posters :
       \/ \E b \in Batches : Offer(p, b)
       \/ \E k \in 0..Len(offer[p]) : Accept(p, k)
  \/ \E i \in 0..Len(channel) : \E j \in i..Len(channel) : Leave(i, j)

Spec == Init /\ [][Next]_vars
=============================================================================
