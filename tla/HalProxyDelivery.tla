-------------------------- MODULE HalProxyDelivery --------------------------
(***************************************************************************)
(* The event path of HalProxyEvents implements the channel of LossyFifo:   *)
(* the channel is the event queue followed by what pends, less the part W  *)
(* has written or given up and not yet removed.                            *)
(***************************************************************************)
EXTENDS HalProxyEvents

Offered ==
  [p \in SubHals |-> IF ppc[p] \in {"creating", "created", "posting"} \union InPost
                     THEN batch[p] ELSE << >>]

Fifo == INSTANCE LossyFifo WITH
          Posters <- SubHals,
          offer   <- Offered,
          channel <- mEventQueue \o Unwritten

\* Direct writes (667-678), the overflow queue (682-688), W's chunked writes
\* and drops (584-610) and restarts together never reorder, duplicate or
\* interleave the events of the batches posted.
DeliversInOrder == Fifo!Spec
=============================================================================
