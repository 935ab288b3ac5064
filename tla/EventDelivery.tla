--------------------------- MODULE EventDelivery ---------------------------
(***************************************************************************)
(* What the event backbone promises for each event, from the transaction   *)
(* that enqueues it to the durable outcome of its handling.                *)
(***************************************************************************)
CONSTANT Rows  \* the events

VARIABLE life  \* life[e]: where event e is

\* open: its transaction has not ended    discarded: it rolled back
\* accepted: it committed                 settled: the ledger has its outcome
Lives == {"open", "discarded", "accepted", "settled"}

DeliveryInit == life = [e \in Rows |-> "open"]

Become(e, from, to) == life[e] = from /\ life' = [life EXCEPT ![e] = to]

Accept(e) == Become(e, "open", "accepted")
Discard(e) == Become(e, "open", "discarded")
Settle(e) == Become(e, "accepted", "settled")

DeliveryNext == \E e \in Rows : Accept(e) \/ Discard(e) \/ Settle(e)

DeliverySpec == DeliveryInit /\ [][DeliveryNext]_life

\* An accepted event is not left unsettled for ever.
DeliveryFairSpec == DeliverySpec /\ \A e \in Rows : WF_life(Settle(e))
=============================================================================
