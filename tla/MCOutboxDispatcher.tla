------------------------- MODULE MCOutboxDispatcher -------------------------
(***************************************************************************)
(* Instances of OutboxDispatcher for TLC.                                  *)
(***************************************************************************)
EXTENDS OutboxDispatcher, TLC

CONSTANTS e1, e2, e3, d1, d2

\* All rows belong to one aggregate.
OneAggregate == [e \in {e1, e2, e3} |-> "invoice"]

DispatcherSymmetry == Permutations(Dispatchers)
=============================================================================
