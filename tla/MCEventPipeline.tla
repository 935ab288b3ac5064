-------------------------- MODULE MCEventPipeline --------------------------
(***************************************************************************)
(* Instances of EventPipeline for TLC.                                     *)
(***************************************************************************)
EXTENDS EventPipeline, TLC

CONSTANTS e1, e2, d1, d2, c1, c2

OneAggregate == [e \in {e1, e2} |-> "invoice"]
PipelineSymmetry == Permutations(Dispatchers) \cup Permutations(Consumers)
=============================================================================
