--------------------------- MODULE MCEventConsumer ---------------------------
(***************************************************************************)
(* Instances of EventConsumer for TLC.                                     *)
(***************************************************************************)
EXTENDS EventConsumer, TLC

CONSTANTS e1, e2, e3, c1, c2

ConsumerSymmetry == Permutations(Consumers)
=============================================================================
