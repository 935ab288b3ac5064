--------------------------- MODULE MCSalesOrders ---------------------------
(***************************************************************************)
(* Instances of SalesOrders for TLC.                                       *)
(***************************************************************************)
EXTENDS SalesOrders, TLC

CONSTANTS q1, o1, o2, o3, o4, n1, n2, n3, s1, s2

SalesSymmetry ==
  Permutations(Orders) \cup Permutations(Notes) \cup Permutations(Sessions)
=============================================================================
