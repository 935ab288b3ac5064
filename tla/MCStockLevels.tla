--------------------------- MODULE MCStockLevels ---------------------------
(***************************************************************************)
(* Instances of StockLevels for TLC.                                       *)
(***************************************************************************)
EXTENDS StockLevels, TLC

CONSTANTS w1, w2, e1, e2, r1, r2, n1, s1, s2

Form(t, s, d) == [type |-> t, src |-> s, dst |-> d, qty |-> 1]

\* One form for every branch of submit_stock_entry, a transfer onto itself and
\* a MANUFACTURE line with both warehouses among them.
AllForms ==
  { Form("MATERIAL_RECEIPT", NoWarehouse, w1),
    Form("MATERIAL_ISSUE", w1, NoWarehouse),
    Form("MATERIAL_TRANSFER", w1, w2),
    Form("MATERIAL_TRANSFER", w1, w1),
    Form("MANUFACTURE", w1, NoWarehouse),
    Form("MANUFACTURE", NoWarehouse, w2),
    Form("MANUFACTURE", w1, w2) }

NoForms == {}
StockSymmetry == Permutations(Entries) \cup Permutations(Reservations)
SomeOpening == [w \in Warehouses |-> IF w = w1 THEN 2 ELSE 0]
=============================================================================
