SPECIFICATION StockSpec
CONSTANTS
  w1 = w1
  w2 = w2
  e1 = e1
  e2 = e2
  r1 = r1
  r2 = r2
  n1 = n1
  s1 = s1
  s2 = s2
  Warehouses = {w1, w2}
  NoWarehouse = NoWarehouse
  Entries = {}
  Forms <- NoForms
  Reservations = {r1, r2}
  Counts = {}
  Quantities = {0, 1, 2}
  Opening <- SomeOpening
  Sessions = {s1, s2}
  NoDoc = NoDoc
INVARIANT
  NoDoubleAllocation
CHECK_DEADLOCK FALSE
