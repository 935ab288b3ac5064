SPECIFICATION DagSpec
CONSTANTS
  p1 = p1
  p2 = p2
  x1 = x1
  x2 = x2
  x3 = x3
  Nodes <- OrderNodes
  Deps <- OrderDeps
  Safe <- OrderSafe
  Registered <- OrderRegistered
  Processes = {p1, p2}
  Executors = {x1, x2, x3}
  First = x1
  NoProcess = NoProcess
  MaxCrashes = 2
  MaxFailures = 1
INVARIANTS
  UnsafeNotRepeated
  RecordsInOrder
CHECK_DEADLOCK FALSE
