SPECIFICATION DagSpec
CONSTANTS
  p1 = p1
  p2 = p2
  x1 = x1
  x2 = x2
  x3 = x3
  Nodes <- RfqNodes
  Deps <- RfqDeps
  Safe <- RfqNodes
  Registered <- RfqRegistered
  Processes = {p1, p2}
  Executors = {x1}
  First = x1
  NoProcess = NoProcess
  MaxCrashes = 1
  MaxFailures = 0
INVARIANT
  QuarantineOnlyInterrupted
CHECK_DEADLOCK FALSE
