SPECIFICATION DagFairSpec
CONSTANTS
  p1 = p1
  p2 = p2
  x1 = x1
  x2 = x2
  x3 = x3
  Nodes <- RfqNodes
  Deps <- RfqDeps
  Safe <- RfqNodes
  Registered <- RfqRegistered
  Processes = {p1}
  Executors = {x1, x2, x3}
  First = x1
  NoProcess = NoProcess
  MaxCrashes = 2
  MaxFailures = 0
INVARIANTS
  ClaimIsDurable
  OneExecution
PROPERTIES
  FinishedIsFinal
  
CHECK_DEADLOCK FALSE
