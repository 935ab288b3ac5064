SPECIFICATION Spec
CONSTANTS
  Idle = Idle
  s1 = s1
  s2 = s2
  Places = {"hall", "yard"}
  Values = {1, 4}
  Rest = 1
  WeekLength = 3
  WeeklyMax = 2
SYMMETRY Symmetry
INVARIANTS
  RowsWellFormed
  
  
  
  OrdersMatchSources
  
  
  
  LedgerAuditable
  
  
  MessagesHandledOnce
PROPERTIES
  
  HandoffIsQuiet
  DecisionsStand
CHECK_DEADLOCK FALSE
