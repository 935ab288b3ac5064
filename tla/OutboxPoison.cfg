SPECIFICATION OutboxFairSpec
CONSTANTS
  e1 = e1
  e2 = e2
  e3 = e3
  d1 = d1
  d2 = d2
  Rows = {e1, e2}
  Dispatchers = {d1}
  NoDispatcher = NoDispatcher
  NoRow = NoRow
  AggregateOf <- OneAggregate
  Poison = {e1}
  MaxFaults = 0
PROPERTY
  EventuallyProcessed
CHECK_DEADLOCK FALSE
