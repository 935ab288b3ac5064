SPECIFICATION OutboxSpec
CONSTANTS
  e1 = e1
  e2 = e2
  e3 = e3
  d1 = d1
  d2 = d2
  Rows = {e1, e2, e3}
  Dispatchers = {d1, d2}
  NoDispatcher = NoDispatcher
  NoRow = NoRow
  AggregateOf <- OneAggregate
  Poison = {e3}
  MaxFaults = 2
SYMMETRY DispatcherSymmetry
INVARIANTS
  OutboxTypeOK
  ProcessedIsPublished
  OnlyCommittedPublished
  ClaimIsExclusive
  DuplicatesOnlyFromFaults
CHECK_DEADLOCK FALSE
