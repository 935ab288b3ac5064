SPECIFICATION PipelineFairSpec
CONSTANTS
  e1 = e1
  e2 = e2
  d1 = d1
  d2 = d2
  c1 = c1
  c2 = c2
  Rows = {e1, e2}
  Dispatchers = {d1}
  NoDispatcher = NoDispatcher
  NoRow = NoRow
  AggregateOf <- OneAggregate
  Poison = {}
  MaxFaults = 1
  Orphans = {}
  Malformed = Malformed
  Consumers = {c1}
  Nobody = Nobody
  MaxRetries = 1
  WithDlq = {c1}
  Stalls = {}
  MaxLog = 3
  MaxConsumerFaults = 1

  
PROPERTIES
  ImplementsDelivery
  
CHECK_DEADLOCK FALSE
