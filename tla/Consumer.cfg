SPECIFICATION ConsumerFairSpec
CONSTANTS
  e1 = e1
  e2 = e2
  e3 = e3
  c1 = c1
  c2 = c2
  Events = {e1, e2, e3}
  Orphans = {e3}
  Malformed = Malformed
  Consumers = {c1, c2}
  Nobody = Nobody
  MaxRetries = 2
  WithDlq = {c1}
  Stalls = {e2}
  MaxLog = 2
  MaxFaults = 2
INVARIANTS
  CommittedIsSettled
  DeadLetterIsReviewable
  OneLiveHandler
PROPERTIES
  TerminalIsFinal
  
CHECK_DEADLOCK FALSE
