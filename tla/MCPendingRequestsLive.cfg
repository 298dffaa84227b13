CONSTANTS
  c1 = c1
  c2 = c2
  c3 = c3
  A = A
  B = B
  w1 = w1
  w2 = w2
  Requests = {c2, c3}
  Enclaves = {A, B}
  Workers = {w1, w2}
  AddressCount <- MCAddressCount
  Target <- MCTwoQueues
  Priority = {c2}
  TargetBatchSize = 2
  MaxWait = 0
  MaxAge = 1
  MinBacklogDefault = 3
  MinBacklogPriority = 4
  MaxBacklogTime = 3
  MaxBacklogTimePriority = 4
  MinRate = 1
  Rates = {2}
SPECIFICATION FairSpec
INVARIANT WaitersOnlyWhenEmpty
PROPERTY EveryRequestAnswered
