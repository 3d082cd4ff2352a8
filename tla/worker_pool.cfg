CONSTANTS
  e1 = e1  e2 = e2  e3 = e3
  Events = {e1, e2, e3}
  Kinds = {TRUE, FALSE}
  NumWorkers = 2
  QueueSize = 1
  k1 = k1
  NoCorrelation = NoCorrelation
  Correlation <- McCorrelation
  Hash <- McHash
  Panicking = {e3}
  MaxStarts = 2
SPECIFICATION FairSpec
INVARIANTS
  AcceptedOnce
  CorrelatedInOrder
PROPERTIES
  CallsReturn
