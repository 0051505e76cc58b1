CONSTANTS
  d1 = d1
  d2 = d2
  d3 = d3
  Deliveries = {d1, d2, d3}
  RetryDelays = 2
  Burst = 2
  TripAfter = 2
  MaxRequests = 2
SPECIFICATION FairSpec
INVARIANTS
  AttemptsExplained
  ProbesBounded
PROPERTY
  DeliveryEnds
CHECK_DEADLOCK FALSE
