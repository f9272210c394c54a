SPECIFICATION FairSpec
CONSTANTS
  o1 = o1
  o2 = o2
  w1 = w1
  w2 = w2
  Orders <- TwoOrders
  Workers <- TwoWorkers
  BatchSize = 2
  MaxFailures = 1
INVARIANTS NotForgotten DuplicatesAreFailures PublisherHoldsLease PublishedIsPursued
PROPERTIES TimeoutEnds
CHECK_DEADLOCK FALSE
