SPECIFICATION Spec
CONSTANTS
  o1 = o1
  o2 = o2
  w1 = w1
  w2 = w2
  Orders <- OneOrder
  Workers <- TwoWorkers
  BatchSize = 1
  MaxFailures = 1
SYMMETRY OutboxSymmetry
INVARIANTS PendingIsAwaited
CHECK_DEADLOCK FALSE
