SPECIFICATION RecordedSpec
CONSTANTS
  p1 = p1
  o1 = o1
  r1 = r1
  r2 = r2
  w1 = w1
  w2 = w2
  Products <- OneProduct
  Orders <- OneOrder
  Requests <- TwoRequests
  Workers <- TwoWorkers
  Quantities = {1}
  MaxBigint = 2
  MaxAttempts = 1
  BatchSize = 2
  Faults = {"rolledback", "unknown", "lost", "expired", "crash"}
  WorkerFaults = {"rolledback", "unknown", "lost", "crash", "slow"}
INVARIANTS SettlementAgrees TasksMatchUnlessMisled
PROPERTIES ClosedTaskIsFinal RepairKeepsPromise FlaggedIsRepaired
CHECK_DEADLOCK FALSE
