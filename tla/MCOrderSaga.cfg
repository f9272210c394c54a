SPECIFICATION Answered
CONSTANTS
  p1 = p1
  o1 = o1
  o2 = o2
  r1 = r1
  r2 = r2
  r3 = r3
  Products <- OneProduct
  Orders <- TwoOrders
  Requests <- TwoRequests
  Quantities = {1}
  MaxBigint = 1
  MaxAttempts = 2
  Faults = {"rolledback", "lost", "expired", "crash"}
SYMMETRY SagaSymmetry
INVARIANTS OneRequestActs FlaggedIsPlanned HonestWhileAnswered
PROPERTIES FollowsStateMachine KeepsPromise TimerContract
CHECK_DEADLOCK FALSE
