---------------------------- MODULE MCOrderSaga ----------------------------
(* Small instances of OrderSaga, with the history of its calls.            *)
EXTENDS SagaHistory, TLC

CONSTANTS p1, o1, o2, r1, r2, r3

OneProduct == {p1}
OneOrder == {o1}
TwoOrders == {o1, o2}
TwoRequests == {r1, r2}
ThreeRequests == {r1, r2, r3}

RequestSymmetry == Permutations(Requests)
SagaSymmetry == Permutations(Requests) \cup Permutations(Orders)
=============================================================================
