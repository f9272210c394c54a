--------------------------- MODULE MCTimeoutOutbox ---------------------------
(* Small instances of TimeoutOutbox.                                       *)
EXTENDS TimeoutOutbox, TLC

CONSTANTS o1, o2, w1, w2

OneOrder == {o1}
TwoOrders == {o1, o2}
TwoWorkers == {w1, w2}

OutboxSymmetry == Permutations(Orders) \cup Permutations(Workers)
=============================================================================
