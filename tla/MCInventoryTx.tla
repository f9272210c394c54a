---------------------------- MODULE MCInventoryTx ----------------------------
(* Concurrent inventory transactions on a small instance.                  *)
EXTENDS InventoryTx, TLC

CONSTANTS o1, o2, t1, t2

MCProducts == {1, 2}

MCOrders == {o1, o2}

MCQuantities == {1}

\* Connections are interchangeable, and so are orders.
TxSymmetry == Permutations({t1, t2}) \cup Permutations({o1, o2})
=============================================================================
