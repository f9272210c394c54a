SPECIFICATION TxSpec
CONSTANTS
  o1 = o1
  o2 = o2
  t1 = t1
  t2 = t2
  Txns = {t1, t2}
  Products <- MCProducts
  Orders <- MCOrders
  Quantities <- MCQuantities
  MaxBigint = 2
SYMMETRY TxSymmetry
INVARIANTS NoLockCycle CommitNeverFails ReservedIsPending StockConserved LogExplainsStock
PROPERTY AtomicSpec
