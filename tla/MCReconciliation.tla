--------------------------- MODULE MCReconciliation ---------------------------
(* A small instance of Reconciliation, with the history of its sagas.      *)
EXTENDS RepairHistory, TLC

CONSTANTS p1, o1, r1, r2, w1, w2

OneProduct == {p1}
OneOrder == {o1}
TwoRequests == {r1, r2}
TwoWorkers == {w1, w2}

RecordedSpec == Recorded /\ WorkerFairness

(* A flagged order is repaired if the workers are not for ever slower than *)
(* their leases, unless a saga was misled or the stock that it gives back  *)
(* does not fit into the BIGINT column of the inventory service.           *)
SlowWorker == \E o \in Orders, p \in Repairs : Busy(o, p) /\ LeaseExpires(o, p)

FlaggedIsRepaired ==
  <>[][~SlowWorker]_allVars =>
    \A o \in Orders :
      status[o] = "reconciliation_required"
        ~> (status[o] # "reconciliation_required" \/ ~Inventory!InRange(o) \/ misled)
=============================================================================
