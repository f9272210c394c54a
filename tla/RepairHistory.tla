--------------------------- MODULE RepairHistory ---------------------------
(***************************************************************************)
(* Reconciliation with a history variable, which remembers whether a saga  *)
(* ever took a committed transaction for failed.                           *)
(***************************************************************************)
EXTENDS Reconciliation

VARIABLE misled

RecordedInit == WorkerInit /\ misled = FALSE

RecordedNext == WorkerNext /\ misled' = (misled \/ Misleads)

Recorded == RecordedInit /\ [][RecordedNext]_<<allVars, misled>>

(* TasksMatchOrders, as long as no saga was misled by the error of a       *)
(* transaction that committed; after that an order can be flagged when it  *)
(* is settled, and a worker meets the mismatch and marks it unresolved.    *)
TasksMatchUnlessMisled == misled \/ TasksMatchOrders

(* With the workers at work the two services still implement OrderLife: a  *)
(* repair shows an outcome only when the goods have moved, and two workers *)
(* and late calls never take one back.                                     *)
RepairKeepsPromise == [][misled' \/ \A o \in Orders : Life!LifeStep(o)]_allVars
=============================================================================
