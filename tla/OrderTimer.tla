----------------------------- MODULE OrderTimer -----------------------------
(***************************************************************************)
(* The contract between order-service and the timeout worker, who share    *)
(* the order_timeout_outbox_v2 row of an order.  An order is opened with   *)
(* its row; a saga that holds the order (Pay, cancel, timeout) settles it  *)
(* with the row, flags it or gives it back; an order that was settled or   *)
(* flagged is never pending again.  OrderSaga keeps this; TimeoutOutbox    *)
(* has these steps for its orders and puts the workers beside them.        *)
(***************************************************************************)
CONSTANT Orders

VARIABLES phase,        \* "none", "pending", "busy" (a saga holds it), "flagged", "closed"
          row           \* the outbox row: "none", "open" or "completed"

timerVars == <<phase, row>>

TimerInit ==
  /\ phase = [o \in Orders |-> "none"]
  /\ row = [o \in Orders |-> "none"]

Open(o) == phase[o] = "none" /\ phase'[o] = "pending" /\ row[o] = "none" /\ row'[o] = "open"

Claim(o) == phase[o] = "pending" /\ phase'[o] = "busy" /\ row'[o] = row[o]

Settle(o) == phase[o] = "busy" /\ phase'[o] = "closed" /\ row'[o] = "completed"

Flag(o) == phase[o] = "busy" /\ phase'[o] = "flagged" /\ row'[o] = row[o]

Revert(o) == phase[o] = "busy" /\ phase'[o] = "pending" /\ row'[o] = row[o]

(* The repair of a flagged order settles it, with the row.                 *)
Repair(o) == phase[o] = "flagged" /\ phase'[o] = "closed" /\ row'[o] = "completed"

ServiceStep(o) ==
  Open(o) \/ Claim(o) \/ Settle(o) \/ Flag(o) \/ Revert(o) \/ Repair(o)

Rests(o) == phase'[o] = phase[o] /\ row'[o] = row[o]

(* What order-service promises.                                            *)
TimerSpec == TimerInit /\ [][\A o \in Orders : Rests(o) \/ ServiceStep(o)]_timerVars
=============================================================================
