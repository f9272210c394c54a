------------------------------ MODULE OrderLife ------------------------------
(***************************************************************************)
(* What the shop promises of an order, without the way it is kept: the     *)
(* status that a client reads and the goods move in turn, and the status   *)
(* follows the goods.  The order service, its reconciliation workers and   *)
(* the inventory service together implement this.                          *)
(*                                                                         *)
(* A claim in progress (paying, cancelling) is an open order: it may come  *)
(* to nothing.  Orders have nothing to do with each other here, so a step  *)
(* says what each of them may do in it.                                    *)
(***************************************************************************)
CONSTANT Orders

VARIABLES stage,        \* what became of the order
          goods         \* what became of the goods it is about

lifeVars == <<stage, goods>>

LifeInit ==
  /\ stage = [o \in Orders |-> "none"]
  /\ goods = [o \in Orders |-> "none"]

(* The goods are set aside for an order that is not open yet.  A call that *)
(* was given up on can do that when the order has already failed.          *)
SetAside(o) == stage[o] \in {"placed", "failed"} /\ goods[o] = "none" /\ goods'[o] = "held"

(* Goods are sold only while the order is open.                            *)
Sell(o) == stage[o] = "open" /\ goods[o] = "held" /\ goods'[o] = "sold"

(* They are given back at any time before the outcome is shown.            *)
GiveBack(o) ==
  stage[o] \in {"placed", "open", "review"} /\ goods[o] = "held" /\ goods'[o] = "returned"

Place(o) == stage[o] = "none" /\ stage'[o] = "placed"

(* An order is opened for goods that are held for it.                      *)
OpenUp(o) == stage[o] = "placed" /\ goods[o] = "held" /\ stage'[o] = "open"

(* An order whose outcome could not be recorded is put aside for repair.   *)
PutAside(o) == stage[o] \in {"placed", "open"} /\ goods[o] # "none" /\ stage'[o] = "review"

(* The outcome is shown when it has come about, and does not change.       *)
Show(o) ==
  \/ stage[o] \in {"open", "review"} /\ goods[o] = "sold" /\ stage'[o] = "paid"
  \/ stage[o] \in {"open", "review"} /\ goods[o] = "returned" /\ stage'[o] = "cancelled"
  \/ stage[o] = "placed" /\ goods[o] # "sold" /\ stage'[o] = "failed"
  \/ stage[o] = "review" /\ goods[o] = "returned" /\ stage'[o] = "failed"
  \/ stage[o] = "paid" /\ stage'[o] = "finished"

LifeStep(o) ==
  \/ stage'[o] = stage[o] /\ goods'[o] = goods[o]
  \/ stage'[o] = stage[o] /\ (SetAside(o) \/ Sell(o) \/ GiveBack(o))
  \/ goods'[o] = goods[o] /\ (Place(o) \/ OpenUp(o) \/ PutAside(o) \/ Show(o))

LifeSpec == LifeInit /\ [][\A o \in Orders : LifeStep(o)]_lifeVars
=============================================================================
