------------------------------ MODULE OrderSaga ------------------------------
(***************************************************************************)
(* The order service (internal/ordersvc) as a saga over its own database   *)
(* and the inventory service: Create, Pay, Cancel, TimeoutCancel and       *)
(* Finish.  Each request is a goroutine that takes one database            *)
(* transaction or one attempt of an HTTP call at a time, so requests on    *)
(* the same order interleave between any two of them.                      *)
(*                                                                         *)
(* An order stands for its (user, idempotency key) pair, which is unique   *)
(* in the orders table.  Inventory is the service of that module; its      *)
(* stock columns are committed state that this service only reaches by     *)
(* calls.                                                                  *)
(***************************************************************************)
EXTENDS Integers, FiniteSets

CONSTANTS Products, Orders, Quantities, MaxBigint,
          Requests,     \* request goroutines of the replicas
          MaxAttempts,  \* serviceRetryPolicy.MaxAttempts
          Faults        \* the failures that can happen in a run

(* rolledback: a transaction fails and has no effect.  unknown: it commits *)
(* but its caller sees an error.  lost: a call times out, before or after  *)
(* the server ran it.  expired: the context of the request ends.  crash:   *)
(* the process dies between two steps.                                     *)
AllFaults == {"rolledback", "unknown", "lost", "expired", "crash"}

ASSUME SagaAssumption == MaxAttempts \in Nat \ {0} /\ Faults \subseteq AllFaults

VARIABLES initialized, available, reserved, reservation, items, logged

inventoryVars == <<initialized, available, reserved, reservation, items, logged>>

Inventory == INSTANCE Inventory

VARIABLES status,       \* orders.status, or "none" before the row exists
          lines,        \* order_items: what the order asks for
          task,         \* actions of the order's reconciliation tasks
          timer,        \* its order_timeout_outbox row: is it still open?
          req,          \* what each request goroutine is doing
          stray         \* calls given up on: the server may still run them

sagaVars == <<status, lines, task, timer, req, stray>>

vars == <<inventoryVars, sagaVars>>

Transient == {"reserving", "paying", "cancelling"}

OrderStatus == Transient \cup {"none", "pending", "paid", "finished", "cancelled",
                               "failed", "reconciliation_required"}

Plans == {"release_inventory_and_fail", "finalize_cancel", "finalize_payment",
          "unsupported"}

Calls == {"reserve", "confirm", "release"}

(* pc: the goroutine has loaded the order or found no row ("begin"), waits *)
(* for a reply ("call"), has one ("ok", "err"), or has failed to record    *)
(* the result of a successful call ("flag").                               *)
NoRequest == [op |-> "none", order |-> "none", pc |-> "idle", call |-> "none", tries |-> 0]

ActiveRequest ==
  {a \in [op : {"create", "pay", "cancel"}, order : Orders,
          pc : {"begin", "call", "ok", "err", "flag"},
          call : Calls \cup {"none"}, tries : 0..MaxAttempts] :
     a.pc = "begin" <=> a.call = "none"}

SagaTypeOK ==
  /\ status \in [Orders -> OrderStatus]
  /\ lines \in [Orders -> Inventory!Demands \cup {Inventory!NoItems}]
  /\ task \in [Orders -> SUBSET Plans]
  /\ timer \in [Orders -> {"none", "open", "completed"}]
  /\ req \in [Requests -> ActiveRequest \cup {NoRequest}]
  /\ stray \subseteq Orders \X Calls

TypeOK == Inventory!TypeOK /\ SagaTypeOK

Init ==
  /\ Inventory!Init
  /\ status = [o \in Orders |-> "none"]
  /\ lines = [o \in Orders |-> Inventory!NoItems]
  /\ task = [o \in Orders |-> {}]
  /\ timer = [o \in Orders |-> "none"]
  /\ req = [r \in Requests |-> NoRequest]
  /\ stray = {}

-----------------------------------------------------------------------------
(* Database writes: how a transaction ends.  One run on the context of the *)
(* request is rolled back when that context has ended; the compensating    *)
(* updates run on a context of their own.                                  *)
Outcomes == {"ok"} \cup (Faults \cap {"rolledback", "unknown"})

RequestOutcomes ==
  Outcomes \cup (IF "expired" \in Faults THEN {"rolledback"} ELSE {})

(* What the update trigger on orders records when an order is flagged: a   *)
(* task per order and action, kept if there is one.                        *)
PlanFor(s) ==
  CASE s = "reserving" -> "release_inventory_and_fail"
    [] s = "cancelling" -> "finalize_cancel"
    [] s = "paying" -> "finalize_payment"
    [] OTHER -> "unsupported"

Write(o, s) ==
  /\ status' = [status EXCEPT ![o] = s]
  /\ task' = [task EXCEPT ![o] =
       IF s = "reconciliation_required" /\ status[o] # s
         THEN @ \cup {PlanFor(status[o])} ELSE @]

(* Mutant of CloseTimer: the timeout row is left alone.                    *)
CloseTimerForgotten(o) == status[o] # "none" /\ UNCHANGED timer

CloseTimer(o) == timer' = [timer EXCEPT ![o] = IF @ = "open" THEN "completed" ELSE @]

(* The handler answers, with the order or with an error.                   *)
End(r) == req' = [req EXCEPT ![r] = NoRequest]

At(r, pc) == req' = [req EXCEPT ![r].pc = pc]

(* The first attempt of a call to the inventory service, and another one.  *)
StartCall(r, call) ==
  req' = [req EXCEPT ![r].pc = "call", ![r].call = call, ![r].tries = 1]

RetryCall(r) == req' = [req EXCEPT ![r].pc = "call", ![r].tries = req[r].tries + 1]

-----------------------------------------------------------------------------
(* A request arrives.  Create goes on when findByIdempotency finds no row, *)
(* Pay and cancel when loadForTransition finds a pending order; otherwise  *)
(* they answer at once and change nothing.  TimeoutCancel is cancel with   *)
(* system = true, whose refusals are answered as success.                  *)
Begin(r, op, o) ==
  /\ req[r] = NoRequest
  /\ status[o] = IF op = "create" THEN "none" ELSE "pending"
  /\ req' = [req EXCEPT ![r] = [op |-> op, order |-> o, pc |-> "begin",
                                call |-> "none", tries |-> 0]]
  /\ UNCHANGED <<inventoryVars, status, lines, task, timer, stray>>

(* Create inserts the order and its items.  When the transaction fails it  *)
(* looks the key up again and returns what it finds.                       *)
InsertOrder(r) ==
  LET o == req[r].order
  IN  /\ req[r].op = "create" /\ req[r].pc = "begin"
      /\ \E outcome \in RequestOutcomes, d \in Inventory!Demands :
           /\ IF status[o] = "none" /\ outcome # "rolledback"
                THEN Write(o, "reserving") /\ lines' = [lines EXCEPT ![o] = d]
                ELSE UNCHANGED <<status, lines, task>>
           /\ IF status[o] = "none" /\ outcome = "ok"
                THEN StartCall(r, "reserve")
                ELSE End(r)
      /\ UNCHANGED <<inventoryVars, timer, stray>>

(* Mutant of ClaimOrder: the update has no condition on the status.        *)
ClaimOrderBlindly(r) ==
  LET o == req[r].order
      pay == req[r].op = "pay"
  IN  /\ req[r].op \in {"pay", "cancel"} /\ req[r].pc = "begin"
      /\ Write(o, IF pay THEN "paying" ELSE "cancelling")
      /\ StartCall(r, IF pay THEN "confirm" ELSE "release")
      /\ UNCHANGED <<inventoryVars, lines, timer, stray>>

(* Pay and cancel claim the order with a conditional update.               *)
ClaimOrder(r) ==
  LET o == req[r].order
      pay == req[r].op = "pay"
  IN  /\ req[r].op \in {"pay", "cancel"} /\ req[r].pc = "begin"
      /\ \E outcome \in RequestOutcomes :
           /\ IF status[o] = "pending" /\ outcome # "rolledback"
                THEN Write(o, IF pay THEN "paying" ELSE "cancelling")
                ELSE UNCHANGED <<status, task>>
           /\ IF status[o] = "pending" /\ outcome = "ok"
                THEN StartCall(r, IF pay THEN "confirm" ELSE "release")
                ELSE End(r)
      /\ UNCHANGED <<inventoryVars, lines, timer, stray>>

-----------------------------------------------------------------------------
(* Mutant of Accepts: any settled reservation is taken for a repetition.   *)
AcceptsConflict(call, o) ==
  \/ /\ call = "reserve"
     /\ \/ Inventory!Reserve(o, lines[o])
        \/ reservation[o] # "none" /\ UNCHANGED inventoryVars
  \/ /\ call \in {"confirm", "release"}
     /\ \/ call = "confirm" /\ Inventory!Confirm(o)
        \/ call = "release" /\ Inventory!Release(o)
        \/ reservation[o] \in {"confirmed", "released"} /\ UNCHANGED inventoryVars

(* The inventory service runs a call on order o: it changes its tables and *)
(* accepts, accepts a repetition unchanged, or refuses.  The duplicate-key *)
(* refusal of two overlapping Reserve transactions (InventoryTx) is one of *)
(* the failures called rolledback.                                         *)
Accepts(call, o) ==
  \/ /\ call = "reserve"
     /\ \/ Inventory!Reserve(o, lines[o])
        \/ reservation[o] # "none" /\ UNCHANGED inventoryVars
  \/ /\ call = "confirm"
     /\ \/ Inventory!Confirm(o)
        \/ reservation[o] = "confirmed" /\ UNCHANGED inventoryVars
  \/ /\ call = "release"
     /\ \/ Inventory!Release(o)
        \/ reservation[o] = "released" /\ UNCHANGED inventoryVars

Refuses(call, o) ==
  /\ \/ call = "reserve" /\ reservation[o] = "none" /\ ~Inventory!Enough(lines[o])
     \/ call = "confirm" /\ reservation[o] \in {"none", "released"}
     \/ call = "release" /\ reservation[o] \in {"none", "confirmed"}
     \/ call = "release" /\ reservation[o] = "pending" /\ ~Inventory!InRange(o)
     \/ "rolledback" \in Faults
  /\ UNCHANGED inventoryVars

(* The server runs the attempt that the goroutine is waiting for.          *)
ServeCall(r) ==
  /\ req[r].pc = "call"
  /\ \/ Accepts(req[r].call, req[r].order) /\ At(r, "ok")
     \/ Refuses(req[r].call, req[r].order) /\ At(r, "err")
  /\ UNCHANGED <<status, lines, task, timer, stray>>

(* What can cut a call short: the compensation of Create does not depend   *)
(* on the context of its request.                                          *)
CutBy(r) ==
  {"lost"} \cup (IF req[r].op = "create" /\ req[r].call = "release" THEN {} ELSE {"expired"})

(* An attempt fails in transport, before the server ran it (it may do so   *)
(* later) or after.  The executor tries again while it has attempts and    *)
(* budget left, and then reports the error; an open circuit or a cancelled *)
(* context ends it sooner.                                                 *)
LoseCall(r) ==
  /\ Faults \cap CutBy(r) # {}
  /\ req[r].pc \in {"call", "ok"} /\ req[r].call # "none"
  /\ stray' = IF req[r].pc = "call" THEN stray \cup {<<req[r].order, req[r].call>>} ELSE stray
  /\ \/ /\ req[r].tries < MaxAttempts
        /\ RetryCall(r)
     \/ At(r, "err")
  /\ UNCHANGED <<inventoryVars, status, lines, task, timer>>

(* The server gets to a call whose caller has given up.  There may be      *)
(* another of the same kind, one for every attempt, so the call stays.     *)
(* Nobody waits for the answer: one that repeats what was done, or that is *)
(* refused, changes nothing.                                               *)
ServeStray(o, call) ==
  /\ <<o, call>> \in stray
  /\ reservation[o] = IF call = "reserve" THEN "none" ELSE "pending"
  /\ Accepts(call, o)
  /\ UNCHANGED sagaVars

-----------------------------------------------------------------------------
(* Create, when Reserve returned an error of any kind: the order is marked *)
(* failed, and an error of that update is dropped.                         *)
FailOrder(r) ==
  /\ req[r].op = "create" /\ req[r].call = "reserve" /\ req[r].pc = "err"
  /\ \E outcome \in RequestOutcomes :
       IF outcome = "rolledback" THEN UNCHANGED <<status, task>>
       ELSE Write(req[r].order, "failed")
  /\ End(r)
  /\ UNCHANGED <<inventoryVars, lines, timer, stray>>

(* Create, after Reserve: reserving becomes pending and the timeout is     *)
(* scheduled, in one transaction; when it fails the reservation is         *)
(* released.                                                               *)
OpenOrder(r) ==
  LET o == req[r].order
  IN  /\ req[r].op = "create" /\ req[r].call = "reserve" /\ req[r].pc = "ok"
      /\ \E outcome \in RequestOutcomes :
           /\ IF status[o] = "reserving" /\ outcome # "rolledback"
                THEN Write(o, "pending") /\ timer' = [timer EXCEPT ![o] = "open"]
                ELSE UNCHANGED <<status, task, timer>>
           /\ IF status[o] = "reserving" /\ outcome = "ok"
                THEN End(r)
                ELSE StartCall(r, "release")
      /\ UNCHANGED <<inventoryVars, lines, stray>>

(* Mutant of CloseFailed: the result of the release is not looked at.      *)
CloseFailedAnyway(r) ==
  /\ req[r].op = "create" /\ req[r].call = "release" /\ req[r].pc \in {"ok", "err"}
  /\ Write(req[r].order, "failed")
  /\ End(r)
  /\ UNCHANGED <<inventoryVars, lines, timer, stray>>

(* Create, after that compensation: failed, or flagged when the release    *)
(* did not succeed either.  The update has no condition on the status.     *)
CloseFailed(r) ==
  /\ req[r].op = "create" /\ req[r].call = "release" /\ req[r].pc \in {"ok", "err"}
  /\ \E outcome \in Outcomes :
       IF outcome = "rolledback" THEN UNCHANGED <<status, task>>
       ELSE Write(req[r].order, IF req[r].pc = "ok" THEN "failed"
                                ELSE "reconciliation_required")
  /\ End(r)
  /\ UNCHANGED <<inventoryVars, lines, timer, stray>>

(* Mutant of RevertClaim: the order is flagged instead.                    *)
RevertClaimByFlag(r) ==
  /\ req[r].op \in {"pay", "cancel"} /\ req[r].pc = "err"
  /\ Write(req[r].order, "reconciliation_required")
  /\ End(r)
  /\ UNCHANGED <<inventoryVars, lines, timer, stray>>

(* Pay and cancel, when the call returned an error: back to pending.       *)
RevertClaim(r) ==
  LET o == req[r].order
      claimed == IF req[r].op = "pay" THEN "paying" ELSE "cancelling"
  IN  /\ req[r].op \in {"pay", "cancel"} /\ req[r].pc = "err"
      /\ \E outcome \in Outcomes :
           IF status[o] = claimed /\ outcome # "rolledback"
             THEN Write(o, "pending")
             ELSE UNCHANGED <<status, task>>
      /\ End(r)
      /\ UNCHANGED <<inventoryVars, lines, timer, stray>>

(* Mutant of SettleOrder: an error of the call is taken for success.       *)
SettleOrderAnyway(r) ==
  LET o == req[r].order
      pay == req[r].op = "pay"
  IN  /\ req[r].op \in {"pay", "cancel"} /\ req[r].pc \in {"ok", "err"}
      /\ Write(o, IF pay THEN "paid" ELSE "cancelled") /\ CloseTimer(o)
      /\ End(r)
      /\ UNCHANGED <<inventoryVars, lines, stray>>

(* Pay and cancel, when the call succeeded: the final status and the       *)
(* timeout row, in one transaction.                                        *)
SettleOrder(r) ==
  LET o == req[r].order
      pay == req[r].op = "pay"
      claimed == IF pay THEN "paying" ELSE "cancelling"
  IN  /\ req[r].op \in {"pay", "cancel"} /\ req[r].pc = "ok"
      /\ \E outcome \in RequestOutcomes :
           /\ IF status[o] = claimed /\ outcome # "rolledback"
                THEN Write(o, IF pay THEN "paid" ELSE "cancelled") /\ CloseTimer(o)
                ELSE UNCHANGED <<status, task, timer>>
           /\ IF status[o] = claimed /\ outcome = "ok" THEN End(r) ELSE At(r, "flag")
      /\ UNCHANGED <<inventoryVars, lines, stray>>

(* Pay and cancel, when that transaction failed: an update without a       *)
(* condition flags the order, and its own error is dropped.                *)
FlagOrder(r) ==
  /\ req[r].pc = "flag"
  /\ \E outcome \in Outcomes :
       IF outcome = "rolledback" THEN UNCHANGED <<status, task>>
       ELSE Write(req[r].order, "reconciliation_required")
  /\ End(r)
  /\ UNCHANGED <<inventoryVars, lines, timer, stray>>

FinishOrder(o) ==
  /\ status[o] = "paid"
  /\ Write(o, "finished")
  /\ UNCHANGED <<inventoryVars, lines, timer, req, stray>>

(* The process dies; the call it was waiting for may still be served.      *)
Crash(r) ==
  /\ "crash" \in Faults
  /\ req[r] # NoRequest
  /\ stray' = IF req[r].pc = "call" THEN stray \cup {<<req[r].order, req[r].call>>} ELSE stray
  /\ End(r)
  /\ UNCHANGED <<inventoryVars, status, lines, task, timer>>

(* Stock is created and added by administrators while orders run.          *)
StockIn ==
  /\ \E p \in Products, q \in Quantities : Inventory!InitStock(p, q) \/ Inventory!Add(p, q)
  /\ UNCHANGED sagaVars

Work(r) ==
  \/ InsertOrder(r) \/ ClaimOrder(r)
  \/ ServeCall(r) \/ LoseCall(r)
  \/ FailOrder(r) \/ OpenOrder(r) \/ CloseFailed(r)
  \/ RevertClaim(r) \/ SettleOrder(r) \/ FlagOrder(r)

(* One operation per route of the service.  Requests that a handler turns  *)
(* away, and the routes that only read, change nothing.                    *)
Next ==
  \/ \E r \in Requests, o \in Orders, op \in {"create", "pay", "cancel"} : Begin(r, op, o)
  \/ \E r \in Requests : Work(r) \/ Crash(r)
  \/ \E o \in Orders, call \in Calls : ServeStray(o, call)
  \/ \E o \in Orders : FinishOrder(o)
  \/ StockIn

Spec == Init /\ [][Next]_vars

-----------------------------------------------------------------------------
(* A paid or finished order has its stock confirmed and a cancelled one    *)
(* has it released, whatever fails: Pay and cancel record their result     *)
(* only after a successful call, and the two calls exclude each other.     *)
SettlementAgrees ==
  \A o \in Orders :
    /\ status[o] \in {"paid", "finished"} => reservation[o] = "confirmed"
    /\ status[o] = "cancelled" => reservation[o] = "released"

(* Past its insert or its conditional update a request is alone with its   *)
(* order: nobody else is between two steps of a saga on it.  This is what  *)
(* the WHERE status clauses are for.                                       *)
Past(r, o) == req[r].order = o /\ req[r].pc \notin {"idle", "begin"}

OneRequestActs ==
  \A r1, r2 \in Requests, o \in Orders : Past(r1, o) /\ Past(r2, o) => r1 = r2

(* The orders table moves along the edges of the documented state machine  *)
(* and back from a failed claim; in particular the blind updates of the    *)
(* error paths never overwrite a final status.                             *)
Edges ==
  {<<"none", "reserving">>, <<"reserving", "pending">>, <<"reserving", "failed">>,
   <<"pending", "paying">>, <<"paying", "paid">>, <<"paid", "finished">>,
   <<"pending", "cancelling">>, <<"cancelling", "cancelled">>,
   <<"paying", "pending">>, <<"cancelling", "pending">>}
  \cup {<<s, "reconciliation_required">> : s \in Transient}

FollowsStateMachine ==
  [][\A o \in Orders : status'[o] # status[o] => <<status[o], status'[o]>> \in Edges]_vars

(* A flagged order has one task, whose plan the inventory service accepts: *)
(* what finalize_payment and finalize_cancel take for granted has happened *)
(* and stock that is to be given back is not sold.                         *)
FlaggedIsPlanned ==
  \A o \in Orders : status[o] = "reconciliation_required" =>
    \/ task[o] = {"finalize_payment"} /\ reservation[o] = "confirmed"
    \/ task[o] = {"finalize_cancel"} /\ reservation[o] = "released"
    \/ task[o] = {"release_inventory_and_fail"} /\ reservation[o] \in {"pending", "released"}

(* What the reliability snapshot counts of the orders table: orders that   *)
(* have been in a transient status for longer than a request can last, and *)
(* flagged orders.                                                         *)
Snapshot ==
  [stuck_transient |->
     {o \in Orders : status[o] \in Transient /\ \A r \in Requests : ~Past(r, o)},
   reconciliation_required |-> {o \in Orders : status[o] = "reconciliation_required"}]

(* The status that a client reads when no saga is under way tells what     *)
(* happened to the stock, and stock that is held for an order which can    *)
(* neither be paid nor cancelled is in the snapshot.                       *)
StatusIsHonest ==
  \A o \in Orders :
    /\ status[o] = "pending" => reservation[o] = "pending"
    /\ status[o] = "failed" => reservation[o] \in {"none", "released"}
    /\ reservation[o] = "pending" =>
         \/ status[o] = "pending" \/ \E r \in Requests : Past(r, o)
         \/ o \in Snapshot.stuck_transient \cup Snapshot.reconciliation_required

(* An open order has exactly one open timeout row, and a settled order has *)
(* none left to publish.                                                   *)
TimerFollowsOrder ==
  \A o \in Orders :
    /\ status[o] \in {"pending", "paying", "cancelling"} => timer[o] = "open"
    /\ status[o] \in {"paid", "finished", "cancelled"} => timer[o] = "completed"
    /\ status[o] \in {"none", "reserving", "failed"} => timer[o] = "none"

(* What the documents say of a failed order: its stock is not held.        *)
FailedHoldsNothing ==
  \A o \in Orders : status[o] = "failed" => reservation[o] # "pending"

(* The order was written, and the goroutine goes on as if it had not been. *)
Misleads ==
  /\ status' # status
  /\ \E r \in Requests :
       \/ req[r].pc = "begin" /\ req'[r] = NoRequest
       \/ req[r].pc = "ok" /\ req'[r].pc \in {"call", "flag"}

-----------------------------------------------------------------------------
(* How the two databases together show an order to the shop.               *)
StageOf(s) ==
  CASE s = "reserving" -> "placed"
    [] s \in {"pending", "paying", "cancelling"} -> "open"
    [] s = "reconciliation_required" -> "review"
    [] OTHER -> s

GoodsOf(s) ==
  CASE s = "pending" -> "held"
    [] s = "confirmed" -> "sold"
    [] s = "released" -> "returned"
    [] OTHER -> s

Life == INSTANCE OrderLife WITH stage <- [o \in Orders |-> StageOf(status[o])],
                                goods <- [o \in Orders |-> GoodsOf(reservation[o])]

(* The order service and the inventory service implement OrderLife: no     *)
(* retry, late call, crash or failed transaction shows an outcome before   *)
(* the goods moved, sells goods of an order that is not open, or takes an  *)
(* outcome back.                                                           *)
KeepsPromise == Life!LifeSpec

(* How the timeout worker sees an order: opened and not yet settled, held  *)
(* by a saga, flagged or closed.  Flagged without a row, it was never open.*)
PhaseOf(s, t) ==
  CASE s \in {"none", "reserving", "failed"} -> "none"
    [] s = "pending" -> "pending"
    [] s \in {"paying", "cancelling"} -> "busy"
    [] s = "reconciliation_required" -> IF t = "none" THEN "none" ELSE "flagged"
    [] OTHER -> "closed"

Contract == INSTANCE OrderTimer WITH phase <- [o \in Orders |-> PhaseOf(status[o], timer[o])],
                                     row <- timer

(* The order service keeps its contract with the timeout worker: the row   *)
(* is there from the moment the order is open, and is completed with it.   *)
TimerContract == Contract!TimerSpec
=============================================================================
