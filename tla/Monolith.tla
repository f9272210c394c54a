------------------------------ MODULE Monolith ------------------------------
(***************************************************************************)
(* The monolith (cmd/main.go): orders, stock, idempotency keys and timeout *)
(* outbox in one MySQL database (internal/service, internal/dao), and the  *)
(* worker that takes the timeouts through RabbitMQ                         *)
(* (internal/ordertimeout).                                                *)
(*                                                                         *)
(* A transaction takes its locks statement by statement and shows its      *)
(* effect when it commits.  The order of two lines of a request matters to *)
(* the locks only, so a line is a product, of which one piece is ordered.  *)
(***************************************************************************)
EXTENDS Integers, Sequences, FiniteSets

CONSTANTS Products, Orders, Keys,
          Menu,         \* the item lists that clients send
          Clients,      \* connections that serve requests
          Handlers,     \* connections that handle deliveries
          Openings,     \* inputs: quantities that InitInventory is given
          MaxIntake,    \* bound: pieces that are ever stocked, of each product
          MaxFailures   \* bound: failures of the broker session

ASSUME MonolithAssumption == Openings \subseteq Nat /\ MaxIntake \in [Products -> Nat] /\ MaxFailures \in Nat

VARIABLES rows,         \* products with a row in product_inventory
          stock,        \* the stock_quantity of the row
          intake,       \* pieces stocked so far, by the stock log
          status,       \* of each order
          lines,        \* its order_items
          record,       \* order_idempotency_keys
          outbox,       \* order_timeout_outbox of each order
          due,          \* orders whose timeout_at has passed
          tx,           \* the transaction of each connection
          delay, ready, \* messages in the delay and the cancel queue
          hand,         \* the delivery that the consumer handles
          pub,          \* the event that the publisher is at
          failures

storeVars == <<rows, stock, intake, status, lines, record, outbox>>

brokerVars == <<delay, ready, hand, pub, failures>>

vars == <<storeVars, due, tx, brokerVars>>

Sessions == Clients \cup Handlers

NoOrder == "no order"

NoKey == "no key"

NoRecord == [order |-> NoOrder, hash |-> {}]

(* A transaction is about to update its order ("order"), or past that: it  *)
(* has locked the rows of its first items, and write is what it wrote.     *)
NoTx == [op |-> "none", pc |-> "idle", key |-> NoKey, order |-> NoOrder,
         items |-> <<>>, write |-> <<>>]

(* A delivery is handled by a transaction, then acknowledged or queued     *)
(* again.  An event is published, then marked.                             *)
NoHand == [order |-> NoOrder, pc |-> "idle", by |-> "nobody"]

NoPub == [order |-> NoOrder, pc |-> "idle"]

(* What a client may send: validateDuplicateItems refuses a list that      *)
(* names a product twice.                                                  *)
ASSUME MenuAssumption ==
  /\ Menu \subseteq Seq(Products)
  /\ \A items \in Menu : \A i, j \in DOMAIN items : items[i] = items[j] => i = j

ASSUME NoOrderAssumption == NoOrder \notin Orders

Elems(s) == {s[i] : i \in DOMAIN s}

Tx == [op : {"create", "cancel"}, pc : {"order", "item"}, key : Keys \cup {NoKey},
       order : Orders, items : Menu, write : Seq(Nat)]

TypeOK ==
  /\ rows \subseteq Products
  /\ stock \in [Products -> Nat] /\ intake \in [Products -> Nat]
  /\ \A p \in Products : stock[p] <= intake[p] /\ intake[p] <= MaxIntake[p]
  /\ status \in [Orders -> {"none", "pending", "paid", "finished", "cancelled"}]
  /\ lines \in [Orders -> Menu \cup {<<>>}]
  /\ record \in [Keys -> [order : Orders, hash : SUBSET Products] \cup {NoRecord}]
  /\ outbox \in [Orders -> {"none", "pending", "failed", "published"}]
  /\ due \subseteq Orders
  /\ tx \in [Sessions -> Tx \cup {NoTx}]
  /\ delay \in [Orders -> Nat] /\ ready \in [Orders -> Nat]
  /\ hand \in [order : Orders, pc : {"run", "ack", "requeue"}, by : Handlers] \cup {NoHand}
  /\ pub \in [order : Orders, pc : {"confirmed", "failed"}] \cup {NoPub}
  /\ failures \in 0..MaxFailures

Init ==
  /\ rows = {}
  /\ stock = [p \in Products |-> 0]
  /\ intake = [p \in Products |-> 0]
  /\ status = [o \in Orders |-> "none"]
  /\ lines = [o \in Orders |-> <<>>]
  /\ record = [k \in Keys |-> NoRecord]
  /\ outbox = [o \in Orders |-> "none"]
  /\ due = {}
  /\ tx = [s \in Sessions |-> NoTx]
  /\ delay = [o \in Orders |-> 0]
  /\ ready = [o \in Orders |-> 0]
  /\ hand = NoHand
  /\ pub = NoPub
  /\ failures = 0

-----------------------------------------------------------------------------
(* Locks.  A transaction holds its key and its new order, or the order it  *)
(* cancels, and the inventory rows of the items it is past.                *)
Locked(s) == {tx[s].items[i] : i \in DOMAIN tx[s].write}

(* Mutant of KeyFree: the insert of the key does not wait.                 *)
KeyFreeAlways(k) == k \in Keys

KeyFree(k) == \A s \in Sessions : ~(tx[s].pc = "item" /\ tx[s].key = k)

OrderFree(o) == \A s \in Sessions : ~(tx[s].pc = "item" /\ tx[s].order = o)

(* Mutant of RowFree: the row is read without FOR UPDATE.                  *)
RowFreeWithoutLock(p) == p \in Products

RowFree(p) == \A s \in Sessions : p \notin Locked(s)

(* The transaction is over.  The consumer goes on to verdict, unless its   *)
(* session ended and s is a handler that it left behind.                   *)
End(s, verdict) ==
  /\ tx' = [tx EXCEPT ![s] = NoTx]
  /\ hand' = IF hand.pc = "run" /\ hand.by = s THEN [hand EXCEPT !.pc = verdict] ELSE hand

-----------------------------------------------------------------------------
(* InventoryService: the first row of a product (product_id is unique),    *)
(* and more stock, under the lock of the row.                              *)
InitInventory(p, q) ==
  /\ p \notin rows /\ q <= MaxIntake[p]
  /\ rows' = rows \cup {p}
  /\ stock' = [stock EXCEPT ![p] = q]
  /\ intake' = [intake EXCEPT ![p] = q]
  /\ UNCHANGED <<status, lines, record, outbox, due, tx, brokerVars>>

AddInventory(p) ==
  /\ p \in rows /\ RowFree(p) /\ intake[p] < MaxIntake[p]
  /\ stock' = [stock EXCEPT ![p] = @ + 1]
  /\ intake' = [intake EXCEPT ![p] = @ + 1]
  /\ UNCHANGED <<rows, status, lines, record, outbox, due, tx, brokerVars>>

-----------------------------------------------------------------------------
(* CreateOrder.  TryCreateOrderIdempotencyKey waits for a transaction that *)
(* holds the key.  If a record is there, the call returns its order, or    *)
(* refuses another content: either way it changes nothing.  If not, the    *)
(* key and the new order are inserted.                                     *)
BeginCreate(s, k, items) ==
  /\ tx[s] = NoTx
  /\ KeyFree(k) /\ record[k] = NoRecord
  /\ \E o \in Orders :
       /\ status[o] = "none" /\ OrderFree(o)
       /\ tx' = [tx EXCEPT ![s] = [op |-> "create", pc |-> "item", key |-> k, order |-> o,
                                   items |-> items, write |-> <<>>]]
  /\ UNCHANGED <<storeVars, due, brokerVars>>

(* The next item of a transaction: its row is locked and its stock, less   *)
(* the ordered piece if there is one, or with the returned one, written.   *)
LockItem(s) ==
  /\ tx[s].pc = "item" /\ Len(tx[s].write) < Len(tx[s].items)
  /\ LET p == tx[s].items[Len(tx[s].write) + 1]
         after == IF tx[s].op = "create" THEN stock[p] - 1 ELSE stock[p] + 1
     IN /\ p \in rows /\ RowFree(p)
        /\ after >= 0
        /\ tx' = [tx EXCEPT ![s].write = Append(@, after)]
  /\ UNCHANGED <<storeVars, due, brokerVars>>

(* The stock that other transactions see once s commits.                   *)
CommitStock(s) ==
  /\ tx[s].pc = "item" /\ Len(tx[s].write) = Len(tx[s].items)
  /\ stock' = [p \in Products |->
                 IF p \in Locked(s) THEN tx[s].write[CHOOSE i \in DOMAIN tx[s].items : tx[s].items[i] = p]
                                    ELSE stock[p]]

(* The order, its items, its stock, its key and its timeout event become   *)
(* visible together.                                                       *)
CommitCreate(s) ==
  /\ tx[s].op = "create"
  /\ CommitStock(s)
  /\ LET o == tx[s].order IN
       /\ status' = [status EXCEPT ![o] = "pending"]
       /\ lines' = [lines EXCEPT ![o] = tx[s].items]
       /\ record' = [record EXCEPT ![tx[s].key] = [order |-> o, hash |-> Elems(tx[s].items)]]
       /\ outbox' = [outbox EXCEPT ![o] = "pending"]
  /\ End(s, "ack")
  /\ UNCHANGED <<rows, intake, due, delay, ready, pub, failures>>

-----------------------------------------------------------------------------
(* CancelOrder reads the order, and goes on when it is pending.            *)
BeginCancel(s, o) ==
  /\ tx[s] = NoTx
  /\ status[o] = "pending"
  /\ tx' = [tx EXCEPT ![s] = [op |-> "cancel", pc |-> "order", key |-> NoKey, order |-> o,
                              items |-> lines[o], write |-> <<>>]]
  /\ UNCHANGED <<storeVars, due, brokerVars>>

(* Mutant of PatchOrder: the update does not look at the status again.     *)
PatchOrderBlindly(s) ==
  /\ tx[s].pc = "order" /\ OrderFree(tx[s].order)
  /\ tx' = [tx EXCEPT ![s].pc = "item"]
  /\ UNCHANGED <<storeVars, due, brokerVars>>

(* cancelPendingOrder updates the order if it still is pending, and        *)
(* otherwise leaves all as it is: an error for the client, not for the     *)
(* consumer.                                                               *)
PatchOrder(s) ==
  LET o == tx[s].order IN
  /\ tx[s].pc = "order" /\ OrderFree(o)
  /\ \/ status[o] = "pending" /\ tx' = [tx EXCEPT ![s].pc = "item"] /\ UNCHANGED hand
     \/ status[o] # "pending" /\ End(s, "ack")
  /\ UNCHANGED <<storeVars, due, delay, ready, pub, failures>>

(* The commit gives the stock of every item back.  Its reply may be lost.  *)
CommitCancel(s) ==
  /\ tx[s].op = "cancel"
  /\ CommitStock(s)
  /\ status' = [status EXCEPT ![tx[s].order] = "cancelled"]
  /\ \E verdict \in {"ack", "requeue"} : End(s, verdict)
  /\ UNCHANGED <<rows, intake, lines, record, outbox, due, delay, ready, pub, failures>>

(* A transaction is rolled back: refused for want of stock or a product    *)
(* that is not on sale, the victim of a deadlock, or out of time.          *)
Rollback(s) ==
  /\ tx[s] # NoTx
  /\ End(s, "requeue")
  /\ UNCHANGED <<storeVars, due, delay, ready, pub, failures>>

(* PayOrder and FinishOrder: one conditional update after a read.          *)
PayOrder(o) ==
  /\ status[o] = "pending" /\ OrderFree(o)
  /\ status' = [status EXCEPT ![o] = "paid"]
  /\ UNCHANGED <<rows, stock, intake, lines, record, outbox, due, tx, brokerVars>>

FinishOrder(o) ==
  /\ status[o] = "paid" /\ OrderFree(o)
  /\ status' = [status EXCEPT ![o] = "finished"]
  /\ UNCHANGED <<rows, stock, intake, lines, record, outbox, due, tx, brokerVars>>

-----------------------------------------------------------------------------
(* The worker's session (external: RabbitMQ keeps what is not acknowledged *)
(* and delivers it again).  A handler whose session is over has lost its   *)
(* delivery, and may commit all the same.                                  *)
EndSession ==
  /\ ready' = IF hand = NoHand THEN ready ELSE [ready EXCEPT ![hand.order] = @ + 1]
  /\ hand' = NoHand
  /\ pub' = NoPub

Fail == failures < MaxFailures /\ failures' = failures + 1

ConnectionCloses ==
  /\ Fail
  /\ EndSession
  /\ UNCHANGED <<storeVars, due, tx, delay>>

(* publishBatch: an event that is not published and due for an attempt is  *)
(* sent to the delay queue.  If that is not confirmed, the broker may have *)
(* it or not.                                                              *)
PublishEvent(o) ==
  /\ pub = NoPub /\ outbox[o] = "pending"
  /\ \/ /\ delay' = [delay EXCEPT ![o] = @ + 1]
        /\ pub' = [order |-> o, pc |-> "confirmed"]
        /\ UNCHANGED failures
     \/ /\ Fail
        /\ \E arrived \in 0..1 : delay' = [delay EXCEPT ![o] = @ + arrived]
        /\ pub' = [order |-> o, pc |-> "failed"]
  /\ UNCHANGED <<storeVars, due, tx, ready, hand>>

(* MarkOrderTimeoutOutboxPublished; its error ends the session.            *)
MarkPublished ==
  /\ pub.pc = "confirmed"
  /\ \/ /\ outbox' = [outbox EXCEPT ![pub.order] = "published"]
        /\ pub' = NoPub
        /\ UNCHANGED <<ready, hand, failures>>
     \/ Fail /\ EndSession /\ UNCHANGED outbox
  /\ UNCHANGED <<rows, stock, intake, status, lines, record, due, tx, delay>>

(* MarkOrderTimeoutOutboxFailed, whose own error is ignored; then the      *)
(* session ends.                                                           *)
MarkFailed ==
  /\ pub.pc = "failed"
  /\ \E marked \in {"pending", "failed"} : outbox' = [outbox EXCEPT ![pub.order] = marked]
  /\ EndSession
  /\ UNCHANGED <<rows, stock, intake, status, lines, record, due, tx, delay, failures>>

(* Time passes: next_attempt_at, timeout_at, and the TTL of a message,     *)
(* which is rounded down to milliseconds and so may end before timeout_at. *)
AttemptDue(o) ==
  /\ outbox[o] = "failed"
  /\ outbox' = [outbox EXCEPT ![o] = "pending"]
  /\ UNCHANGED <<rows, stock, intake, status, lines, record, due, tx, brokerVars>>

Deadline(o) ==
  /\ status[o] # "none" /\ o \notin due
  /\ due' = due \cup {o}
  /\ UNCHANGED <<storeVars, tx, brokerVars>>

MessageExpires(o) ==
  /\ delay[o] > 0
  /\ delay' = [delay EXCEPT ![o] = @ - 1]
  /\ ready' = [ready EXCEPT ![o] = @ + 1]
  /\ UNCHANGED <<storeVars, due, tx, hand, pub, failures>>

(* consumeLoop takes a delivery.  CancelExpiredOrder refuses to act before *)
(* timeout_at, has nothing to do unless the order is pending, and else     *)
(* goes on as CancelOrder does.                                            *)
Deliver(o, h) ==
  /\ hand = NoHand /\ ready[o] > 0 /\ tx[h] = NoTx
  /\ ready' = [ready EXCEPT ![o] = @ - 1]
  /\ \/ /\ o \in due /\ status[o] = "pending"
        /\ hand' = [order |-> o, pc |-> "run", by |-> h]
        /\ tx' = [tx EXCEPT ![h] = [op |-> "cancel", pc |-> "order", key |-> NoKey, order |-> o,
                                    items |-> lines[o], write |-> <<>>]]
     \/ /\ o \notin due \/ status[o] # "pending"
        /\ hand' = [order |-> o, pc |-> IF o \in due THEN "ack" ELSE "requeue", by |-> h]
        /\ UNCHANGED tx
  /\ UNCHANGED <<storeVars, due, delay, pub, failures>>

Ack ==
  /\ hand.pc = "ack"
  /\ hand' = NoHand
  /\ UNCHANGED <<storeVars, due, tx, delay, ready, pub, failures>>

(* Mutant of Requeue: the delivery is rejected, not queued again.          *)
RequeueDropped ==
  /\ hand.pc = "requeue"
  /\ hand' = NoHand
  /\ UNCHANGED <<storeVars, due, tx, delay, ready, pub, failures>>

Requeue ==
  /\ hand.pc = "requeue"
  /\ ready' = [ready EXCEPT ![hand.order] = @ + 1]
  /\ hand' = NoHand
  /\ UNCHANGED <<storeVars, due, tx, delay, pub, failures>>

-----------------------------------------------------------------------------
Request(s) ==
  \/ \E k \in Keys, items \in Menu : BeginCreate(s, k, items)
  \/ \E o \in Orders : BeginCancel(s, o)

Transact(s) ==
  \/ LockItem(s) \/ PatchOrder(s) \/ CommitCreate(s) \/ CommitCancel(s) \/ Rollback(s)

Broker ==
  \/ ConnectionCloses \/ MarkPublished \/ MarkFailed \/ Ack \/ Requeue
  \/ \E o \in Orders :
       \/ PublishEvent(o) \/ AttemptDue(o) \/ Deadline(o) \/ MessageExpires(o)
       \/ \E h \in Handlers : Deliver(o, h)

(* One operation per handler.  Requests that a handler turns away, and the *)
(* handlers that only read, change nothing.                                *)
Next ==
  \/ \E p \in Products : AddInventory(p) \/ \E q \in Openings : InitInventory(p, q)
  \/ \E s \in Clients : Request(s)
  \/ \E s \in Sessions : Transact(s)
  \/ \E o \in Orders : PayOrder(o) \/ FinishOrder(o)
  \/ Broker

Spec == Init /\ [][Next]_vars

-----------------------------------------------------------------------------
(* Every piece that was stocked is on the shelf or in an order that was    *)
(* not cancelled, and none is sold that is not there: CreateOrder,         *)
(* CancelOrder, CancelExpiredOrder and AddInventory lose no update of each *)
(* other, and two cancellations of an order give its stock back once.      *)
OrdersExplainStock ==
  \A p \in Products :
    /\ stock[p] >= 0
    /\ intake[p] = stock[p] + Cardinality({o \in Orders :
                     status[o] \in {"pending", "paid", "finished"} /\ p \in Elems(lines[o])})

(* CreateOrder makes one order for a key, with the content that the key    *)
(* was first used with; a repeat finds it there.                           *)
KeyNamesItsOrder ==
  /\ \A k \in Keys : record[k] # NoRecord =>
       status[record[k].order] # "none" /\ record[k].hash = Elems(lines[record[k].order])
  /\ \A o \in Orders : status[o] # "none" => Cardinality({k \in Keys : record[k].order = o}) = 1

(* A pending order has a timeout event that is still to be published, or   *)
(* in the broker, or in the hands of the consumer, through lost            *)
(* confirmations, lost commits and the end of sessions.                    *)
NotForgotten ==
  \A o \in Orders : status[o] = "pending" =>
    outbox[o] \in {"pending", "failed"} \/ delay[o] + ready[o] > 0 \/ hand.order = o

(* PayOrder, FinishOrder and the two cancellations move an order along its *)
(* life and never back: what is paid is not cancelled, and what is         *)
(* cancelled is not paid.                                                  *)
FollowsLife ==
  [][\A o \in Orders : status'[o] # status[o] =>
       <<status[o], status'[o]>> \in {<<"none", "pending">>, <<"pending", "paid">>,
                                      <<"pending", "cancelled">>, <<"paid", "finished">>}]_vars

=============================================================================
