--------------------------- MODULE MonolithProofs ---------------------------
(***************************************************************************)
(* Proofs about the monolith, for any number of products, orders, keys and *)
(* client connections.  The first half is about the database: what a       *)
(* transaction has locked and read still holds when it commits (StoreInv). *)
(* The second is about the outbox, the broker and the consumer (BrokerInv): *)
(* where the timeout of an order that is still pending is to be found.     *)
(***************************************************************************)
EXTENDS Monolith, FiniteSetTheorems, TLAPS

-----------------------------------------------------------------------------
(* The database and its transactions.                                      *)
StoreTypes ==
  /\ rows \subseteq Products
  /\ stock \in [Products -> Nat] /\ intake \in [Products -> Nat]
  /\ status \in [Orders -> {"none", "pending", "paid", "finished", "cancelled"}]
  /\ lines \in [Orders -> Menu \cup {<<>>}]
  /\ \A o \in Orders : status[o] # "none" => lines[o] \in Menu
  /\ record \in [Keys -> [order : Orders, hash : SUBSET Products] \cup {NoRecord}]
  /\ tx \in [Sessions -> Tx \cup {NoTx}]

(* What a transaction read of its order and its key is still so when it    *)
(* has locked them.  Before that only the items of an order are.           *)
TxReads(s) ==
  /\ tx[s].pc = "order" => tx[s].op = "cancel" /\ tx[s].write = <<>>
  /\ tx[s].op = "cancel" => status[tx[s].order] # "none" /\ tx[s].items = lines[tx[s].order]
  /\ tx[s].pc = "item" /\ tx[s].op = "cancel" => status[tx[s].order] = "pending"
  /\ tx[s].pc = "item" /\ tx[s].op = "create" =>
       status[tx[s].order] = "none" /\ tx[s].key \in Keys /\ record[tx[s].key] = NoRecord

(* What it wrote is one piece away from the row that it has locked.        *)
Piece(s) == IF tx[s].op = "create" THEN -1 ELSE 1

TxWrites(s) ==
  /\ Len(tx[s].write) <= Len(tx[s].items)
  /\ \A i \in DOMAIN tx[s].write :
       tx[s].items[i] \in rows /\ tx[s].write[i] = stock[tx[s].items[i]] + Piece(s)

(* No two transactions hold a row, an order or a key.                      *)
Apart(s, t) ==
  /\ Locked(s) \cap Locked(t) = {}
  /\ tx[s].pc = "item" /\ tx[t].pc = "item" =>
       /\ tx[s].order # tx[t].order
       /\ tx[s].op = "create" /\ tx[t].op = "create" => tx[s].key # tx[t].key

(* The orders that hold a piece of a product.                              *)
Holding(p) ==
  {o \in Orders : status[o] \in {"pending", "paid", "finished"} /\ p \in Elems(lines[o])}

Explained ==
  \A p \in Products :
    /\ IsFiniteSet(Holding(p))
    /\ intake[p] = stock[p] + Cardinality(Holding(p))
    /\ p \notin rows => stock[p] = 0 /\ intake[p] = 0
    /\ intake[p] <= MaxIntake[p]

StoreInv ==
  /\ StoreTypes
  /\ \A s \in Sessions : TxReads(s) /\ TxWrites(s)
  /\ \A s, t \in Sessions : s # t => Apart(s, t)
  /\ Explained
  /\ KeyNamesItsOrder

-----------------------------------------------------------------------------
(* The timeout of an order.                                                *)
BrokerTypes ==
  /\ outbox \in [Orders -> {"none", "pending", "failed", "published"}]
  /\ due \subseteq Orders /\ \A o \in due : status[o] # "none"
  /\ delay \in [Orders -> Nat] /\ ready \in [Orders -> Nat]
  /\ hand \in [order : Orders, pc : {"run", "ack", "requeue"}, by : Handlers] \cup {NoHand}
  /\ pub \in [order : Orders, pc : {"confirmed", "failed"}] \cup {NoPub}
  /\ failures \in 0..MaxFailures

(* The broker has a message for the order, or the consumer its delivery.   *)
Waits(o) == delay[o] + ready[o] > 0 \/ hand.order = o

(* A delivery is worked on by the transaction of its handler, and to be    *)
(* acknowledged only when its order is no longer pending.                  *)
HandInv ==
  /\ hand.pc = "run" => tx[hand.by].op = "cancel" /\ tx[hand.by].order = hand.order
  /\ hand.pc = "ack" => status[hand.order] \notin {"none", "pending"}

(* Events are those of orders, and one that was confirmed has a message.   *)
EventInv ==
  /\ \A o \in Orders : outbox[o] # "none" => status[o] # "none"
  /\ pub # NoPub => status[pub.order] # "none"
  /\ pub.pc = "confirmed" /\ status[pub.order] = "pending" => Waits(pub.order)
  /\ \A o \in Orders : status[o] = "pending" => outbox[o] \in {"pending", "failed"} \/ Waits(o)

BrokerInv == BrokerTypes /\ HandInv /\ EventInv

MonolithInv == StoreInv /\ BrokerInv
-----------------------------------------------------------------------------
(* Facts about a transaction that follow from the types.                   *)
LEMMA TxFacts ==
  ASSUME StoreTypes, NEW s \in Sessions
  PROVE  /\ tx[s] \in Tx \/ tx[s] = NoTx
         /\ tx[s].write \in Seq(Nat)
         /\ tx[s].items \in Seq(Products)
         /\ Len(tx[s].write) \in Nat /\ DOMAIN tx[s].write = 1..Len(tx[s].write)
         /\ Len(tx[s].items) \in Nat /\ DOMAIN tx[s].items = 1..Len(tx[s].items)
         /\ \A i, j \in DOMAIN tx[s].items : tx[s].items[i] = tx[s].items[j] => i = j
  <1>1. tx[s] \in Tx \/ tx[s] = NoTx BY Zenon DEF StoreTypes
  <1>2. CASE tx[s] \in Tx
    <2>1. tx[s].write \in Seq(Nat) /\ tx[s].items \in Menu BY <1>2, Zenon DEF Tx
    <2>2. tx[s].items \in Seq(Products)
          /\ \A i, j \in DOMAIN tx[s].items : tx[s].items[i] = tx[s].items[j] => i = j
      BY <2>1, MenuAssumption, Zenon
    <2> QED BY <1>1, <2>1, <2>2
  <1>3. CASE tx[s] = NoTx
    <2>1. tx[s].write = <<>> /\ tx[s].items = <<>> BY <1>3 DEF NoTx
    <2> QED BY <1>1, <2>1
  <1> QED BY <1>1, <1>2, <1>3, Zenon

(* The rows that a transaction has locked are those of its first items.    *)
LEMMA LockedFacts ==
  ASSUME StoreTypes, NEW s \in Sessions, TxWrites(s)
  PROVE  /\ \A i \in DOMAIN tx[s].write : i \in DOMAIN tx[s].items /\ tx[s].items[i] \in Products
         /\ Locked(s) \subseteq rows
  <1>1. \A i \in DOMAIN tx[s].write : i \in DOMAIN tx[s].items /\ tx[s].items[i] \in Products
    BY TxFacts DEF TxWrites
  <1>2. Locked(s) \subseteq rows BY Zenon DEF Locked, TxWrites
  <1> QED BY <1>1, <1>2, Zenon

(* A step of one transaction that commits nothing.                         *)
LEMMA TxMoves ==
  ASSUME StoreInv, NEW s \in Sessions, NEW new \in Tx \cup {NoTx},
         tx' = [tx EXCEPT ![s] = new],
         UNCHANGED <<rows, stock, intake, status, lines, record>>,
         TxReads(s)', TxWrites(s)', \A t \in Sessions : s # t => Apart(s, t)'
  PROVE  StoreInv'
  <1>0. /\ rows' = rows /\ stock' = stock /\ intake' = intake
        /\ status' = status /\ lines' = lines /\ record' = record
    BY Zenon
  <1>1. tx \in [Sessions -> Tx \cup {NoTx}] BY Zenon DEF StoreInv, StoreTypes
  <1>2. \A t \in Sessions : s # t => tx'[t] = tx[t] BY <1>1, Zenon
  <1>3. tx' \in [Sessions -> Tx \cup {NoTx}] BY <1>1, Zenon
  <1>4. StoreTypes' BY <1>0, <1>3, Zenon DEF StoreInv, StoreTypes
  <1>5. ASSUME NEW t \in Sessions PROVE TxReads(t)' /\ TxWrites(t)'
    <2>1. CASE t = s BY <2>1, Zenon
    <2>2. CASE t # s
      <3>1. tx'[t] = tx[t] BY <1>2, <2>2, Zenon
      <3>2. TxReads(t) /\ TxWrites(t) BY Zenon DEF StoreInv
      <3>3. TxReads(t)' BY <1>0, <3>1, <3>2 DEF TxReads
      <3>4. TxWrites(t)' BY <1>0, <3>1, <3>2, Zenon DEF TxWrites, Piece
      <3> QED BY <3>3, <3>4, Zenon
    <2> QED BY <2>1, <2>2, Zenon
  <1>6. ASSUME NEW t \in Sessions, NEW u \in Sessions, t # u PROVE Apart(t, u)'
    <2>1. CASE t = s BY <1>6, <2>1, Zenon
    <2>2. CASE u = s
      <3>1. Apart(u, t)' BY <1>6, <2>2, Zenon
      <3> QED BY <3>1, Zenon DEF Apart
    <2>3. CASE t # s /\ u # s
      <3>1. tx'[t] = tx[t] /\ tx'[u] = tx[u] BY <1>2, <2>3, Zenon
      <3>2. Apart(t, u) BY <1>6, Zenon DEF StoreInv
      <3>3. Locked(t)' = Locked(t) /\ Locked(u)' = Locked(u) BY <3>1, Zenon DEF Locked
      <3> QED BY <3>1, <3>2, <3>3, Zenon DEF Apart
    <2> QED BY <2>1, <2>2, <2>3, Zenon
  <1>7. \A p \in Products : Holding(p)' = Holding(p) BY <1>0, Zenon DEF Holding
  <1>8. Explained' BY <1>0, <1>7, Zenon DEF StoreInv, Explained
  <1>9. KeyNamesItsOrder' BY <1>0, Zenon DEF StoreInv, KeyNamesItsOrder
  <1> QED BY <1>4, <1>5, <1>6, <1>8, <1>9, Zenon DEF StoreInv

(* A transaction ends and commits nothing.                                 *)
LEMMA TxEnds ==
  ASSUME StoreInv, NEW s \in Sessions, tx' = [tx EXCEPT ![s] = NoTx],
         UNCHANGED <<rows, stock, intake, status, lines, record>>
  PROVE  StoreInv'
  <1>1. tx'[s] = NoTx BY Zenon DEF StoreInv, StoreTypes
  <1>2. tx'[s].pc = "idle" /\ tx'[s].op = "none" /\ tx'[s].write = <<>> /\ tx'[s].items = <<>>
    BY <1>1 DEF NoTx
  <1>3. TxReads(s)' BY <1>2, Zenon DEF TxReads
  <1>4. TxWrites(s)' BY <1>2 DEF TxWrites
  <1>5. Locked(s)' = {} BY <1>2 DEF Locked
  <1>6. \A t \in Sessions : Apart(s, t)' BY <1>2, <1>5, Zenon DEF Apart
  <1> QED BY <1>3, <1>4, <1>6, TxMoves, Zenon

(* CancelOrder, or CancelExpiredOrder, has read a pending order.           *)
LEMMA CancelBegins ==
  ASSUME StoreInv, NEW s \in Sessions, NEW o \in Orders, status[o] = "pending",
         tx' = [tx EXCEPT ![s] = [op |-> "cancel", pc |-> "order", key |-> NoKey, order |-> o,
                                  items |-> lines[o], write |-> <<>>]],
         UNCHANGED <<rows, stock, intake, status, lines, record>>
  PROVE  StoreInv'
  <1> DEFINE new == [op |-> "cancel", pc |-> "order", key |-> NoKey, order |-> o,
                     items |-> lines[o], write |-> <<>>]
  <1>0. lines[o] \in Menu BY Zenon DEF StoreInv, StoreTypes
  <1>1. new \in Tx BY <1>0 DEF Tx
  <1>2. tx'[s] = new BY Zenon DEF StoreInv, StoreTypes
  <1>3. tx'[s].pc = "order" /\ tx'[s].op = "cancel" /\ tx'[s].write = <<>>
        /\ tx'[s].order = o /\ tx'[s].items = lines[o]
    BY <1>2
  <1>4. TxReads(s)' BY <1>3, Zenon DEF TxReads
  <1>5. Len(lines[o]) \in Nat BY <1>0, MenuAssumption
  <1>6. TxWrites(s)' BY <1>3, <1>5 DEF TxWrites
  <1>7. Locked(s)' = {} BY <1>3 DEF Locked
  <1>8. \A t \in Sessions : Apart(s, t)' BY <1>3, <1>7, Zenon DEF Apart
  <1> HIDE DEF new
  <1>9. tx' = [tx EXCEPT ![s] = new] BY Zenon DEF new
  <1> QED BY <1>1, <1>9, <1>4, <1>6, <1>8, TxMoves, Zenon
(* BeginCreate: the key and the new order are locked.                      *)
LEMMA CreateBegins ==
  ASSUME StoreInv, NEW s \in Sessions, NEW k \in Keys, NEW items \in Menu,
         BeginCreate(s, k, items)
  PROVE  StoreInv'
  <1>1. PICK o \in Orders :
          /\ status[o] = "none" /\ OrderFree(o)
          /\ tx' = [tx EXCEPT ![s] = [op |-> "create", pc |-> "item", key |-> k, order |-> o,
                                      items |-> items, write |-> <<>>]]
    BY Zenon DEF BeginCreate
  <1>2. /\ rows' = rows /\ stock' = stock /\ intake' = intake
        /\ status' = status /\ lines' = lines /\ record' = record
        /\ KeyFree(k) /\ record[k] = NoRecord
    BY Zenon DEF BeginCreate, storeVars
  <1> DEFINE new == [op |-> "create", pc |-> "item", key |-> k, order |-> o,
                     items |-> items, write |-> <<>>]
  <1>3. new \in Tx BY DEF Tx
  <1>4. tx'[s] = new /\ \A t \in Sessions : s # t => tx'[t] = tx[t]
    BY <1>1, Zenon DEF StoreInv, StoreTypes
  <1>5. tx'[s].pc = "item" /\ tx'[s].op = "create" /\ tx'[s].write = <<>>
        /\ tx'[s].order = o /\ tx'[s].key = k /\ tx'[s].items = items
    BY <1>4
  <1>6. TxReads(s)' BY <1>1, <1>2, <1>5, Zenon DEF TxReads
  <1>7. Len(items) \in Nat BY MenuAssumption
  <1>8. TxWrites(s)' BY <1>5, <1>7 DEF TxWrites
  <1>9. Locked(s)' = {} BY <1>5 DEF Locked
  <1>10. ASSUME NEW t \in Sessions, s # t PROVE Apart(s, t)'
    <2>1. tx'[t] = tx[t] BY <1>4, <1>10, Zenon
    <2>2. ~(tx[t].pc = "item" /\ tx[t].order = o) /\ ~(tx[t].pc = "item" /\ tx[t].key = k)
      BY <1>1, <1>2, Zenon DEF OrderFree, KeyFree
    <2> QED BY <1>5, <1>9, <2>1, <2>2, Zenon DEF Apart
  <1> HIDE DEF new
  <1>11. tx' = [tx EXCEPT ![s] = new] BY <1>1, Zenon DEF new
  <1> QED BY <1>2, <1>3, <1>6, <1>8, <1>10, <1>11, TxMoves, Zenon

(* An item of a list that grew by one is the new one or an earlier one.    *)
LEMMA LastOrBefore ==
  ASSUME NEW n \in Nat, NEW i \in 1..(n + 1)
  PROVE  i \in 1..n \/ i = n + 1
  OBVIOUS

(* LockItem: the row was free, and its stock is what is written from.      *)
LEMMA ItemIsLocked ==
  ASSUME StoreInv, NEW s \in Sessions, LockItem(s)
  PROVE  StoreInv'
  <1>1. StoreTypes /\ TxReads(s) /\ TxWrites(s) BY Zenon DEF StoreInv
  <1> DEFINE n == Len(tx[s].write)
             p == tx[s].items[n + 1]
             after == IF tx[s].op = "create" THEN stock[p] - 1 ELSE stock[p] + 1
             new == [tx[s] EXCEPT !.write = Append(tx[s].write, after)]
  <1>2. /\ rows' = rows /\ stock' = stock /\ intake' = intake
        /\ status' = status /\ lines' = lines /\ record' = record
    BY Zenon DEF LockItem, storeVars
  <1>3. /\ tx[s].pc = "item" /\ n < Len(tx[s].items)
        /\ p \in rows /\ RowFree(p) /\ after >= 0
        /\ tx' = [tx EXCEPT ![s] = new]
    BY ZenonT(30) DEF LockItem
  <1>4. tx[s] \in Tx BY <1>1, <1>3, TxFacts DEF NoTx
  <1>5. p \in Products /\ stock[p] \in Nat BY <1>1, <1>3, ZenonT(30) DEF StoreTypes
  <1>6. after \in Nat BY <1>3, <1>5
  <1>7. tx[s].write \in Seq(Nat) /\ n \in Nat /\ DOMAIN tx[s].write = 1..n
        /\ Len(tx[s].items) \in Nat
    BY <1>1, TxFacts, Zenon
  <1> HIDE DEF after
  <1>8. new \in Tx
    <2>1. Append(tx[s].write, after) \in Seq(Nat) BY <1>6, <1>7
    <2> QED BY <1>4, <2>1, Zenon DEF Tx
  <1>9. tx'[s] = new /\ \A t \in Sessions : s # t => tx'[t] = tx[t]
    BY <1>1, <1>3, Zenon DEF StoreTypes
  <1>10. /\ tx'[s].pc = tx[s].pc /\ tx'[s].op = tx[s].op /\ tx'[s].order = tx[s].order
         /\ tx'[s].key = tx[s].key /\ tx'[s].items = tx[s].items
         /\ tx'[s].write = Append(tx[s].write, after)
    BY <1>4, <1>9, Zenon DEF Tx
  <1>11. TxReads(s)' BY <1>1, <1>2, <1>3, <1>10, Zenon DEF TxReads
  <1>12. /\ DOMAIN tx'[s].write = 1..(n + 1) /\ Len(tx'[s].write) = n + 1
         /\ tx'[s].write[n + 1] = after
         /\ \A i \in 1..n : tx'[s].write[i] = tx[s].write[i]
    BY <1>6, <1>7, <1>10
  <1>13. TxWrites(s)'
    <2>1. Len(tx'[s].write) <= Len(tx'[s].items) BY <1>3, <1>7, <1>10, <1>12
    <2>2. Piece(s)' = Piece(s) BY <1>10, Zenon DEF Piece
    <2>3. ASSUME NEW i \in DOMAIN tx'[s].write
          PROVE  tx'[s].items[i] \in rows' /\ tx'[s].write[i] = stock'[tx'[s].items[i]] + Piece(s)'
      <3>1. CASE i = n + 1
        <4>1. after = stock[p] + Piece(s) BY <1>5, Zenon DEF after, Piece
        <4>2. tx'[s].items[i] = p BY <1>10, <3>1, Zenon
        <4>3. tx'[s].write[i] = after BY <1>12, <3>1, Zenon
        <4>4. tx'[s].items[i] \in rows' BY <1>2, <1>3, <4>2
        <4>5. stock'[tx'[s].items[i]] + Piece(s)' = stock[p] + Piece(s)
          BY <1>2, <2>2, <4>2, Zenon
        <4> QED BY <4>1, <4>3, <4>4, <4>5, Zenon
      <3>2. CASE i \in 1..n
        <4>1. tx[s].items[i] \in rows /\ tx[s].write[i] = stock[tx[s].items[i]] + Piece(s)
          BY <1>1, <1>7, <3>2, Zenon DEF TxWrites
        <4> QED BY <1>2, <1>10, <1>12, <2>2, <3>2, <4>1, Zenon
      <3>3. i \in 1..(n + 1) BY <1>12, Zenon
      <3>4. i \in 1..n \/ i = n + 1 BY <1>7, <3>3, LastOrBefore, Zenon
      <3> QED BY <3>1, <3>2, <3>4, Zenon
    <2> QED BY <2>1, <2>3, Zenon DEF TxWrites
  <1>14. Locked(s)' = Locked(s) \cup {p}
    <2>1. Locked(s)' = {tx[s].items[i] : i \in 1..(n + 1)} BY <1>10, <1>12, Zenon DEF Locked
    <2>2. Locked(s) = {tx[s].items[i] : i \in 1..n} BY <1>7, Zenon DEF Locked
    <2>3. 1..(n + 1) = 1..n \cup {n + 1} BY <1>7
    <2> QED BY <2>1, <2>2, <2>3, Zenon
  <1>15. ASSUME NEW t \in Sessions, s # t PROVE Apart(s, t)'
    <2>1. tx'[t] = tx[t] BY <1>9, <1>15, Zenon
    <2>2. Locked(t)' = Locked(t) BY <2>1, Zenon DEF Locked
    <2>3. p \notin Locked(t) BY <1>3, Zenon DEF RowFree
    <2>4. Apart(s, t) BY <1>15, Zenon DEF StoreInv
    <2>5. Locked(s)' \cap Locked(t)' = {} BY <1>14, <2>2, <2>3, <2>4, Zenon DEF Apart
    <2> QED BY <1>10, <2>1, <2>4, <2>5, Zenon DEF Apart
  <1> HIDE DEF new
  <1> QED BY <1>2, <1>3, <1>8, <1>11, <1>13, <1>15, TxMoves, Zenon

(* PatchOrder, when the order still is pending: the order is locked.       *)
LEMMA OrderIsLocked ==
  ASSUME StoreInv, NEW s \in Sessions, tx[s].pc = "order", OrderFree(tx[s].order),
         status[tx[s].order] = "pending", tx' = [tx EXCEPT ![s].pc = "item"],
         UNCHANGED <<rows, stock, intake, status, lines, record>>
  PROVE  StoreInv'
  <1> DEFINE new == [tx[s] EXCEPT !.pc = "item"]
  <1>1. StoreTypes /\ TxReads(s) /\ TxWrites(s) BY Zenon DEF StoreInv
  <1>2. tx[s] \in Tx BY <1>1, TxFacts DEF NoTx
  <1>3. new \in Tx BY <1>2, Zenon DEF Tx
  <1>4. tx'[s] = new /\ \A t \in Sessions : s # t => tx'[t] = tx[t]
    BY <1>1, Zenon DEF StoreTypes
  <1>5. /\ tx'[s].pc = "item" /\ tx'[s].op = tx[s].op /\ tx'[s].order = tx[s].order
        /\ tx'[s].key = tx[s].key /\ tx'[s].items = tx[s].items /\ tx'[s].write = tx[s].write
    BY <1>2, <1>4 DEF Tx
  <1>6. tx[s].op = "cancel" /\ tx[s].write = <<>> BY <1>1, Zenon DEF TxReads
  <1>7. TxReads(s)' BY <1>1, <1>5, <1>6, Zenon DEF TxReads
  <1>8. TxWrites(s)' BY <1>1, <1>5, <1>6 DEF TxWrites
  <1>9. Locked(s)' = {} BY <1>5, <1>6 DEF Locked
  <1>10. ASSUME NEW t \in Sessions, s # t PROVE Apart(s, t)'
    <2>1. tx'[t] = tx[t] BY <1>4, <1>10, Zenon
    <2>2. ~(tx[t].pc = "item" /\ tx[t].order = tx[s].order) BY Zenon DEF OrderFree
    <2> QED BY <1>5, <1>6, <1>9, <2>1, <2>2, Zenon DEF Apart
  <1>11. tx' = [tx EXCEPT ![s] = new] BY Zenon
  <1> HIDE DEF new
  <1> QED BY <1>3, <1>7, <1>8, <1>10, <1>11, TxMoves, Zenon
(* InitInventory and AddInventory: nobody has the row locked.              *)
LEMMA StockArrives ==
  ASSUME StoreInv, NEW p \in Products, NEW n \in Nat, RowFree(p),
         rows' = rows \cup {p}, intake[p] + n <= MaxIntake[p],
         stock' = [stock EXCEPT ![p] = stock[p] + n],
         intake' = [intake EXCEPT ![p] = intake[p] + n],
         status' = status, lines' = lines, record' = record, tx' = tx
  PROVE  StoreInv'
  <1>1. StoreTypes BY Zenon DEF StoreInv
  <1>2. /\ stock' \in [Products -> Nat] /\ intake' \in [Products -> Nat]
        /\ stock'[p] = stock[p] + n /\ intake'[p] = intake[p] + n
        /\ \A q \in Products : q # p => stock'[q] = stock[q] /\ intake'[q] = intake[q]
    BY <1>1 DEF StoreTypes
  <1>3. rows' \subseteq Products BY <1>1, Zenon DEF StoreTypes
  <1>4. StoreTypes' BY <1>1, <1>2, <1>3, Zenon DEF StoreTypes
  <1>5. ASSUME NEW t \in Sessions PROVE TxReads(t)' /\ TxWrites(t)'
    <2>1. TxReads(t) /\ TxWrites(t) BY Zenon DEF StoreInv
    <2>2. TxReads(t)' BY <2>1, Zenon DEF TxReads
    <2>3. ASSUME NEW i \in DOMAIN tx[t].write
          PROVE  tx[t].items[i] \in rows' /\ stock'[tx[t].items[i]] = stock[tx[t].items[i]]
      <3>1. tx[t].items[i] \in Products BY <1>1, <2>1, LockedFacts, Zenon
      <3>2. tx[t].items[i] # p BY Zenon DEF RowFree, Locked
      <3>3. tx[t].items[i] \in rows BY <2>1, Zenon DEF TxWrites
      <3> QED BY <1>2, <3>1, <3>2, <3>3, Zenon
    <2>4. TxWrites(t)' BY <2>1, <2>3, ZenonT(30) DEF TxWrites, Piece
    <2> QED BY <2>2, <2>4, Zenon
  <1>6. ASSUME NEW t \in Sessions, NEW u \in Sessions, t # u PROVE Apart(t, u)'
    <2>1. Apart(t, u) BY <1>6, Zenon DEF StoreInv
    <2>2. Locked(t)' = Locked(t) /\ Locked(u)' = Locked(u) BY Zenon DEF Locked
    <2> QED BY <2>1, <2>2, Zenon DEF Apart
  <1>7. ASSUME NEW q \in Products
        PROVE  /\ IsFiniteSet(Holding(q)')
               /\ intake'[q] = stock'[q] + Cardinality(Holding(q)')
               /\ q \notin rows' => stock'[q] = 0 /\ intake'[q] = 0
               /\ intake'[q] <= MaxIntake[q]
    <2>1. Holding(q)' = Holding(q) BY Zenon DEF Holding
    <2>2. /\ IsFiniteSet(Holding(q)) /\ intake[q] = stock[q] + Cardinality(Holding(q))
          /\ q \notin rows => stock[q] = 0 /\ intake[q] = 0
          /\ intake[q] <= MaxIntake[q]
      BY Zenon DEF StoreInv, Explained
    <2>3. Cardinality(Holding(q)) \in Nat BY <2>2, FS_CardinalityType, Zenon
    <2>4. stock[q] \in Nat /\ intake[q] \in Nat BY <1>1, Zenon DEF StoreTypes
    <2>5. CASE q = p BY <1>2, <2>1, <2>2, <2>3, <2>4, <2>5
    <2>6. CASE q # p BY <1>2, <2>1, <2>2, <2>6, Zenon
    <2> QED BY <2>5, <2>6, Zenon
  <1>8. Explained' BY <1>7, Zenon DEF Explained
  <1>9. KeyNamesItsOrder' BY Zenon DEF StoreInv, KeyNamesItsOrder
  <1> QED BY <1>4, <1>5, <1>6, <1>8, <1>9, Zenon DEF StoreInv

(* What the commit of a transaction does to the stock: one piece of each   *)
(* of its items, and nothing that another transaction has locked.          *)
LEMMA CommitMoves ==
  ASSUME StoreInv, NEW s \in Sessions, CommitStock(s)
  PROVE  /\ tx[s] \in Tx
         /\ stock' \in [Products -> Nat]
         /\ \A p \in Products : p \in Elems(tx[s].items) =>
              p \in rows /\ stock'[p] = stock[p] + Piece(s)
         /\ \A p \in Products : p \notin Elems(tx[s].items) => stock'[p] = stock[p]
         /\ Elems(tx[s].items) = Locked(s)
  <1>1. StoreTypes /\ TxReads(s) /\ TxWrites(s) BY Zenon DEF StoreInv
  <1>2. tx[s].pc = "item" /\ Len(tx[s].write) = Len(tx[s].items) BY Zenon DEF CommitStock
  <1>3. tx[s] \in Tx BY <1>1, <1>2, TxFacts DEF NoTx
  <1>4. DOMAIN tx[s].items = DOMAIN tx[s].write /\ tx[s].write \in Seq(Nat)
        /\ \A i, j \in DOMAIN tx[s].items : tx[s].items[i] = tx[s].items[j] => i = j
    BY <1>1, <1>2, TxFacts, Zenon
  <1>5. Elems(tx[s].items) = Locked(s) BY <1>4, Zenon DEF Elems, Locked
  <1>6. ASSUME NEW p \in Products, p \in Locked(s)
        PROVE  p \in rows /\ stock'[p] = stock[p] + Piece(s) /\ stock'[p] \in Nat
    <2> DEFINE i == CHOOSE i \in DOMAIN tx[s].items : tx[s].items[i] = p
    <2>1. i \in DOMAIN tx[s].items /\ tx[s].items[i] = p BY <1>4, <1>6, Zenon DEF Locked
    <2> HIDE DEF i
    <2>2. stock'[p] = tx[s].write[i] BY <1>6, Zenon DEF CommitStock, i
    <2>3. tx[s].write[i] = stock[p] + Piece(s) /\ p \in rows
      BY <1>1, <1>4, <2>1, Zenon DEF TxWrites
    <2>4. tx[s].write[i] \in Nat BY <1>4, <2>1
    <2> QED BY <2>2, <2>3, <2>4, Zenon
  <1>7. ASSUME NEW p \in Products, p \notin Locked(s) PROVE stock'[p] = stock[p]
    BY <1>7, Zenon DEF CommitStock
  <1>8. stock' \in [Products -> Nat]
    <2>1. \A p \in Products : stock'[p] \in Nat BY <1>1, <1>6, <1>7, Zenon DEF StoreTypes
    <2>2. stock' = [p \in Products |-> stock'[p]] BY DEF CommitStock
    <2> QED BY <2>1, <2>2, Zenon
  <1> QED BY <1>3, <1>5, <1>6, <1>7, <1>8, Zenon
(* A commit leaves the other transactions what they have read and written. *)
LEMMA OthersStay ==
  ASSUME StoreInv, NEW s \in Sessions, CommitStock(s), tx' = [tx EXCEPT ![s] = NoTx],
         rows' = rows, \A t \in Sessions : t # s => TxReads(t)'
  PROVE  /\ tx' \in [Sessions -> Tx \cup {NoTx}]
         /\ \A t \in Sessions : TxReads(t)' /\ TxWrites(t)'
         /\ \A t, u \in Sessions : t # u => Apart(t, u)'
  <1>1. StoreTypes BY Zenon DEF StoreInv
  <1>2. tx' \in [Sessions -> Tx \cup {NoTx}] /\ tx'[s] = NoTx
        /\ \A t \in Sessions : t # s => tx'[t] = tx[t]
    BY <1>1, Zenon DEF StoreTypes
  <1>3. tx'[s].pc = "idle" /\ tx'[s].op = "none" /\ tx'[s].write = <<>> /\ tx'[s].items = <<>>
    BY <1>2, Zenon DEF NoTx
  <1>4. TxReads(s)' BY <1>3, Zenon DEF TxReads
  <1>5. TxWrites(s)' BY <1>3 DEF TxWrites
  <1>6. Locked(s)' = {} BY <1>3 DEF Locked
  <1>7. ASSUME NEW t \in Sessions, t # s PROVE TxWrites(t)'
    <2>1. tx'[t] = tx[t] BY <1>2, <1>7, Zenon
    <2>2. TxWrites(t) /\ Apart(s, t) BY <1>7, Zenon DEF StoreInv
    <2>3. ASSUME NEW i \in DOMAIN tx[t].write
          PROVE  stock'[tx[t].items[i]] = stock[tx[t].items[i]]
      <3>1. tx[t].items[i] \in Products BY <1>1, <2>2, LockedFacts, Zenon
      <3>2. tx[t].items[i] \in Locked(t) BY Zenon DEF Locked
      <3>3. tx[t].items[i] \notin Locked(s) BY <2>2, <3>2, Zenon DEF Apart
      <3> QED BY <3>1, <3>3, CommitMoves, Zenon
    <2>4. Piece(t)' = Piece(t) BY <2>1, Zenon DEF Piece
    <2>5. ASSUME NEW i \in DOMAIN tx'[t].write
          PROVE  tx'[t].items[i] \in rows' /\ tx'[t].write[i] = stock'[tx'[t].items[i]] + Piece(t)'
      <3>1. tx[t].items[i] \in rows /\ tx[t].write[i] = stock[tx[t].items[i]] + Piece(t)
        BY <2>1, <2>2, Zenon DEF TxWrites
      <3>2. stock'[tx[t].items[i]] = stock[tx[t].items[i]] BY <2>1, <2>3, Zenon
      <3> QED BY <2>1, <2>4, <3>1, <3>2
    <2>6. Len(tx'[t].write) <= Len(tx'[t].items) BY <2>1, <2>2, Zenon DEF TxWrites
    <2> QED BY <2>5, <2>6, Zenon DEF TxWrites
  <1>8. ASSUME NEW t \in Sessions, NEW u \in Sessions, t # u PROVE Apart(t, u)'
    <2>1. CASE t = s BY <1>3, <1>6, <2>1, Zenon DEF Apart
    <2>2. CASE u = s BY <1>3, <1>6, <2>2, Zenon DEF Apart
    <2>3. CASE t # s /\ u # s
      <3>1. tx'[t] = tx[t] /\ tx'[u] = tx[u] BY <1>2, <2>3, Zenon
      <3>2. Apart(t, u) BY <1>8, Zenon DEF StoreInv
      <3>3. Locked(t)' = Locked(t) /\ Locked(u)' = Locked(u) BY <3>1, Zenon DEF Locked
      <3> QED BY <3>1, <3>2, <3>3, Zenon DEF Apart
    <2> QED BY <2>1, <2>2, <2>3, Zenon
  <1> QED BY <1>2, <1>4, <1>5, <1>7, <1>8, Zenon

LEMMA OneMore ==
  ASSUME NEW S, NEW T, NEW x, IsFiniteSet(S), x \notin S, T = S \cup {x}
  PROVE  IsFiniteSet(T) /\ Cardinality(T) = Cardinality(S) + 1
  BY FS_AddElement

(* CommitCreate.                                                           *)
LEMMA CreateCommits ==
  ASSUME StoreInv, NEW s \in Sessions, CommitCreate(s)
  PROVE  StoreInv'
  <1> DEFINE o == tx[s].order
             k == tx[s].key
             items == tx[s].items
  <1>1. StoreTypes /\ TxReads(s) /\ TxWrites(s) BY Zenon DEF StoreInv
  <1>2. /\ tx[s].op = "create" /\ CommitStock(s)
        /\ status' = [status EXCEPT ![o] = "pending"]
        /\ lines' = [lines EXCEPT ![o] = items]
        /\ record' = [record EXCEPT ![k] = [order |-> o, hash |-> Elems(items)]]
        /\ tx' = [tx EXCEPT ![s] = NoTx] /\ rows' = rows /\ intake' = intake
    BY Zenon DEF CommitCreate, End
  <1>3. tx[s] \in Tx /\ stock' \in [Products -> Nat] BY <1>2, CommitMoves, Zenon
  <1>4. tx[s].pc = "item" BY <1>2, Zenon DEF CommitStock
  <1>5. status[o] = "none" /\ k \in Keys /\ record[k] = NoRecord
    BY <1>1, <1>2, <1>4, Zenon DEF TxReads
  <1>6. o \in Orders /\ items \in Menu BY <1>3, Zenon DEF Tx
  <1>7. /\ status'[o] = "pending" /\ lines'[o] = items
        /\ \A u \in Orders : u # o => status'[u] = status[u] /\ lines'[u] = lines[u]
        /\ status' \in [Orders -> {"none", "pending", "paid", "finished", "cancelled"}]
        /\ lines' \in [Orders -> Menu \cup {<<>>}]
    BY <1>1, <1>2, <1>6, Zenon DEF StoreTypes
  <1>8. Elems(items) \subseteq Products BY <1>6, MenuAssumption DEF Elems
  <1>9. /\ record'[k] = [order |-> o, hash |-> Elems(items)]
        /\ \A j \in Keys : j # k => record'[j] = record[j]
        /\ record' \in [Keys -> [order : Orders, hash : SUBSET Products] \cup {NoRecord}]
    BY <1>1, <1>2, <1>5, <1>6, <1>8, Zenon DEF StoreTypes
  <1>10. ASSUME NEW t \in Sessions, t # s PROVE TxReads(t)'
    <2>1. tx'[t] = tx[t] BY <1>1, <1>2, <1>10, Zenon DEF StoreTypes
    <2>2. TxReads(t) /\ Apart(s, t) BY <1>10, Zenon DEF StoreInv
    <2>3. tx[t] \in Tx \/ tx[t] = NoTx BY <1>1, TxFacts, Zenon
    <2>4. CASE tx[t].op = "cancel"
      <3>1. tx[t].order \in Orders BY <2>3, <2>4 DEF Tx, NoTx
      <3>2. tx[t].order # o BY <1>5, <2>2, <2>4, Zenon DEF TxReads
      <3>3. status'[tx[t].order] = status[tx[t].order] /\ lines'[tx[t].order] = lines[tx[t].order]
        BY <1>7, <3>1, <3>2, Zenon
      <3> QED BY <2>1, <2>2, <2>4, <3>3, Zenon DEF TxReads
    <2>5. CASE tx[t].op # "cancel" /\ tx[t].pc = "item" /\ tx[t].op = "create"
      <3>1. tx[t].order \in Orders BY <2>3, <2>5 DEF Tx, NoTx
      <3>2. tx[t].order # o /\ tx[t].key # k BY <1>2, <1>4, <2>2, <2>5, Zenon DEF Apart
      <3>3. tx[t].key \in Keys /\ record[tx[t].key] = NoRecord /\ status[tx[t].order] = "none"
        BY <2>2, <2>5, Zenon DEF TxReads
      <3>4. record'[tx[t].key] = NoRecord /\ status'[tx[t].order] = "none"
        BY <1>7, <1>9, <3>1, <3>2, <3>3, Zenon
      <3> QED BY <2>1, <2>2, <2>5, <3>3, <3>4, Zenon DEF TxReads
    <2>6. CASE tx[t].op # "cancel" /\ ~(tx[t].pc = "item" /\ tx[t].op = "create")
      BY <2>1, <2>2, <2>6, Zenon DEF TxReads
    <2> QED BY <2>4, <2>5, <2>6, Zenon
  <1>11. /\ tx' \in [Sessions -> Tx \cup {NoTx}]
         /\ \A t \in Sessions : TxReads(t)' /\ TxWrites(t)'
         /\ \A t, u \in Sessions : t # u => Apart(t, u)'
    BY <1>2, <1>10, OthersStay, Zenon
  <1>12. \A u \in Orders : status'[u] # "none" => lines'[u] \in Menu
    BY <1>1, <1>6, <1>7, Zenon DEF StoreTypes
  <1>13. StoreTypes' BY <1>1, <1>2, <1>3, <1>7, <1>9, <1>11, <1>12, Zenon DEF StoreTypes
  <1>14. ASSUME NEW p \in Products
         PROVE  /\ IsFiniteSet(Holding(p)')
                /\ intake'[p] = stock'[p] + Cardinality(Holding(p)')
                /\ p \notin rows' => stock'[p] = 0 /\ intake'[p] = 0
                /\ intake'[p] <= MaxIntake[p]
    <2>1. /\ IsFiniteSet(Holding(p)) /\ intake[p] = stock[p] + Cardinality(Holding(p))
          /\ p \notin rows => stock[p] = 0 /\ intake[p] = 0
          /\ intake[p] <= MaxIntake[p]
      BY Zenon DEF StoreInv, Explained
    <2>2. Cardinality(Holding(p)) \in Nat /\ stock[p] \in Nat
      BY <1>1, <2>1, FS_CardinalityType, Zenon DEF StoreTypes
    <2>3. o \notin Holding(p) /\ \A u \in Orders : u # o => (u \in Holding(p)' <=> u \in Holding(p))
      BY <1>5, <1>7, Zenon DEF Holding
    <2>4. o \in Holding(p)' <=> p \in Elems(items) BY <1>6, <1>7, Zenon DEF Holding
    <2>5. Holding(p) \subseteq Orders /\ Holding(p)' \subseteq Orders BY Zenon DEF Holding
    <2>6. CASE p \in Elems(items)
      <3>1. Holding(p)' = Holding(p) \cup {o} BY <1>6, <2>3, <2>4, <2>5, <2>6, Zenon
      <3>2. IsFiniteSet(Holding(p)') /\ Cardinality(Holding(p)') = Cardinality(Holding(p)) + 1
        BY <2>1, <2>3, <3>1, OneMore, Zenon
      <3>3. p \in rows /\ stock'[p] = stock[p] + Piece(s) BY <1>2, <2>6, CommitMoves, Zenon
      <3>4. Piece(s) = -1 BY <1>2, Zenon DEF Piece
      <3> QED BY <1>2, <2>1, <2>2, <3>2, <3>3, <3>4
    <2>7. CASE p \notin Elems(items)
      <3>1. Holding(p)' = Holding(p) BY <1>6, <2>3, <2>4, <2>5, <2>7
      <3>2. stock'[p] = stock[p] BY <1>2, <2>7, CommitMoves, Zenon
      <3> QED BY <1>2, <2>1, <3>1, <3>2, Zenon
    <2> QED BY <2>6, <2>7, Zenon
  <1>15. Explained' BY <1>14, Zenon DEF Explained
  <1>16. KeyNamesItsOrder'
    <2>1. KeyNamesItsOrder BY Zenon DEF StoreInv
    <2>2. ASSUME NEW j \in Keys, j # k, record[j] # NoRecord
          PROVE  record[j].order \in Orders /\ record[j].order # o
      <3>1. record[j].order \in Orders BY <1>1, <2>2, Zenon DEF StoreTypes
      <3>2. status[record[j].order] # "none" BY <2>1, <2>2, Zenon DEF KeyNamesItsOrder
      <3> QED BY <1>5, <3>1, <3>2, Zenon
    <2>3. ASSUME NEW j \in Keys, record'[j] # NoRecord
          PROVE  status'[record'[j].order] # "none" /\ record'[j].hash = Elems(lines'[record'[j].order])
      <3>1. CASE j = k BY <1>7, <1>9, <3>1
      <3>2. CASE j # k
        <4>1. record'[j] = record[j] BY <1>9, <3>2, Zenon
        <4>2. record[j].order \in Orders /\ record[j].order # o
          BY <2>2, <2>3, <3>2, <4>1, Zenon
        <4>3. status[record[j].order] # "none" /\ record[j].hash = Elems(lines[record[j].order])
          BY <2>1, <2>3, <4>1, Zenon DEF KeyNamesItsOrder
        <4>4. status'[record[j].order] = status[record[j].order]
              /\ lines'[record[j].order] = lines[record[j].order]
          BY <1>7, <4>2, Zenon
        <4> QED BY <4>1, <4>3, <4>4, Zenon
      <3> QED BY <3>1, <3>2, Zenon
    <2>4. ASSUME NEW j \in Keys PROVE record'[j].order = o <=> j = k
      <3>1. CASE j = k BY <1>9, <3>1
      <3>2. CASE j # k /\ record[j] = NoRecord
        <4>1. record'[j].order = NoOrder BY <1>9, <3>2 DEF NoRecord
        <4> QED BY <1>6, <3>2, <4>1, NoOrderAssumption, Zenon
      <3>3. CASE j # k /\ record[j] # NoRecord BY <1>9, <2>2, <3>3, Zenon
      <3> QED BY <3>1, <3>2, <3>3, Zenon
    <2>5. Cardinality({j \in Keys : record'[j].order = o}) = 1
      <3>1. {j \in Keys : record'[j].order = o} = {k} BY <1>5, <2>4, Zenon
      <3> QED BY <3>1, FS_Singleton, Zenon
    <2>6. ASSUME NEW u \in Orders, status'[u] # "none"
          PROVE  Cardinality({j \in Keys : record'[j].order = u}) = 1
      <3>1. CASE u = o BY <2>5, <3>1, Zenon
      <3>2. CASE u # o
        <4>1. record[k].order # u BY <1>5, NoOrderAssumption DEF NoRecord
        <4>2. record'[k].order # u BY <1>9, <3>2
        <4>3. \A j \in Keys : record'[j].order = u <=> record[j].order = u
          BY <1>9, <4>1, <4>2, Zenon
        <4>4. {j \in Keys : record'[j].order = u} = {j \in Keys : record[j].order = u}
          BY <4>3, Zenon
        <4>5. Cardinality({j \in Keys : record[j].order = u}) = 1
          BY <1>7, <2>1, <2>6, <3>2, Zenon DEF KeyNamesItsOrder
        <4> QED BY <4>4, <4>5, Zenon
      <3> QED BY <3>1, <3>2, Zenon
    <2> QED BY <2>3, <2>6, Zenon DEF KeyNamesItsOrder
  <1> QED BY <1>11, <1>13, <1>15, <1>16, Zenon DEF StoreInv

(* A step that leaves the order of a transaction as it was if that is      *)
(* locked, and does not make it new.                                       *)
LEMMA ReadsStay ==
  ASSUME NEW t \in Sessions, TxReads(t), tx[t] \in Tx \/ tx[t] = NoTx, tx'[t] = tx[t],
         lines' = lines, record' = record,
         tx[t] \in Tx =>
           /\ tx[t].pc = "item" => status'[tx[t].order] = status[tx[t].order]
           /\ status'[tx[t].order] = "none" => status[tx[t].order] = "none"
  PROVE  TxReads(t)'
  <1>1. CASE tx[t] \in Tx BY <1>1, Zenon DEF TxReads
  <1>2. CASE tx[t] = NoTx
    <2>1. tx'[t].pc = "idle" /\ tx'[t].op = "none" BY <1>2 DEF NoTx
    <2> QED BY <2>1, Zenon DEF TxReads
  <1> QED BY <1>1, <1>2, Zenon

(* CommitCancel: only a pending order, and its items once.                 *)
LEMMA CancelCommits ==
  ASSUME StoreInv, NEW s \in Sessions, CommitCancel(s)
  PROVE  StoreInv'
  <1> DEFINE o == tx[s].order
  <1>1. StoreTypes /\ TxReads(s) BY Zenon DEF StoreInv
  <1>2. /\ tx[s].op = "cancel" /\ CommitStock(s)
        /\ status' = [status EXCEPT ![o] = "cancelled"]
        /\ lines' = lines /\ record' = record
        /\ tx' = [tx EXCEPT ![s] = NoTx] /\ rows' = rows /\ intake' = intake
    BY Zenon DEF CommitCancel, End
  <1>3. tx[s] \in Tx /\ stock' \in [Products -> Nat] BY <1>2, CommitMoves, Zenon
  <1>4. tx[s].pc = "item" BY <1>2, Zenon DEF CommitStock
  <1>5. status[o] = "pending" /\ tx[s].items = lines[o]
    BY <1>1, <1>2, <1>4, Zenon DEF TxReads
  <1>6. o \in Orders BY <1>3, Zenon DEF Tx
  <1>7. /\ status'[o] = "cancelled"
        /\ \A u \in Orders : u # o => status'[u] = status[u]
        /\ status' \in [Orders -> {"none", "pending", "paid", "finished", "cancelled"}]
    BY <1>1, <1>2, <1>6, Zenon DEF StoreTypes
  <1>8. \A u \in Orders : status'[u] = "none" <=> status[u] = "none"
    BY <1>5, <1>7, Zenon
  <1>9. ASSUME NEW t \in Sessions, t # s PROVE TxReads(t)'
    <2>1. tx'[t] = tx[t] BY <1>1, <1>2, <1>9, Zenon DEF StoreTypes
    <2>2. TxReads(t) /\ Apart(s, t) BY <1>9, Zenon DEF StoreInv
    <2>3. tx[t] \in Tx \/ tx[t] = NoTx BY <1>1, TxFacts, Zenon
    <2>4. ASSUME tx[t] \in Tx
          PROVE  /\ tx[t].pc = "item" => status'[tx[t].order] = status[tx[t].order]
                 /\ status'[tx[t].order] = "none" => status[tx[t].order] = "none"
      <3>1. tx[t].order \in Orders BY <2>4, Zenon DEF Tx
      <3>2. tx[t].pc = "item" => tx[t].order # o BY <1>4, <2>2, Zenon DEF Apart
      <3> QED BY <1>7, <1>8, <3>1, <3>2, Zenon
    <2> QED BY <1>2, <2>1, <2>2, <2>3, <2>4, ReadsStay, Zenon
  <1>10. /\ tx' \in [Sessions -> Tx \cup {NoTx}]
         /\ \A t \in Sessions : TxReads(t)' /\ TxWrites(t)'
         /\ \A t, u \in Sessions : t # u => Apart(t, u)'
    BY <1>2, <1>9, OthersStay, Zenon
  <1>11. \A u \in Orders : status'[u] # "none" => lines'[u] \in Menu
    BY <1>1, <1>2, <1>8, Zenon DEF StoreTypes
  <1>12. StoreTypes' BY <1>1, <1>2, <1>3, <1>7, <1>10, <1>11, Zenon DEF StoreTypes
  <1>13. ASSUME NEW p \in Products
         PROVE  /\ IsFiniteSet(Holding(p)')
                /\ intake'[p] = stock'[p] + Cardinality(Holding(p)')
                /\ p \notin rows' => stock'[p] = 0 /\ intake'[p] = 0
                /\ intake'[p] <= MaxIntake[p]
    <2>1. /\ IsFiniteSet(Holding(p)) /\ intake[p] = stock[p] + Cardinality(Holding(p))
          /\ p \notin rows => stock[p] = 0 /\ intake[p] = 0
          /\ intake[p] <= MaxIntake[p]
      BY Zenon DEF StoreInv, Explained
    <2>2. Cardinality(Holding(p)) \in Nat /\ stock[p] \in Nat
      BY <1>1, <2>1, FS_CardinalityType, Zenon DEF StoreTypes
    <2>3. o \notin Holding(p)' /\ \A u \in Orders : u # o => (u \in Holding(p)' <=> u \in Holding(p))
      BY <1>2, <1>7, Zenon DEF Holding
    <2>4. o \in Holding(p) <=> p \in Elems(tx[s].items) BY <1>5, <1>6, Zenon DEF Holding
    <2>5. Holding(p) \subseteq Orders /\ Holding(p)' \subseteq Orders BY Zenon DEF Holding
    <2>6. CASE p \in Elems(tx[s].items)
      <3>1. Holding(p)' = Holding(p) \ {o} BY <1>6, <2>3, <2>4, <2>5, <2>6, Zenon
      <3>2. IsFiniteSet(Holding(p)') /\ Cardinality(Holding(p)') = Cardinality(Holding(p)) - 1
        BY <2>1, <2>4, <2>6, <3>1, FS_RemoveElement, ZenonT(30)
      <3>3. p \in rows /\ stock'[p] = stock[p] + Piece(s) BY <1>2, <2>6, CommitMoves, Zenon
      <3>4. Piece(s) = 1 BY <1>2, Zenon DEF Piece
      <3> QED BY <1>2, <2>1, <2>2, <3>2, <3>3, <3>4
    <2>7. CASE p \notin Elems(tx[s].items)
      <3>1. Holding(p)' = Holding(p) BY <1>6, <2>3, <2>4, <2>5, <2>7
      <3>2. stock'[p] = stock[p] BY <1>2, <2>7, CommitMoves, Zenon
      <3> QED BY <1>2, <2>1, <3>1, <3>2, Zenon
    <2> QED BY <2>6, <2>7, Zenon
  <1>14. Explained' BY <1>13, Zenon DEF Explained
  <1>15. KeyNamesItsOrder'
    <2>1. KeyNamesItsOrder BY Zenon DEF StoreInv
    <2>2. ASSUME NEW k \in Keys, record[k] # NoRecord PROVE record[k].order \in Orders
      BY <1>1, <2>2, Zenon DEF StoreTypes
    <2> QED BY <1>2, <1>8, <2>1, <2>2, Zenon DEF KeyNamesItsOrder
  <1> QED BY <1>10, <1>12, <1>14, <1>15, Zenon DEF StoreInv

(* PayOrder and FinishOrder: no transaction holds the order.               *)
LEMMA StatusMoves ==
  ASSUME StoreInv, NEW o \in Orders, NEW new \in {"paid", "finished"}, OrderFree(o),
         status[o] \in {"pending", "paid"}, status' = [status EXCEPT ![o] = new],
         rows' = rows, stock' = stock, intake' = intake, lines' = lines, record' = record,
         tx' = tx
  PROVE  StoreInv'
  <1>1. StoreTypes BY Zenon DEF StoreInv
  <1>2. /\ status'[o] = new /\ \A u \in Orders : u # o => status'[u] = status[u]
        /\ status' \in [Orders -> {"none", "pending", "paid", "finished", "cancelled"}]
    BY <1>1, Zenon DEF StoreTypes
  <1>3. \A u \in Orders : status'[u] = "none" <=> status[u] = "none" BY <1>2, Zenon
  <1>4. \A u \in Orders : status'[u] \in {"pending", "paid", "finished"}
                            <=> status[u] \in {"pending", "paid", "finished"}
    BY <1>2, Zenon
  <1>5. StoreTypes' BY <1>1, <1>2, <1>3, Zenon DEF StoreTypes
  <1>6. ASSUME NEW t \in Sessions PROVE TxReads(t)' /\ TxWrites(t)'
    <2>1. TxReads(t) /\ TxWrites(t) BY Zenon DEF StoreInv
    <2>2. tx[t] \in Tx \/ tx[t] = NoTx BY <1>1, TxFacts, Zenon
    <2>3. ASSUME tx[t] \in Tx
          PROVE  /\ tx[t].pc = "item" => status'[tx[t].order] = status[tx[t].order]
                 /\ status'[tx[t].order] = "none" => status[tx[t].order] = "none"
      <3>1. tx[t].order \in Orders BY <2>3, Zenon DEF Tx
      <3>2. tx[t].pc = "item" => status'[tx[t].order] = status[tx[t].order]
        BY <1>2, <3>1, Zenon DEF OrderFree
      <3> QED BY <1>3, <3>1, <3>2, Zenon
    <2>4. tx'[t] = tx[t] BY Zenon
    <2>5. TxReads(t)' BY <2>1, <2>2, <2>3, <2>4, ReadsStay, Zenon
    <2>6. TxWrites(t)' BY <2>1, Zenon DEF TxWrites, Piece
    <2> QED BY <2>5, <2>6, Zenon
  <1>7. ASSUME NEW t \in Sessions, NEW u \in Sessions, t # u PROVE Apart(t, u)'
    <2>1. Apart(t, u) BY <1>7, Zenon DEF StoreInv
    <2>2. Locked(t)' = Locked(t) /\ Locked(u)' = Locked(u) BY Zenon DEF Locked
    <2> QED BY <2>1, <2>2, Zenon DEF Apart
  <1>8. \A p \in Products : Holding(p)' = Holding(p) BY <1>4, Zenon DEF Holding
  <1>9. Explained' BY <1>8, Zenon DEF StoreInv, Explained
  <1>10. KeyNamesItsOrder'
    <2>1. KeyNamesItsOrder BY Zenon DEF StoreInv
    <2>2. ASSUME NEW k \in Keys, record[k] # NoRecord PROVE record[k].order \in Orders
      BY <1>1, <2>2, Zenon DEF StoreTypes
    <2> QED BY <1>3, <2>1, <2>2, Zenon DEF KeyNamesItsOrder
  <1> QED BY <1>5, <1>6, <1>7, <1>9, <1>10, Zenon DEF StoreInv

LEMMA StoreStays ==
  ASSUME StoreInv, rows' = rows, stock' = stock, intake' = intake, status' = status,
         lines' = lines, record' = record, tx' = tx
  PROVE  StoreInv'
  <1>1. StoreTypes' BY Zenon DEF StoreInv, StoreTypes
  <1>2. ASSUME NEW t \in Sessions PROVE TxReads(t)' /\ TxWrites(t)'
    <2>1. TxReads(t) /\ TxWrites(t) BY Zenon DEF StoreInv
    <2>2. TxReads(t)' BY <2>1, Zenon DEF TxReads
    <2>3. TxWrites(t)' BY <2>1, Zenon DEF TxWrites, Piece
    <2> QED BY <2>2, <2>3, Zenon
  <1>3. ASSUME NEW t \in Sessions, NEW u \in Sessions, t # u PROVE Apart(t, u)'
    <2>1. Apart(t, u) BY <1>3, Zenon DEF StoreInv
    <2>2. Locked(t)' = Locked(t) /\ Locked(u)' = Locked(u) BY Zenon DEF Locked
    <2> QED BY <2>1, <2>2, Zenon DEF Apart
  <1>4. \A p \in Products : Holding(p)' = Holding(p) BY Zenon DEF Holding
  <1>5. Explained' BY <1>4, Zenon DEF StoreInv, Explained
  <1>6. KeyNamesItsOrder' BY Zenon DEF StoreInv, KeyNamesItsOrder
  <1> QED BY <1>1, <1>2, <1>3, <1>5, <1>6, Zenon DEF StoreInv

(* Every step keeps the invariant of the database.                         *)
LEMMA StoreStep == StoreInv /\ [Next]_vars => StoreInv'
  <1> SUFFICES ASSUME StoreInv, [Next]_vars PROVE StoreInv' BY Zenon
  <1>1. StoreTypes BY Zenon DEF StoreInv
  <1>2. ASSUME NEW p \in Products, AddInventory(p) PROVE StoreInv'
    <2>1. rows' = rows \cup {p} BY <1>2, Zenon DEF AddInventory
    <2>2. intake[p] \in Nat /\ MaxIntake[p] \in Nat
      BY <1>1, MonolithAssumption, Zenon DEF StoreTypes
    <2>3. intake[p] + 1 <= MaxIntake[p] BY <1>2, <2>2 DEF AddInventory
    <2>4. /\ RowFree(p) /\ stock' = [stock EXCEPT ![p] = stock[p] + 1]
          /\ intake' = [intake EXCEPT ![p] = intake[p] + 1]
          /\ status' = status /\ lines' = lines /\ record' = record /\ tx' = tx
      BY <1>2, Zenon DEF AddInventory
    <2>5. 1 \in Nat BY Zenon
    <2> QED BY <2>1, <2>3, <2>4, <2>5, StockArrives, Zenon
  <1>3. ASSUME NEW p \in Products, NEW q \in Openings, InitInventory(p, q) PROVE StoreInv'
    <2>1. stock[p] = 0 /\ intake[p] = 0 BY <1>3, Zenon DEF InitInventory, StoreInv, Explained
    <2>2. q \in Nat BY MonolithAssumption, Zenon
    <2>3. RowFree(p)
      <3>1. \A s \in Sessions : Locked(s) \subseteq rows
        BY <1>1, LockedFacts, Zenon DEF StoreInv
      <3> QED BY <1>3, <3>1, Zenon DEF RowFree, InitInventory
    <2>4. stock[p] + q = q /\ intake[p] + q = q BY <2>1, <2>2
    <2>5. /\ rows' = rows \cup {p} /\ intake[p] + q <= MaxIntake[p]
          /\ stock' = [stock EXCEPT ![p] = stock[p] + q]
          /\ intake' = [intake EXCEPT ![p] = intake[p] + q]
      BY <1>3, <2>4, Zenon DEF InitInventory
    <2>6. status' = status /\ lines' = lines /\ record' = record /\ tx' = tx
      BY <1>3, Zenon DEF InitInventory
    <2> QED BY <2>2, <2>3, <2>5, <2>6, StockArrives, Zenon
  <1>4. ASSUME NEW s \in Clients, Request(s) PROVE StoreInv'
    <2>1. s \in Sessions BY Zenon DEF Sessions
    <2>2. ASSUME NEW k \in Keys, NEW items \in Menu, BeginCreate(s, k, items) PROVE StoreInv'
      BY <2>1, <2>2, CreateBegins, Zenon
    <2>3. ASSUME NEW o \in Orders, BeginCancel(s, o) PROVE StoreInv'
      <3>1. UNCHANGED <<rows, stock, intake, status, lines, record>>
        BY <2>3, Zenon DEF BeginCancel, storeVars
      <3> QED BY <2>1, <2>3, <3>1, CancelBegins, Zenon DEF BeginCancel
    <2> QED BY <1>4, <2>2, <2>3, Zenon DEF Request
  <1>5. ASSUME NEW s \in Sessions, Transact(s) PROVE StoreInv'
    <2>1. CASE LockItem(s) BY <2>1, ItemIsLocked, Zenon
    <2>2. CASE PatchOrder(s)
      <3>1. UNCHANGED <<rows, stock, intake, status, lines, record>>
        BY <2>2, Zenon DEF PatchOrder, storeVars
      <3> QED BY <2>2, <3>1, OrderIsLocked, TxEnds, Zenon DEF PatchOrder, End
    <2>3. CASE CommitCreate(s) BY <2>3, CreateCommits, Zenon
    <2>4. CASE CommitCancel(s) BY <2>4, CancelCommits, Zenon
    <2>5. CASE Rollback(s)
      <3>1. UNCHANGED <<rows, stock, intake, status, lines, record>>
        BY <2>5, Zenon DEF Rollback, storeVars
      <3> QED BY <2>5, <3>1, TxEnds, Zenon DEF Rollback, End
    <2> QED BY <1>5, <2>1, <2>2, <2>3, <2>4, <2>5, Zenon DEF Transact
  <1>6. ASSUME NEW o \in Orders, PayOrder(o) \/ FinishOrder(o) PROVE StoreInv'
    <2>1. CASE PayOrder(o)
      <3>1. tx' = tx /\ rows' = rows /\ stock' = stock /\ intake' = intake /\ lines' = lines
            /\ record' = record
        BY <2>1, Zenon DEF PayOrder
      <3> QED BY <2>1, <3>1, StatusMoves, Zenon DEF PayOrder
    <2>2. CASE FinishOrder(o)
      <3>1. tx' = tx /\ rows' = rows /\ stock' = stock /\ intake' = intake /\ lines' = lines
            /\ record' = record
        BY <2>2, Zenon DEF FinishOrder
      <3> QED BY <2>2, <3>1, StatusMoves, Zenon DEF FinishOrder
    <2> QED BY <1>6, <2>1, <2>2, Zenon
  <1>7. ASSUME NEW o \in Orders, NEW h \in Handlers, Deliver(o, h) PROVE StoreInv'
    <2>1. h \in Sessions BY Zenon DEF Sessions
    <2>2. /\ rows' = rows /\ stock' = stock /\ intake' = intake
          /\ status' = status /\ lines' = lines /\ record' = record
      BY <1>7, Zenon DEF Deliver, storeVars
    <2>3. CASE tx' = tx BY <2>2, <2>3, StoreStays, Zenon
    <2>4. CASE tx' # tx
      <3>1. /\ status[o] = "pending"
            /\ tx' = [tx EXCEPT ![h] = [op |-> "cancel", pc |-> "order", key |-> NoKey,
                                        order |-> o, items |-> lines[o], write |-> <<>>]]
        BY <1>7, <2>4, Zenon DEF Deliver
      <3>2. UNCHANGED <<rows, stock, intake, status, lines, record>> BY <2>2, Zenon
      <3> QED BY <2>1, <3>1, <3>2, CancelBegins, Zenon
    <2> QED BY <2>3, <2>4, Zenon
  <1>8. ASSUME NEW o \in Orders,
               PublishEvent(o) \/ AttemptDue(o) \/ Deadline(o) \/ MessageExpires(o)
        PROVE  StoreInv'
    <2>1. /\ rows' = rows /\ stock' = stock /\ intake' = intake /\ tx' = tx
          /\ status' = status /\ lines' = lines /\ record' = record
      BY <1>8, Zenon DEF PublishEvent, AttemptDue, Deadline, MessageExpires, storeVars,
         brokerVars
    <2> QED BY <2>1, StoreStays, Zenon
  <1>9. CASE ConnectionCloses \/ MarkPublished \/ MarkFailed \/ Ack \/ Requeue
    <2>1. /\ rows' = rows /\ stock' = stock /\ intake' = intake /\ tx' = tx
          /\ status' = status /\ lines' = lines /\ record' = record
      BY <1>9, Zenon DEF ConnectionCloses, MarkPublished, MarkFailed, Ack, Requeue, storeVars
    <2> QED BY <2>1, StoreStays, Zenon
  <1>10. CASE UNCHANGED vars
    <2>1. /\ rows' = rows /\ stock' = stock /\ intake' = intake /\ tx' = tx
          /\ status' = status /\ lines' = lines /\ record' = record
      BY <1>10, Zenon DEF vars, storeVars
    <2> QED BY <2>1, StoreStays, Zenon
  <1>11. Broker => StoreInv' BY <1>7, <1>8, <1>9, Zenon DEF Broker
  <1> QED BY <1>2, <1>3, <1>4, <1>5, <1>6, <1>10, <1>11, Zenon DEF Next

-----------------------------------------------------------------------------
(* Facts about the delivery and the event in hand, from the types.         *)
LEMMA HandFacts ==
  ASSUME BrokerTypes
  PROVE  /\ hand # NoHand => hand.order \in Orders /\ hand.by \in Handlers
                             /\ hand.pc \in {"run", "ack", "requeue"}
         /\ hand.pc \in {"run", "ack", "requeue"} => hand # NoHand
         /\ hand = NoHand => hand.order = NoOrder /\ hand.pc = "idle"
         /\ pub # NoPub => pub.order \in Orders
         /\ pub.pc \in {"confirmed", "failed"} => pub # NoPub
         /\ NoPub.pc = "idle" /\ NoHand.pc = "idle" /\ NoHand.order = NoOrder
         /\ \A o \in Orders : delay[o] \in Nat /\ ready[o] \in Nat
  BY DEF BrokerTypes, NoHand, NoPub

(* A step of the database that leaves the broker alone.                    *)
LEMMA BrokerWaits ==
  ASSUME BrokerInv, due' = due, delay' = delay, ready' = ready, pub' = pub,
         failures' = failures, BrokerTypes', HandInv', hand'.order = hand.order,
         \A o \in Orders : status'[o] = "pending" =>
           (status[o] = "pending" /\ outbox'[o] = outbox[o]) \/ outbox'[o] = "pending",
         \A o \in Orders : outbox'[o] # "none" => status'[o] # "none",
         \A o \in Orders : status[o] # "none" => status'[o] # "none",
         \A o \in Orders : status[o] # "none" /\ status'[o] = "pending" => status[o] = "pending"
  PROVE  BrokerInv'
  <1>1. BrokerTypes /\ EventInv BY Zenon DEF BrokerInv
  <1>2. \A o \in Orders : Waits(o) => Waits(o)' BY Zenon DEF Waits
  <1>3. ASSUME NEW o \in Orders, status'[o] = "pending"
        PROVE  outbox'[o] \in {"pending", "failed"} \/ Waits(o)'
    <2>1. CASE status[o] = "pending" /\ outbox'[o] = outbox[o]
      BY <1>1, <1>2, <2>1, Zenon DEF EventInv
    <2>2. CASE outbox'[o] = "pending" BY <2>2, Zenon
    <2> QED BY <1>3, <2>1, <2>2, Zenon
  <1>4. pub # NoPub => status'[pub.order] # "none"
    BY <1>1, HandFacts, Zenon DEF EventInv
  <1>5. pub.pc = "confirmed" /\ status'[pub.order] = "pending" => Waits(pub.order)'
    <2> SUFFICES ASSUME pub.pc = "confirmed", status'[pub.order] = "pending"
                 PROVE  Waits(pub.order)'
      BY Zenon
    <2>1. pub # NoPub /\ pub.order \in Orders BY <1>1, HandFacts, Zenon
    <2>2. status[pub.order] = "pending" BY <1>1, <2>1, Zenon DEF EventInv
    <2>3. Waits(pub.order) BY <1>1, <2>2, Zenon DEF EventInv
    <2> QED BY <1>2, <2>1, <2>3, Zenon DEF Waits
  <1>6. EventInv' BY <1>3, <1>4, <1>5, Zenon DEF EventInv, Waits
  <1> QED BY <1>6, Zenon DEF BrokerInv

(* The delivery of a handler that is done gets a verdict.                  *)
LEMMA VerdictFits ==
  ASSUME StoreTypes, BrokerTypes, HandInv, NEW s \in Sessions,
         NEW verdict \in {"ack", "requeue"}, End(s, verdict),
         \A o \in Orders : status[o] \notin {"none", "pending"}
                            => status'[o] \notin {"none", "pending"},
         verdict = "ack" /\ tx[s].op = "cancel" =>
           status'[tx[s].order] \notin {"none", "pending"}
  PROVE  /\ hand' \in [order : Orders, pc : {"run", "ack", "requeue"}, by : Handlers] \cup {NoHand}
         /\ HandInv' /\ hand'.order = hand.order
  <1>1. CASE hand.pc = "run" /\ hand.by = s
    <2>1. hand \in [order : Orders, pc : {"run", "ack", "requeue"}, by : Handlers]
      BY <1>1, HandFacts, Zenon DEF BrokerTypes
    <2>2. hand' = [hand EXCEPT !.pc = verdict] BY <1>1, Zenon DEF End
    <2>3. hand'.pc = verdict /\ hand'.order = hand.order /\ hand'.by = hand.by
      BY <2>1, <2>2, Zenon
    <2>4. hand' \in [order : Orders, pc : {"run", "ack", "requeue"}, by : Handlers]
      BY <2>1, <2>2, Zenon
    <2>5. tx[s].op = "cancel" /\ tx[s].order = hand.order BY <1>1, Zenon DEF HandInv
    <2>6. HandInv' BY <2>3, <2>5, Zenon DEF HandInv
    <2> QED BY <2>3, <2>4, <2>6, Zenon
  <1>2. CASE ~(hand.pc = "run" /\ hand.by = s)
    <2>1. hand' = hand /\ tx' = [tx EXCEPT ![s] = NoTx] BY <1>2, Zenon DEF End
    <2>2. ASSUME hand.pc = "run" PROVE tx'[hand.by] = tx[hand.by]
      <3>1. hand.by \in Sessions BY <2>2, HandFacts, Zenon DEF Sessions
      <3> QED BY <1>2, <2>1, <2>2, <3>1, Zenon DEF StoreTypes
    <2>3. ASSUME hand.pc = "ack" PROVE status'[hand.order] \notin {"none", "pending"}
      <3>1. hand.order \in Orders /\ status[hand.order] \notin {"none", "pending"}
        BY <2>3, HandFacts, Zenon DEF HandInv
      <3> QED BY <3>1, Zenon
    <2>4. HandInv' BY <2>1, <2>2, <2>3, Zenon DEF HandInv
    <2> QED BY <2>1, <2>4, Zenon DEF BrokerTypes
  <1> QED BY <1>1, <1>2, Zenon

(* A transaction begins or goes on, and the delivery stays in hand.        *)
LEMMA HandStays ==
  ASSUME StoreTypes, BrokerTypes, HandInv, NEW s \in Sessions, NEW new,
         tx' = [tx EXCEPT ![s] = new], status' = status, hand' = hand,
         tx[s] = NoTx \/ (new.op = tx[s].op /\ new.order = tx[s].order)
  PROVE  HandInv'
  <1>1. ASSUME hand.pc = "run"
        PROVE  tx'[hand.by].op = "cancel" /\ tx'[hand.by].order = hand.order
    <2>1. hand.by \in Sessions BY <1>1, HandFacts, Zenon DEF Sessions
    <2>2. tx[hand.by].op = "cancel" /\ tx[hand.by].order = hand.order
      BY <1>1, Zenon DEF HandInv
    <2>3. CASE hand.by = s
      <3>1. tx[s] # NoTx BY <2>2, <2>3 DEF NoTx
      <3>2. tx'[s] = new BY Zenon DEF StoreTypes
      <3> QED BY <2>2, <2>3, <3>1, <3>2, Zenon
    <2>4. CASE hand.by # s
      <3>1. tx'[hand.by] = tx[hand.by] BY <2>1, <2>4, Zenon DEF StoreTypes
      <3> QED BY <2>2, <3>1, Zenon
    <2> QED BY <2>3, <2>4, Zenon
  <1> QED BY <1>1, Zenon DEF HandInv

(* The requests and the transactions keep the timeouts.                    *)
LEMMA RequestKeepsTimeouts ==
  ASSUME StoreInv, BrokerInv, NEW s \in Sessions, Request(s)
  PROVE  BrokerInv'
  <1>1. PICK new : /\ tx' = [tx EXCEPT ![s] = new] /\ tx[s] = NoTx
                   /\ UNCHANGED <<storeVars, due, brokerVars>>
    BY Zenon DEF Request, BeginCreate, BeginCancel
  <1>2. /\ status' = status /\ outbox' = outbox /\ due' = due /\ delay' = delay
        /\ ready' = ready /\ hand' = hand /\ pub' = pub /\ failures' = failures
    BY <1>1, Zenon DEF storeVars, brokerVars
  <1>3. StoreTypes /\ BrokerTypes /\ HandInv /\ EventInv BY Zenon DEF StoreInv, BrokerInv
  <1>4. HandInv' BY <1>1, <1>2, <1>3, HandStays, Zenon
  <1>5. BrokerTypes' BY <1>2, <1>3, Zenon DEF BrokerTypes
  <1>6. \A o \in Orders : outbox'[o] # "none" => status'[o] # "none"
    BY <1>2, <1>3, Zenon DEF EventInv
  <1> QED BY <1>2, <1>4, <1>5, <1>6, BrokerWaits, Zenon

LEMMA TransactKeepsTimeouts ==
  ASSUME StoreInv, BrokerInv, NEW s \in Sessions, Transact(s)
  PROVE  BrokerInv'
  <1>1. StoreTypes /\ TxReads(s) /\ BrokerTypes /\ HandInv /\ EventInv
    BY Zenon DEF StoreInv, BrokerInv
  <1>2. tx[s] # NoTx => tx[s] \in Tx /\ tx[s].order \in Orders BY <1>1, TxFacts, Zenon DEF Tx
  <1>3. NoTx.pc = "idle" /\ NoTx.op = "none" BY Zenon DEF NoTx
  <1>4. ASSUME status' = status, outbox' = outbox, due' = due, delay' = delay,
               ready' = ready, pub' = pub, failures' = failures,
               hand' \in [order : Orders, pc : {"run", "ack", "requeue"}, by : Handlers] \cup {NoHand},
               HandInv', hand'.order = hand.order
        PROVE  BrokerInv'
    <2>1. BrokerTypes' BY <1>1, <1>4, Zenon DEF BrokerTypes
    <2>2. \A o \in Orders : outbox'[o] # "none" => status'[o] # "none"
      BY <1>1, <1>4, Zenon DEF EventInv
    <2> QED BY <1>4, <2>1, <2>2, BrokerWaits, Zenon
  <1>5. CASE LockItem(s)
    <2>1. /\ status' = status /\ outbox' = outbox /\ due' = due /\ delay' = delay
          /\ ready' = ready /\ hand' = hand /\ pub' = pub /\ failures' = failures
      BY <1>5, Zenon DEF LockItem, storeVars, brokerVars
    <2>2. tx[s] \in Tx BY <1>2, <1>3, <1>5, Zenon DEF LockItem
    <2>3. PICK w : tx' = [tx EXCEPT ![s] = [tx[s] EXCEPT !.write = w]]
      BY <1>5, Zenon DEF LockItem
    <2>4. [tx[s] EXCEPT !.write = w].op = tx[s].op
          /\ [tx[s] EXCEPT !.write = w].order = tx[s].order
      BY <2>2, Zenon DEF Tx
    <2>5. HandInv' BY <1>1, <2>1, <2>3, <2>4, HandStays, Zenon
    <2> QED BY <1>1, <1>4, <2>1, <2>5, Zenon DEF BrokerTypes
  <1>6. CASE PatchOrder(s)
    <2>1. /\ status' = status /\ outbox' = outbox /\ due' = due /\ delay' = delay
          /\ ready' = ready /\ pub' = pub /\ failures' = failures /\ tx[s].pc = "order"
      BY <1>6, Zenon DEF PatchOrder, storeVars
    <2>2. tx[s] \in Tx /\ tx[s].order \in Orders /\ tx[s].op = "cancel"
          /\ status[tx[s].order] # "none"
      BY <1>1, <1>2, <1>3, <2>1, Zenon DEF TxReads
    <2>3. CASE tx' = [tx EXCEPT ![s].pc = "item"] /\ UNCHANGED hand
      <3>1. tx' = [tx EXCEPT ![s] = [tx[s] EXCEPT !.pc = "item"]] BY <2>3, Zenon
      <3>2. [tx[s] EXCEPT !.pc = "item"].op = tx[s].op
            /\ [tx[s] EXCEPT !.pc = "item"].order = tx[s].order
        BY <2>2, Zenon DEF Tx
      <3>3. HandInv' BY <1>1, <2>1, <2>3, <3>1, <3>2, HandStays, Zenon
      <3> QED BY <1>1, <1>4, <2>1, <2>3, <3>3, Zenon DEF BrokerTypes
    <2>4. CASE status[tx[s].order] # "pending" /\ End(s, "ack")
      <3>1. status'[tx[s].order] \notin {"none", "pending"} BY <2>1, <2>2, <2>4, Zenon
      <3>2. "ack" \in {"ack", "requeue"} BY Zenon
      <3>3. /\ hand' \in [order : Orders, pc : {"run", "ack", "requeue"}, by : Handlers] \cup {NoHand}
            /\ HandInv' /\ hand'.order = hand.order
        BY <1>1, <2>1, <2>4, <3>1, <3>2, VerdictFits, Zenon
      <3> QED BY <1>4, <2>1, <3>3, Zenon
    <2> QED BY <1>6, <2>3, <2>4, Zenon DEF PatchOrder
  <1>7. CASE Rollback(s)
    <2>1. /\ status' = status /\ outbox' = outbox /\ due' = due /\ delay' = delay
          /\ ready' = ready /\ pub' = pub /\ failures' = failures /\ End(s, "requeue")
      BY <1>7, Zenon DEF Rollback, storeVars
    <2>2. "requeue" \in {"ack", "requeue"} /\ "requeue" # "ack" BY Zenon
    <2>3. /\ hand' \in [order : Orders, pc : {"run", "ack", "requeue"}, by : Handlers] \cup {NoHand}
          /\ HandInv' /\ hand'.order = hand.order
      BY <1>1, <2>1, <2>2, VerdictFits, Zenon
    <2> QED BY <1>4, <2>1, <2>3, Zenon
  <1>8. CASE CommitCreate(s)
    <2> DEFINE o == tx[s].order
    <2>1. /\ due' = due /\ delay' = delay /\ ready' = ready /\ pub' = pub
          /\ failures' = failures /\ End(s, "ack") /\ tx[s].op = "create"
          /\ status' = [status EXCEPT ![o] = "pending"]
          /\ outbox' = [outbox EXCEPT ![o] = "pending"] /\ tx[s].pc = "item"
      BY <1>8, Zenon DEF CommitCreate, CommitStock
    <2>2. o \in Orders /\ status[o] = "none" BY <1>1, <1>2, <1>3, <2>1, Zenon DEF TxReads
    <2>3. /\ status'[o] = "pending" /\ outbox'[o] = "pending"
          /\ \A u \in Orders : u # o => status'[u] = status[u] /\ outbox'[u] = outbox[u]
          /\ outbox' \in [Orders -> {"none", "pending", "failed", "published"}]
      BY <1>1, <2>1, <2>2, Zenon DEF StoreTypes, BrokerTypes
    <2>4. \A u \in Orders : status[u] \notin {"none", "pending"}
                             => status'[u] \notin {"none", "pending"}
      BY <2>2, <2>3, Zenon
    <2>5. "ack" \in {"ack", "requeue"} /\ "create" # "cancel" BY Zenon
    <2>6. /\ hand' \in [order : Orders, pc : {"run", "ack", "requeue"}, by : Handlers] \cup {NoHand}
          /\ HandInv' /\ hand'.order = hand.order
      BY <1>1, <2>1, <2>4, <2>5, VerdictFits, Zenon
    <2>7. BrokerTypes'
      <3>1. \A u \in due : u \in Orders /\ u # o BY <1>1, <2>2, Zenon DEF BrokerTypes
      <3>2. \A u \in due : status'[u] # "none" BY <1>1, <2>3, <3>1, Zenon DEF BrokerTypes
      <3> QED BY <1>1, <2>1, <2>3, <2>6, <3>2, Zenon DEF BrokerTypes
    <2>8. \A u \in Orders : status'[u] = "pending" =>
            (status[u] = "pending" /\ outbox'[u] = outbox[u]) \/ outbox'[u] = "pending"
      BY <2>3, Zenon
    <2>9. /\ \A u \in Orders : outbox'[u] # "none" => status'[u] # "none"
          /\ \A u \in Orders : status[u] # "none" => status'[u] # "none"
          /\ \A u \in Orders : status[u] # "none" /\ status'[u] = "pending" => status[u] = "pending"
      BY <1>1, <2>2, <2>3, Zenon DEF EventInv
    <2> HIDE DEF o
    <2> QED BY <2>1, <2>6, <2>7, <2>8, <2>9, BrokerWaits, Zenon
  <1>9. CASE CommitCancel(s)
    <2> DEFINE o == tx[s].order
    <2>1. /\ due' = due /\ delay' = delay /\ ready' = ready /\ pub' = pub
          /\ failures' = failures /\ tx[s].op = "cancel" /\ outbox' = outbox
          /\ status' = [status EXCEPT ![o] = "cancelled"] /\ tx[s].pc = "item"
      BY <1>9, Zenon DEF CommitCancel, CommitStock
    <2>2. PICK verdict \in {"ack", "requeue"} : End(s, verdict)
      BY <1>9, Zenon DEF CommitCancel
    <2>3. o \in Orders /\ status[o] = "pending" BY <1>1, <1>2, <1>3, <2>1, Zenon DEF TxReads
    <2>4. /\ status'[o] = "cancelled"
          /\ \A u \in Orders : u # o => status'[u] = status[u]
      BY <1>1, <2>1, <2>3, Zenon DEF StoreTypes
    <2>5. \A u \in Orders : status[u] \notin {"none", "pending"}
                             => status'[u] \notin {"none", "pending"}
      BY <2>3, <2>4, Zenon
    <2>6. status'[tx[s].order] \notin {"none", "pending"} BY <2>4, Zenon
    <2>7. /\ hand' \in [order : Orders, pc : {"run", "ack", "requeue"}, by : Handlers] \cup {NoHand}
          /\ HandInv' /\ hand'.order = hand.order
      BY <1>1, <2>2, <2>5, <2>6, VerdictFits, Zenon
    <2>8. /\ \A u \in Orders : status'[u] = "pending" => status[u] = "pending"
          /\ \A u \in Orders : status[u] # "none" => status'[u] # "none"
      BY <2>3, <2>4, Zenon
    <2>9. BrokerTypes'
      <3>1. \A u \in due : status'[u] # "none" BY <1>1, <2>8, Zenon DEF BrokerTypes
      <3> QED BY <1>1, <2>1, <2>7, <3>1, Zenon DEF BrokerTypes
    <2>10. \A u \in Orders : outbox'[u] # "none" => status'[u] # "none"
      BY <1>1, <2>1, <2>8, Zenon DEF EventInv
    <2> QED BY <2>1, <2>7, <2>8, <2>9, <2>10, BrokerWaits, Zenon
  <1> QED BY <1>5, <1>6, <1>7, <1>8, <1>9, Zenon DEF Transact

LEMMA OrderKeepsTimeouts ==
  ASSUME StoreInv, BrokerInv, outbox' = outbox, due' = due, tx' = tx, delay' = delay,
         ready' = ready, hand' = hand, pub' = pub, failures' = failures,
         \/ status' = status
         \/ \E o \in Orders : PayOrder(o) \/ FinishOrder(o)
  PROVE  BrokerInv'
  <1>1. StoreTypes /\ BrokerTypes /\ HandInv /\ EventInv BY Zenon DEF StoreInv, BrokerInv
  <1>2. /\ \A u \in Orders : status'[u] = "pending" => status[u] = "pending"
        /\ \A u \in Orders : status[u] \notin {"none", "pending"}
                              => status'[u] \notin {"none", "pending"}
        /\ \A u \in Orders : status[u] # "none" => status'[u] # "none"
    BY <1>1, Zenon DEF StoreTypes, PayOrder, FinishOrder
  <1>3. BrokerTypes'
    <2>1. \A u \in due : status'[u] # "none" BY <1>1, <1>2, Zenon DEF BrokerTypes
    <2> QED BY <1>1, <2>1, Zenon DEF BrokerTypes
  <1>4. HandInv'
    <2>1. hand.pc = "ack" => hand.order \in Orders BY <1>1, HandFacts, Zenon
    <2> QED BY <1>1, <1>2, <2>1, Zenon DEF HandInv
  <1>5. \A u \in Orders : outbox'[u] # "none" => status'[u] # "none"
    BY <1>1, <1>2, Zenon DEF EventInv
  <1> QED BY <1>2, <1>3, <1>4, <1>5, BrokerWaits, Zenon

(* The end of a session puts the delivery back.                            *)
LEMMA SessionEnds ==
  ASSUME BrokerTypes, EndSession, delay' = delay
  PROVE  /\ ready' \in [Orders -> Nat] /\ hand' = NoHand /\ pub' = NoPub
         /\ \A o \in Orders : Waits(o) => Waits(o)'
  <1>1. hand' = NoHand /\ pub' = NoPub BY Zenon DEF EndSession
  <1>2. CASE hand = NoHand
    <2>1. ready' = ready /\ hand' = hand BY <1>1, <1>2, Zenon DEF EndSession
    <2> QED BY <1>1, <2>1, Zenon DEF BrokerTypes, Waits
  <1>3. CASE hand # NoHand
    <2>1. ready' = [ready EXCEPT ![hand.order] = ready[hand.order] + 1]
      BY <1>3, Zenon DEF EndSession
    <2>2. hand.order \in Orders BY <1>3, HandFacts, Zenon
    <2>3. /\ ready' \in [Orders -> Nat] /\ ready'[hand.order] = ready[hand.order] + 1
          /\ \A o \in Orders : o # hand.order => ready'[o] = ready[o]
      BY <2>1, <2>2 DEF BrokerTypes
    <2>4. ASSUME NEW o \in Orders, Waits(o) PROVE delay'[o] + ready'[o] > 0
      <3>1. delay[o] \in Nat /\ ready[o] \in Nat BY HandFacts, Zenon
      <3>2. CASE o = hand.order BY <2>3, <3>1, <3>2
      <3>3. CASE o # hand.order BY <2>3, <2>4, <3>1, <3>3, Zenon DEF Waits
      <3> QED BY <3>2, <3>3, Zenon
    <2> QED BY <1>1, <2>3, <2>4, Zenon DEF Waits
  <1> QED BY <1>2, <1>3, Zenon

(* What the steps of the broker have to keep.                              *)
LEMMA BrokerKeeps ==
  ASSUME StoreInv, BrokerInv, BrokerTypes', status' = status, HandInv',
         \A o \in Orders : outbox'[o] # "none" => status[o] # "none",
         \A o \in Orders : Waits(o) /\ status[o] = "pending" => Waits(o)',
         \A o \in Orders : outbox[o] \in {"pending", "failed"} /\ status[o] = "pending"
                            => outbox'[o] \in {"pending", "failed"} \/ Waits(o)',
         \/ pub' \in {pub, NoPub}
         \/ \E o \in Orders : pub' # NoPub /\ pub'.order = o /\ outbox[o] # "none"
                              /\ (pub'.pc = "confirmed" => Waits(o)')
  PROVE  BrokerInv'
  <1>1. BrokerTypes /\ EventInv BY Zenon DEF BrokerInv
  <1>2. \A o \in Orders : outbox'[o] # "none" => status'[o] # "none"
    BY <1>1, Zenon DEF EventInv
  <1>3. ASSUME NEW o \in Orders, status'[o] = "pending"
        PROVE  outbox'[o] \in {"pending", "failed"} \/ Waits(o)'
    <2>1. outbox[o] \in {"pending", "failed"} \/ Waits(o) BY <1>1, <1>3, Zenon DEF EventInv
    <2> QED BY <1>3, <2>1, Zenon
  <1>4. pub' # NoPub => pub'.order \in Orders /\ status'[pub'.order] # "none"
    <2>1. pub' # NoPub => pub'.order \in Orders BY Zenon DEF BrokerTypes
    <2> QED BY <1>1, <2>1, Zenon DEF EventInv
  <1>5. NoPub.pc # "confirmed" BY Zenon DEF NoPub
  <1>6. ASSUME NEW o \in Orders, pub'.pc = "confirmed", pub'.order = o, status'[o] = "pending"
        PROVE  Waits(o)'
    <2>1. pub' # NoPub BY <1>5, <1>6, Zenon
    <2>2. CASE pub' = pub
      <3>1. delay[pub.order] + ready[pub.order] > 0 \/ hand.order = pub.order
        BY <1>1, <1>6, <2>2, Zenon DEF EventInv, Waits
      <3>2. Waits(o) BY <1>6, <2>2, <3>1, Zenon DEF Waits
      <3> QED BY <1>6, <3>2, Zenon
    <2>3. CASE pub' # pub BY <1>6, <2>1, <2>3, Zenon
    <2> QED BY <2>2, <2>3, Zenon
  <1>7. EventInv'
    <2>1. ASSUME pub'.pc = "confirmed", status'[pub'.order] = "pending"
          PROVE  delay'[pub'.order] + ready'[pub'.order] > 0 \/ hand'.order = pub'.order
      <3>1. PICK o \in Orders : pub'.order = o BY <1>4, <1>5, <2>1, Zenon
      <3>2. Waits(o)' BY <1>6, <2>1, <3>1, Zenon
      <3> QED BY <3>1, <3>2, Zenon DEF Waits
    <2>2. \A o \in Orders : status'[o] = "pending"
            => outbox'[o] \in {"pending", "failed"}
               \/ delay'[o] + ready'[o] > 0 \/ hand'.order = o
      BY <1>3, Zenon DEF Waits
    <2> QED BY <1>2, <1>4, <2>1, <2>2, Zenon DEF EventInv, Waits
  <1> QED BY <1>7, Zenon DEF BrokerInv

(* One more or one less message for an order, and no other.                *)
LEMMA CountMoves ==
  ASSUME NEW f \in [Orders -> Nat], NEW g, NEW o \in Orders, NEW n \in {-1, 0, 1},
         f[o] + n \in Nat, g = [f EXCEPT ![o] = f[o] + n]
  PROVE  /\ g \in [Orders -> Nat] /\ g[o] = f[o] + n
         /\ \A u \in Orders : u # o => g[u] = f[u]
  BY Zenon

LEMMA BrokerActionKeepsTimeouts ==
  ASSUME StoreInv, BrokerInv, Broker
  PROVE  BrokerInv'
  <1>1. StoreTypes /\ BrokerTypes /\ HandInv /\ EventInv BY Zenon DEF StoreInv, BrokerInv
  <1>2. \A o \in Orders : delay[o] \in Nat /\ ready[o] \in Nat BY <1>1, HandFacts, Zenon
  <1>3. NoHand.pc = "idle" /\ NoHand.order = NoOrder /\ NoPub.pc = "idle"
    BY Zenon DEF NoHand, NoPub
  <1>4. hand' = NoHand => HandInv' BY <1>3, Zenon DEF HandInv
  <1>5. hand' = hand /\ tx' = tx /\ status' = status => HandInv' BY <1>1, Zenon DEF HandInv
  <1>6. Fail => failures' \in 0..MaxFailures BY <1>1, MonolithAssumption DEF Fail, BrokerTypes
  <1>7. ASSUME EndSession, delay' = delay, due' = due, status' = status,
               failures' \in 0..MaxFailures,
               \A o \in Orders : outbox'[o] # "none" => status[o] # "none",
               \A o \in Orders : outbox[o] \in {"pending", "failed"}
                                  => outbox'[o] \in {"pending", "failed"},
               outbox' \in [Orders -> {"none", "pending", "failed", "published"}]
        PROVE  BrokerInv'
    <2>1. /\ ready' \in [Orders -> Nat] /\ hand' = NoHand /\ pub' = NoPub
          /\ \A o \in Orders : Waits(o) => Waits(o)'
      BY <1>1, <1>7, SessionEnds, Zenon
    <2>2. BrokerTypes' BY <1>1, <1>7, <2>1, Zenon DEF BrokerTypes
    <2>3. pub' \in {pub, NoPub} BY <2>1, Zenon
    <2> QED BY <1>4, <1>7, <2>1, <2>2, <2>3, BrokerKeeps, Zenon
  <1>8. CASE ConnectionCloses
    <2>1. /\ EndSession /\ delay' = delay /\ due' = due /\ status' = status /\ outbox' = outbox
          /\ Fail
      BY <1>8, Zenon DEF ConnectionCloses, storeVars
    <2> QED BY <1>1, <1>6, <1>7, <2>1, Zenon DEF BrokerTypes, EventInv
  <1>9. CASE MarkPublished
    <2>1. /\ delay' = delay /\ due' = due /\ status' = status /\ tx' = tx
          /\ pub.pc = "confirmed"
      BY <1>9, Zenon DEF MarkPublished
    <2>2. pub.order \in Orders BY <1>1, <2>1, HandFacts, Zenon
    <2>3. status[pub.order] # "none" BY <1>1, <1>3, <2>1, Zenon DEF EventInv
    <2>4. CASE Fail /\ EndSession /\ outbox' = outbox
      BY <1>1, <1>6, <1>7, <2>1, <2>4, Zenon DEF BrokerTypes, EventInv
    <2>5. CASE outbox' = [outbox EXCEPT ![pub.order] = "published"] /\ pub' = NoPub
               /\ UNCHANGED <<ready, hand, failures>>
      <3>1. ready' = ready /\ hand' = hand /\ failures' = failures BY <2>5, Zenon
      <3>2. /\ outbox' \in [Orders -> {"none", "pending", "failed", "published"}]
            /\ \A o \in Orders : o # pub.order => outbox'[o] = outbox[o]
        BY <1>1, <2>2, <2>5, Zenon DEF BrokerTypes
      <3>3. BrokerTypes' BY <1>1, <2>1, <2>5, <3>1, <3>2, ZenonT(30) DEF BrokerTypes
      <3>4. \A o \in Orders : Waits(o) => Waits(o)' BY <2>1, <3>1, Zenon DEF Waits
      <3>5. status[pub.order] = "pending" => Waits(pub.order)
        BY <1>1, <2>1, Zenon DEF EventInv
      <3>6. \A o \in Orders : outbox[o] \in {"pending", "failed"} /\ status[o] = "pending"
                               => outbox'[o] \in {"pending", "failed"} \/ Waits(o)'
        BY <3>2, <3>4, <3>5, Zenon
      <3>7. \A o \in Orders : outbox'[o] # "none" => status[o] # "none"
        BY <1>1, <2>3, <3>2, Zenon DEF EventInv
      <3>8. pub' \in {pub, NoPub} BY <2>5, Zenon
      <3> QED BY <1>5, <2>1, <3>1, <3>3, <3>4, <3>6, <3>7, <3>8, BrokerKeeps, ZenonT(30)
    <2> QED BY <1>9, <2>4, <2>5, Zenon DEF MarkPublished
  <1>10. CASE MarkFailed
    <2>1. /\ delay' = delay /\ due' = due /\ status' = status /\ failures' = failures
          /\ pub.pc = "failed" /\ EndSession
      BY <1>10, Zenon DEF MarkFailed
    <2>2. PICK marked \in {"pending", "failed"} :
            outbox' = [outbox EXCEPT ![pub.order] = marked]
      BY <1>10, Zenon DEF MarkFailed
    <2>3. pub.order \in Orders /\ status[pub.order] # "none"
      BY <1>1, <1>3, <2>1, HandFacts, Zenon DEF EventInv
    <2>4. /\ outbox' \in [Orders -> {"none", "pending", "failed", "published"}]
          /\ outbox'[pub.order] \in {"pending", "failed"}
          /\ \A o \in Orders : o # pub.order => outbox'[o] = outbox[o]
      BY <1>1, <2>2, <2>3, Zenon DEF BrokerTypes
    <2>5. \A o \in Orders : outbox'[o] # "none" => status[o] # "none"
      BY <1>1, <2>3, <2>4, Zenon DEF EventInv
    <2>6. \A o \in Orders : outbox[o] \in {"pending", "failed"} => outbox'[o] \in {"pending", "failed"}
      BY <2>4, Zenon
    <2> QED BY <1>1, <1>7, <2>1, <2>4, <2>5, <2>6, Zenon DEF BrokerTypes
  <1>11. CASE Ack
    <2>1. /\ delay' = delay /\ ready' = ready /\ due' = due /\ status' = status /\ outbox' = outbox
          /\ pub' = pub /\ failures' = failures /\ hand' = NoHand /\ hand.pc = "ack"
      BY <1>11, Zenon DEF Ack, storeVars
    <2>2. BrokerTypes' BY <1>1, <2>1, Zenon DEF BrokerTypes
    <2>3. status[hand.order] # "pending" BY <1>1, <2>1, Zenon DEF HandInv
    <2>4. \A o \in Orders : Waits(o) /\ status[o] = "pending" => Waits(o)'
      BY <2>1, <2>3, Zenon DEF Waits
    <2>5. \A o \in Orders : outbox'[o] # "none" => status[o] # "none"
      BY <1>1, <2>1, Zenon DEF EventInv
    <2>6. pub' \in {pub, NoPub} BY <2>1, Zenon
    <2> QED BY <1>4, <2>1, <2>2, <2>4, <2>5, <2>6, BrokerKeeps, Zenon
  <1>12. CASE Requeue
    <2>1. /\ delay' = delay /\ due' = due /\ status' = status /\ outbox' = outbox
          /\ pub' = pub /\ failures' = failures /\ hand' = NoHand /\ hand.pc = "requeue"
          /\ ready' = [ready EXCEPT ![hand.order] = ready[hand.order] + 1]
      BY <1>12, Zenon DEF Requeue, storeVars
    <2>2. hand.order \in Orders BY <1>1, <2>1, HandFacts, Zenon
    <2>3. ready \in [Orders -> Nat] /\ ready[hand.order] + 1 \in Nat /\ 1 \in {-1, 0, 1}
      BY <1>1, <1>2, <2>2 DEF BrokerTypes
    <2>4. /\ ready' \in [Orders -> Nat] /\ ready'[hand.order] = ready[hand.order] + 1
          /\ \A o \in Orders : o # hand.order => ready'[o] = ready[o]
      BY <2>1, <2>2, <2>3, CountMoves, Zenon
    <2>5. BrokerTypes' BY <1>1, <2>1, <2>4, Zenon DEF BrokerTypes
    <2>6. ASSUME NEW o \in Orders, Waits(o) PROVE Waits(o)'
      <3>1. delay'[o] + ready'[o] > 0
        <4>1. CASE o = hand.order BY <1>2, <2>1, <2>4, <4>1
        <4>2. CASE o # hand.order BY <2>1, <2>4, <2>6, <4>2, Zenon DEF Waits
        <4> QED BY <4>1, <4>2, Zenon
      <3> QED BY <3>1, Zenon DEF Waits
    <2>7. \A o \in Orders : outbox'[o] # "none" => status[o] # "none"
      BY <1>1, <2>1, Zenon DEF EventInv
    <2>8. pub' \in {pub, NoPub} BY <2>1, Zenon
    <2> QED BY <1>4, <2>1, <2>5, <2>6, <2>7, <2>8, BrokerKeeps, Zenon
  <1>13. ASSUME NEW o \in Orders, PublishEvent(o) PROVE BrokerInv'
    <2>1. /\ due' = due /\ status' = status /\ outbox' = outbox /\ tx' = tx /\ ready' = ready
          /\ hand' = hand /\ outbox[o] = "pending"
      BY <1>13, Zenon DEF PublishEvent, storeVars
    <2>2. PICK n \in 0..1 :
            /\ delay' = [delay EXCEPT ![o] = delay[o] + n]
            /\ failures' \in 0..MaxFailures
            /\ \/ n = 1 /\ pub' = [order |-> o, pc |-> "confirmed"]
               \/ pub' = [order |-> o, pc |-> "failed"]
      <3>1. CASE /\ delay' = [delay EXCEPT ![o] = @ + 1]
                 /\ pub' = [order |-> o, pc |-> "confirmed"]
                 /\ UNCHANGED failures
        BY <1>1, <3>1 DEF BrokerTypes
      <3>2. CASE /\ Fail
                 /\ \E arrived \in 0..1 : delay' = [delay EXCEPT ![o] = @ + arrived]
                 /\ pub' = [order |-> o, pc |-> "failed"]
        BY <1>6, <3>2, Zenon
      <3> QED BY <1>13, <3>1, <3>2, Zenon DEF PublishEvent
    <2>3. delay \in [Orders -> Nat] /\ delay[o] + n \in Nat /\ n \in {-1, 0, 1}
      BY <1>1, <1>2 DEF BrokerTypes
    <2>4. /\ delay' \in [Orders -> Nat] /\ delay'[o] = delay[o] + n
          /\ \A u \in Orders : u # o => delay'[u] = delay[u]
      BY <2>2, <2>3, CountMoves, Zenon
    <2>5. pub' \in [order : Orders, pc : {"confirmed", "failed"}] /\ pub' # NoPub
          /\ pub'.order = o /\ (pub'.pc = "confirmed" => n = 1)
      BY <2>2 DEF NoPub
    <2>6. BrokerTypes' BY <1>1, <2>1, <2>2, <2>4, <2>5, Zenon DEF BrokerTypes
    <2>7. ASSUME NEW u \in Orders, Waits(u) PROVE Waits(u)'
      <3>1. delay[u] + ready[u] > 0 => delay'[u] + ready'[u] > 0
        BY <1>2, <2>1, <2>3, <2>4
      <3> QED BY <2>1, <2>7, <3>1, Zenon DEF Waits
    <2>8. n = 1 => Waits(o)'
      <3>1. n = 1 => delay'[o] + ready'[o] > 0 BY <1>2, <2>1, <2>4
      <3> QED BY <3>1, Zenon DEF Waits
    <2>9. outbox[o] # "none" BY <2>1, Zenon
    <2>10. \A u \in Orders : outbox'[u] # "none" => status[u] # "none"
      BY <1>1, <2>1, Zenon DEF EventInv
    <2> QED BY <1>5, <2>1, <2>5, <2>6, <2>7, <2>8, <2>9, <2>10, BrokerKeeps, Zenon
  <1>14. ASSUME NEW o \in Orders, AttemptDue(o) \/ Deadline(o) PROVE BrokerInv'
    <2>1. /\ status' = status /\ tx' = tx /\ ready' = ready /\ hand' = hand
          /\ delay' = delay /\ pub' = pub /\ failures' = failures
      BY <1>14, Zenon DEF AttemptDue, Deadline, storeVars, brokerVars
    <2>2. due' \subseteq Orders /\ \A u \in due' : status[u] # "none"
      BY <1>1, <1>14, Zenon DEF AttemptDue, Deadline, BrokerTypes
    <2>3. /\ outbox' \in [Orders -> {"none", "pending", "failed", "published"}]
          /\ \A u \in Orders : outbox'[u] = outbox[u]
                                \/ (outbox[u] = "failed" /\ outbox'[u] = "pending")
      BY <1>1, <1>14, Zenon DEF AttemptDue, Deadline, BrokerTypes, storeVars
    <2>4. BrokerTypes' BY <1>1, <2>1, <2>2, <2>3, Zenon DEF BrokerTypes
    <2>5. \A u \in Orders : Waits(u) => Waits(u)' BY <2>1, Zenon DEF Waits
    <2>6. \A u \in Orders : outbox'[u] # "none" => status[u] # "none"
      BY <1>1, <2>3, Zenon DEF EventInv
    <2>7. \A u \in Orders : outbox[u] \in {"pending", "failed"} => outbox'[u] \in {"pending", "failed"}
      BY <2>3, Zenon
    <2>8. pub' \in {pub, NoPub} BY <2>1, Zenon
    <2> QED BY <1>5, <2>1, <2>4, <2>5, <2>6, <2>7, <2>8, BrokerKeeps, Zenon
  <1>15. ASSUME NEW o \in Orders, MessageExpires(o) PROVE BrokerInv'
    <2>1. /\ due' = due /\ status' = status /\ outbox' = outbox /\ tx' = tx
          /\ hand' = hand /\ pub' = pub /\ failures' = failures /\ delay[o] > 0
          /\ delay' = [delay EXCEPT ![o] = delay[o] + (-1)]
          /\ ready' = [ready EXCEPT ![o] = ready[o] + 1]
      <3>1. delay[o] - 1 = delay[o] + (-1) BY <1>2, Zenon
      <3> QED BY <1>15, <3>1, Zenon DEF MessageExpires, storeVars
    <2>2. /\ delay \in [Orders -> Nat] /\ ready \in [Orders -> Nat]
          /\ delay[o] + (-1) \in Nat /\ ready[o] + 1 \in Nat
          /\ -1 \in {-1, 0, 1} /\ 1 \in {-1, 0, 1}
      BY <1>1, <1>2, <2>1 DEF BrokerTypes
    <2>3. /\ delay' \in [Orders -> Nat] /\ delay'[o] = delay[o] + (-1)
          /\ \A u \in Orders : u # o => delay'[u] = delay[u]
      BY <2>1, <2>2, CountMoves, Zenon
    <2>4. /\ ready' \in [Orders -> Nat] /\ ready'[o] = ready[o] + 1
          /\ \A u \in Orders : u # o => ready'[u] = ready[u]
      BY <2>1, <2>2, CountMoves, Zenon
    <2>5. BrokerTypes' BY <1>1, <2>1, <2>3, <2>4, Zenon DEF BrokerTypes
    <2>6. ASSUME NEW u \in Orders PROVE delay'[u] + ready'[u] = delay[u] + ready[u]
      BY <1>2, <2>3, <2>4
    <2>7. \A u \in Orders : Waits(u) => Waits(u)' BY <2>1, <2>6, Zenon DEF Waits
    <2>8. \A u \in Orders : outbox'[u] # "none" => status[u] # "none"
      BY <1>1, <2>1, Zenon DEF EventInv
    <2>9. pub' \in {pub, NoPub} BY <2>1, Zenon
    <2> QED BY <1>5, <2>1, <2>5, <2>7, <2>8, <2>9, BrokerKeeps, Zenon
  <1>16. ASSUME NEW o \in Orders, NEW h \in Handlers, Deliver(o, h) PROVE BrokerInv'
    <2>1. /\ due' = due /\ status' = status /\ outbox' = outbox /\ delay' = delay
          /\ pub' = pub /\ failures' = failures /\ hand = NoHand /\ ready[o] > 0
          /\ ready' = [ready EXCEPT ![o] = ready[o] + (-1)]
      <3>1. ready[o] - 1 = ready[o] + (-1) BY <1>2, Zenon
      <3> QED BY <1>16, <3>1, Zenon DEF Deliver, storeVars
    <2>2. ready \in [Orders -> Nat] /\ ready[o] + (-1) \in Nat /\ -1 \in {-1, 0, 1}
      BY <1>1, <1>2, <2>1 DEF BrokerTypes
    <2>3. /\ ready' \in [Orders -> Nat] /\ ready'[o] = ready[o] + (-1)
          /\ \A u \in Orders : u # o => ready'[u] = ready[u]
      BY <2>1, <2>2, CountMoves, Zenon
    <2>4. PICK pc \in {"run", "ack", "requeue"} :
            /\ hand' = [order |-> o, pc |-> pc, by |-> h]
            /\ pc = "run" => tx' = [tx EXCEPT ![h] = [op |-> "cancel", pc |-> "order",
                               key |-> NoKey, order |-> o, items |-> lines[o], write |-> <<>>]]
            /\ pc = "ack" => o \in due /\ status[o] # "pending"
      BY <1>16, Zenon DEF Deliver
    <2>5. hand'.order = o /\ hand'.pc = pc /\ hand'.by = h
          /\ hand' \in [order : Orders, pc : {"run", "ack", "requeue"}, by : Handlers]
      BY <2>4, Zenon
    <2>6. BrokerTypes' BY <1>1, <2>1, <2>3, <2>5, Zenon DEF BrokerTypes
    <2>7. HandInv'
      <3>1. h \in Sessions BY Zenon DEF Sessions
      <3>2. pc = "run" => tx'[h].op = "cancel" /\ tx'[h].order = o
        BY <1>1, <2>4, <3>1 DEF StoreTypes
      <3>3. pc = "ack" => status[o] # "none" BY <1>1, <2>4, Zenon DEF BrokerTypes
      <3> QED BY <2>1, <2>4, <2>5, <3>2, <3>3, Zenon DEF HandInv
    <2>8. ASSUME NEW u \in Orders, Waits(u) PROVE Waits(u)'
      <3>1. CASE u = o BY <2>5, <3>1, Zenon DEF Waits
      <3>2. CASE u # o
        <4>1. hand.order # u BY <1>3, <2>1, NoOrderAssumption, Zenon
        <4> QED BY <2>1, <2>3, <2>8, <3>2, <4>1, Zenon DEF Waits
      <3> QED BY <3>1, <3>2, Zenon
    <2>9. \A u \in Orders : outbox'[u] # "none" => status[u] # "none"
      BY <1>1, <2>1, Zenon DEF EventInv
    <2>10. pub' \in {pub, NoPub} BY <2>1, Zenon
    <2> QED BY <2>1, <2>6, <2>7, <2>8, <2>9, <2>10, BrokerKeeps, Zenon
  <1> QED BY <1>8, <1>9, <1>10, <1>11, <1>12, <1>13, <1>14, <1>15, <1>16, Zenon DEF Broker

-----------------------------------------------------------------------------
LEMMA MonolithStart == Init => MonolithInv
  <1> SUFFICES ASSUME Init PROVE MonolithInv BY Zenon
  <1>1. \A s \in Sessions : tx[s] = NoTx BY Zenon DEF Init
  <1>2. StoreTypes BY Zenon DEF Init, StoreTypes
  <1>3. NoTx.pc = "idle" /\ NoTx.op = "none" /\ NoTx.write = <<>> /\ NoTx.items = <<>>
    BY Zenon DEF NoTx
  <1>4. \A s \in Sessions : TxReads(s) BY <1>1, <1>3, Zenon DEF TxReads
  <1>5. \A s \in Sessions : TxWrites(s)
    <2>1. Len(<<>>) <= Len(<<>>) /\ DOMAIN <<>> = {} OBVIOUS
    <2> QED BY <1>1, <1>3, <2>1, Zenon DEF TxWrites
  <1>6. \A s, t \in Sessions : Apart(s, t)
    <2>1. \A s \in Sessions : Locked(s) = {} BY <1>1, <1>3 DEF Locked
    <2>2. \A s \in Sessions : tx[s].pc # "item" BY <1>1, <1>3, Zenon
    <2> QED BY <2>1, <2>2, Zenon DEF Apart
  <1>7. Explained
    <2>1. \A p \in Products : Holding(p) = {} BY Zenon DEF Holding, Init
    <2>2. \A p \in Products : stock[p] = 0 /\ intake[p] = 0 /\ 0 <= MaxIntake[p]
      BY MonolithAssumption DEF Init
    <2> QED BY <2>1, <2>2, FS_EmptySet DEF Explained
  <1>8. KeyNamesItsOrder BY Zenon DEF Init, KeyNamesItsOrder
  <1>9. StoreInv BY <1>2, <1>4, <1>5, <1>6, <1>7, <1>8, Zenon DEF StoreInv
  <1>10. BrokerTypes BY MonolithAssumption DEF Init, BrokerTypes
  <1>11. HandInv BY Zenon DEF Init, HandInv, NoHand
  <1>12. EventInv BY Zenon DEF Init, EventInv, NoPub
  <1> QED BY <1>9, <1>10, <1>11, <1>12, Zenon DEF MonolithInv, BrokerInv

LEMMA MonolithStep == MonolithInv /\ [Next]_vars => MonolithInv'
  <1> SUFFICES ASSUME StoreInv, BrokerInv, [Next]_vars PROVE MonolithInv'
    BY Zenon DEF MonolithInv
  <1>1. StoreInv' BY StoreStep, Zenon
  <1>2. BrokerInv'
    <2>1. ASSUME NEW p \in Products,
                 AddInventory(p) \/ \E q \in Openings : InitInventory(p, q)
          PROVE  BrokerInv'
      <3>1. /\ status' = status /\ outbox' = outbox /\ due' = due /\ tx' = tx /\ delay' = delay
            /\ ready' = ready /\ hand' = hand /\ pub' = pub /\ failures' = failures
        BY <2>1, Zenon DEF AddInventory, InitInventory, brokerVars
      <3> QED BY <3>1, OrderKeepsTimeouts, Zenon
    <2>2. ASSUME NEW o \in Orders, PayOrder(o) \/ FinishOrder(o) PROVE BrokerInv'
      <3>1. /\ outbox' = outbox /\ due' = due /\ tx' = tx /\ delay' = delay
            /\ ready' = ready /\ hand' = hand /\ pub' = pub /\ failures' = failures
        BY <2>2, Zenon DEF PayOrder, FinishOrder, brokerVars
      <3> QED BY <2>2, <3>1, OrderKeepsTimeouts, Zenon
    <2>3. CASE UNCHANGED vars
      <3>1. /\ status' = status /\ outbox' = outbox /\ due' = due /\ tx' = tx /\ delay' = delay
            /\ ready' = ready /\ hand' = hand /\ pub' = pub /\ failures' = failures
        BY <2>3, Zenon DEF vars, storeVars, brokerVars
      <3> QED BY <3>1, OrderKeepsTimeouts, Zenon
    <2>4. ASSUME NEW s \in Clients, Request(s) PROVE BrokerInv'
      <3>1. s \in Sessions BY Zenon DEF Sessions
      <3> QED BY <2>4, <3>1, RequestKeepsTimeouts, Zenon
    <2> QED BY <2>1, <2>2, <2>3, <2>4, TransactKeepsTimeouts, BrokerActionKeepsTimeouts, Zenon
            DEF Next
  <1> QED BY <1>1, <1>2, Zenon DEF MonolithInv

LEMMA MonolithInvariant == Spec => []MonolithInv
  BY MonolithStart, MonolithStep, PTL DEF Spec

(* The variables of the monolith keep their types, with the stock between  *)
(* nothing and what was ever taken in.                                     *)
THEOREM MonolithTypes == Spec => []TypeOK
  <1>1. MonolithInv => TypeOK
    <2> SUFFICES ASSUME StoreInv, BrokerInv PROVE TypeOK BY Zenon DEF MonolithInv
    <2>1. ASSUME NEW p \in Products PROVE stock[p] <= intake[p] /\ intake[p] <= MaxIntake[p]
      <3>1. /\ IsFiniteSet(Holding(p)) /\ intake[p] = stock[p] + Cardinality(Holding(p))
            /\ intake[p] <= MaxIntake[p]
        BY Zenon DEF StoreInv, Explained
      <3>2. Cardinality(Holding(p)) \in Nat /\ stock[p] \in Nat
        BY <3>1, FS_CardinalityType, Zenon DEF StoreInv, StoreTypes
      <3> QED BY <3>1, <3>2
    <2> QED BY <2>1, Zenon DEF StoreInv, StoreTypes, BrokerInv, BrokerTypes, TypeOK
  <1> QED BY <1>1, MonolithInvariant, PTL

(* Theorem for OrdersExplainStock, for any number of products, orders and  *)
(* connections: what a transaction has written is one piece away from a    *)
(* row that nobody else has locked, and the order whose pieces it moves is *)
(* still new or pending, so no update of the stock is lost and none is     *)
(* made twice.  It rests on MenuAssumption: a list that named a product    *)
(* twice would write its row twice.                                        *)
THEOREM StockIsExplained == Spec => []OrdersExplainStock
  <1>1. MonolithInv => OrdersExplainStock
    <2> SUFFICES ASSUME StoreInv, NEW p \in Products
                 PROVE  stock[p] >= 0 /\ intake[p] = stock[p] + Cardinality(Holding(p))
      BY Zenon DEF MonolithInv, OrdersExplainStock, Holding
    <2>1. stock[p] \in Nat BY Zenon DEF StoreInv, StoreTypes
    <2> QED BY <2>1 DEF StoreInv, Explained
  <1> QED BY <1>1, MonolithInvariant, PTL

(* Theorem for KeyNamesItsOrder: no two transactions hold a key, and the   *)
(* record of a key and its order are written by the same commit.           *)
THEOREM KeysNameTheirOrders == Spec => []KeyNamesItsOrder
  <1>1. MonolithInv => KeyNamesItsOrder BY Zenon DEF MonolithInv, StoreInv
  <1> QED BY <1>1, MonolithInvariant, PTL

(* Theorem for NotForgotten, with any number of failures of the broker     *)
(* session: an event is marked published when the broker has its message,  *)
(* and a delivery is acknowledged when its order is no longer pending.     *)
THEOREM TimeoutsAreNotForgotten == Spec => []NotForgotten
  <1>1. MonolithInv => NotForgotten
    BY Zenon DEF MonolithInv, BrokerInv, EventInv, Waits, NotForgotten
  <1> QED BY <1>1, MonolithInvariant, PTL

(* Theorem for FollowsLife: a commit finds its order as it was when it was *)
(* locked, new or pending.                                                 *)
THEOREM OrdersFollowTheirLife == Spec => FollowsLife
  <1> DEFINE Moves(o) == status'[o] # status[o] =>
               <<status[o], status'[o]>> \in {<<"none", "pending">>, <<"pending", "paid">>,
                                              <<"pending", "cancelled">>, <<"paid", "finished">>}
  <1>1. MonolithInv /\ [Next]_vars => [\A o \in Orders : Moves(o)]_vars
    <2> SUFFICES ASSUME StoreInv, Next, NEW o \in Orders, status'[o] # status[o]
                 PROVE  Moves(o)
      BY Zenon DEF MonolithInv
    <2>1. StoreTypes BY Zenon DEF StoreInv
    <2>2. ASSUME NEW u \in Orders, PayOrder(u) \/ FinishOrder(u) PROVE Moves(o)
      <3>1. \/ status' = [status EXCEPT ![u] = "paid"] /\ status[u] = "pending"
            \/ status' = [status EXCEPT ![u] = "finished"] /\ status[u] = "paid"
        BY <2>2, Zenon DEF PayOrder, FinishOrder
      <3> QED BY <2>1, <3>1, Zenon DEF StoreTypes
    <2>3. ASSUME NEW s \in Sessions, CommitCreate(s) \/ CommitCancel(s) PROVE Moves(o)
      <3>1. TxReads(s) /\ tx[s].pc = "item"
        BY <2>3, Zenon DEF StoreInv, CommitCreate, CommitCancel, CommitStock
      <3>2. \/ status' = [status EXCEPT ![tx[s].order] = "pending"] /\ status[tx[s].order] = "none"
            \/ status' = [status EXCEPT ![tx[s].order] = "cancelled"]
               /\ status[tx[s].order] = "pending"
        BY <2>3, <3>1, Zenon DEF CommitCreate, CommitCancel, TxReads
      <3> QED BY <2>1, <3>2, Zenon DEF StoreTypes
    <2>4. CASE status' = status BY <2>4, Zenon
    <2>5. ASSUME NEW s \in Sessions, Request(s) PROVE status' = status
      BY <2>5, Zenon DEF Request, BeginCreate, BeginCancel, storeVars
    <2>6. ASSUME NEW s \in Sessions, LockItem(s) \/ PatchOrder(s) \/ Rollback(s)
          PROVE  status' = status
      BY <2>6, Zenon DEF LockItem, PatchOrder, Rollback, storeVars
    <2>7. ASSUME Broker PROVE status' = status
      BY <2>7, Zenon DEF Broker, ConnectionCloses, MarkPublished, MarkFailed, Ack, Requeue,
                  PublishEvent, AttemptDue, Deadline, MessageExpires, Deliver, storeVars
    <2>8. ASSUME NEW p \in Products,
                 AddInventory(p) \/ \E q \in Openings : InitInventory(p, q)
          PROVE  status' = status
      BY <2>8, Zenon DEF AddInventory, InitInventory
    <2> HIDE DEF Moves
    <2> QED BY <2>2, <2>3, <2>4, <2>5, <2>6, <2>7, <2>8, ZenonT(30) DEF Next, Transact, Sessions
  <1> QED BY <1>1, MonolithInvariant, PTL DEF Spec, FollowsLife
=============================================================================
