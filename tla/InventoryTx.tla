----------------------------- MODULE InventoryTx -----------------------------
(***************************************************************************)
(* The transactions of the inventory service, statement by statement, as   *)
(* InnoDB runs them concurrently.  A transaction takes exclusive row locks *)
(* as it goes and holds them to its end.  Its updates make new versions of *)
(* the rows, which nobody else sees until it commits: the variables of     *)
(* Inventory are the committed rows, and a commit puts the versions of the *)
(* transaction in their place without looking at them again.  A statement  *)
(* that needs a row another transaction holds waits for it.  Gap locks,    *)
(* and the shared locks that a failed duplicate-key check leaves behind,   *)
(* are not modelled.                                                       *)
(*                                                                         *)
(* Products are numbers, because the code orders its locks by product id.  *)
(***************************************************************************)
EXTENDS Inventory

CONSTANT Txns           \* connections of the pool: one transaction at a time each

ASSUME ProductAssumption == Products \subseteq Nat /\ IsFiniteSet(Products)

VARIABLE tx             \* what each connection is doing

txVars == <<vars, tx>>

Requests ==
  [op : {"initialize"}, product : Products, quantity : Quantities \cup {0}]
    \cup [op : {"add"}, product : Products, quantity : Quantities]
    \cup [op : {"reserve"}, order : Orders, demand : Demands]
    \cup [op : {"confirm", "release"}, order : Orders]

NoRequest == [op |-> "none"]

(* pc is the next statement: the snapshot read of Reserve, the insert or   *)
(* the FOR UPDATE read of the reservation row, the rows of inventory_items *)
(* in turn, then COMMIT.  held is the set of inventory rows locked so far, *)
(* avail and resv are the columns that the updates gave them.              *)
TxTypeOK ==
  /\ TypeOK
  /\ tx \in [Txns -> [pc : {"idle", "read", "reservation", "item", "commit"},
                      req : Requests \cup {NoRequest},
                      held : SUBSET Products,
                      avail : [Products -> Int], resv : [Products -> Int]]]

Waiting(pc, req) == [pc |-> pc, req |-> req, held |-> {}, avail |-> NoItems, resv |-> NoItems]

Idle == Waiting("idle", NoRequest)

TxInit == Init /\ tx = [t \in Txns |-> Idle]

-----------------------------------------------------------------------------
ForOrder(t) == tx[t].req.op \in {"reserve", "confirm", "release"}

(* Rows of inventory_items that the request touches.                       *)
Rows(t) ==
  LET r == tx[t].req
  IN  {p \in Products : \/ r.op \in {"initialize", "add"} /\ r.product = p
                        \/ r.op = "reserve" /\ r.demand[p] > 0
                        \/ r.op \in {"confirm", "release"} /\ items[r.order][p] > 0}

(* Mutant of NextRow: Reserve goes through the rows the other way.         *)
NextRowUnsorted(t) ==
  CHOOSE p \in Rows(t) \ tx[t].held : \A x \in Rows(t) \ tx[t].held :
    IF tx[t].req.op = "reserve" THEN p >= x ELSE p <= x

(* The rows are visited in ascending product id (normalizeItems sorts, and *)
(* so does transition).                                                    *)
NextRow(t) == CHOOSE p \in Rows(t) \ tx[t].held :
                \A x \in Rows(t) \ tx[t].held : p <= x

HoldsReservation(t, o) ==
  ForOrder(t) /\ tx[t].req.order = o /\ tx[t].pc \in {"item", "commit"}

ReservationFree(t) ==
  \A u \in Txns \ {t} : ~HoldsReservation(u, tx[t].req.order)

(* Mutants of RowFree: the row is read without FOR UPDATE, everywhere or   *)
(* in Confirm and Release.                                                 *)
RowFreeWithoutLock(t) == tx[t].pc = "item"

RowFreeInTransition(t) ==
  \/ tx[t].req.op \in {"confirm", "release"}
  \/ \A u \in Txns \ {t} : NextRow(t) \notin tx[u].held

RowFree(t) == \A u \in Txns \ {t} : NextRow(t) \notin tx[u].held

(* The operation answers without a change: it was done before, or it is    *)
(* refused and the transaction rolls back.                                 *)
End(t) == tx' = [tx EXCEPT ![t] = Idle] /\ UNCHANGED vars

GoTo(t, pc) == tx' = [tx EXCEPT ![t].pc = pc] /\ UNCHANGED vars

Begin(t, req) ==
  /\ tx[t].pc = "idle"
  /\ tx' = [tx EXCEPT ![t] = Waiting(CASE req.op = "reserve" -> "read"
                                       [] req.op \in {"confirm", "release"} -> "reservation"
                                       [] OTHER -> "item", req)]
  /\ UNCHANGED vars

(* Reserve's first read takes no lock and sees committed rows only.        *)
ReadExisting(t) ==
  /\ tx[t].pc = "read"
  /\ IF reservation[tx[t].req.order] # "none"
       THEN End(t)
       ELSE GoTo(t, "reservation")

(* Mutant of InsertReservation: order_id has no unique index.              *)
InsertReservationTwice(t) ==
  /\ tx[t].pc = "reservation" /\ tx[t].req.op = "reserve"
  /\ GoTo(t, "item")

(* Inserting the reservation waits for an uncommitted row of the same      *)
(* order, and fails on a committed one.                                    *)
InsertReservation(t) ==
  /\ tx[t].pc = "reservation" /\ tx[t].req.op = "reserve"
  /\ ReservationFree(t)
  /\ IF reservation[tx[t].req.order] # "none"
       THEN End(t)
       ELSE GoTo(t, "item")

(* Only a pending reservation goes on: a missing one is not found, one     *)
(* that has the target status is done, and any other is a conflict.        *)
LockReservation(t) ==
  /\ tx[t].pc = "reservation" /\ tx[t].req.op \in {"confirm", "release"}
  /\ ReservationFree(t)
  /\ IF reservation[tx[t].req.order] = "pending"
       THEN GoTo(t, "item")
       ELSE End(t)

(* What makes the statements on one inventory row fail.                    *)
RowRefused(t, p) ==
  LET r == tx[t].req
  IN  \/ r.op = "initialize" /\ p \in initialized
      \/ r.op = "add" /\ p \notin initialized
      \/ r.op = "reserve" /\ (p \notin initialized \/ available[p] < r.demand[p])
      \/ r.op \in {"confirm", "release"} /\ reserved[p] < items[r.order][p]

(* Mutant of AvailableAfter: a confirmed reservation is given back.        *)
AvailableAfterReturning(t, p) ==
  LET r == tx[t].req
  IN  CASE r.op = "initialize" -> r.quantity
        [] r.op = "add" -> available[p] + r.quantity
        [] r.op = "reserve" -> available[p] - r.demand[p]
        [] OTHER -> available[p] + items[r.order][p]

(* The columns that the update of a row leaves.                            *)
AvailableAfter(t, p) ==
  LET r == tx[t].req
  IN  CASE r.op = "initialize" -> r.quantity
        [] r.op = "add" -> available[p] + r.quantity
        [] r.op = "reserve" -> available[p] - r.demand[p]
        [] r.op = "release" -> available[p] + items[r.order][p]
        [] OTHER -> available[p]

ReservedAfter(t, p) ==
  LET r == tx[t].req
  IN  CASE r.op = "initialize" -> 0
        [] r.op = "reserve" -> reserved[p] + r.demand[p]
        [] r.op \in {"confirm", "release"} -> reserved[p] - items[r.order][p]
        [] OTHER -> reserved[p]

(* An update that leaves the range of BIGINT fails.                        *)
WithinBigint(t, p) ==
  AvailableAfter(t, p) <= MaxBigint /\ ReservedAfter(t, p) <= MaxBigint

(* Lock one row and update it, or fail and roll back.                      *)
TakeRow(t) ==
  /\ tx[t].pc = "item"
  /\ RowFree(t)
  /\ LET p == NextRow(t)
     IN  IF RowRefused(t, p) \/ ~WithinBigint(t, p)
         THEN End(t)
         ELSE /\ tx' = [tx EXCEPT ![t].held = @ \cup {p},
                                  ![t].avail[p] = AvailableAfter(t, p),
                                  ![t].resv[p] = ReservedAfter(t, p),
                                  ![t].pc = IF Rows(t) = tx[t].held \cup {p}
                                              THEN "commit" ELSE "item"]
              /\ UNCHANGED vars

(* Mutant of Moved: a release is not logged.                               *)
MovedUnlogged(t) ==
  LET r == tx[t].req
  IN  CASE r.op \in {"initialize", "add"} -> Only(r.product, r.quantity)
        [] r.op = "reserve" -> Minus(r.demand)
        [] r.op = "confirm" -> Minus(items[r.order])
        [] OTHER -> NoItems

(* The quantities of the stock-log rows that the request inserts.          *)
Moved(t) ==
  LET r == tx[t].req
  IN  CASE r.op \in {"initialize", "add"} -> Only(r.product, r.quantity)
        [] r.op = "reserve" -> Minus(r.demand)
        [] r.op = "confirm" -> Minus(items[r.order])
        [] OTHER -> items[r.order]

(* The status that the request gives to its reservation.                   *)
StatusAfter(op) ==
  CASE op = "reserve" -> "pending" [] op = "confirm" -> "confirmed" [] OTHER -> "released"

(* The versions of the rows that the transaction made become the committed *)
(* ones, whatever these are by now.                                        *)
Commit(t) ==
  LET r == tx[t].req
      held == tx[t].held
  IN  /\ tx[t].pc = "commit"
      /\ initialized' = IF r.op = "initialize" THEN initialized \cup held ELSE initialized
      /\ available' = [p \in Products |-> IF p \in held THEN tx[t].avail[p] ELSE available[p]]
      /\ reserved' = [p \in Products |-> IF p \in held THEN tx[t].resv[p] ELSE reserved[p]]
      /\ reservation' = IF ForOrder(t) THEN [reservation EXCEPT ![r.order] = StatusAfter(r.op)]
                                       ELSE reservation
      /\ items' = IF r.op = "reserve" THEN [items EXCEPT ![r.order] = r.demand] ELSE items
      /\ logged' = Log(r.op, Moved(t))
      /\ tx' = [tx EXCEPT ![t] = Idle]

(* A failed statement, a cancelled request context or a lost connection    *)
(* rolls the transaction back at any point.                                *)
Abort(t) == tx[t].pc # "idle" /\ End(t)

Step(t) ==
  \/ ReadExisting(t) \/ InsertReservation(t) \/ LockReservation(t)
  \/ TakeRow(t) \/ Commit(t)

(* The operations arrive over HTTP or over gRPC: the methods of GRPCServer *)
(* call the same service and only translate its result.                    *)
TxNext ==
  \E t \in Txns : (\E req \in Requests : Begin(t, req)) \/ Step(t) \/ Abort(t)

TxSpec == TxInit /\ [][TxNext]_txVars

-----------------------------------------------------------------------------
(* Transaction t waits for a row that transaction u holds.                 *)
WaitsFor(t, u) ==
  \/ /\ tx[t].pc = "reservation"
     /\ HoldsReservation(u, tx[t].req.order)
  \/ /\ tx[t].pc = "item"
     /\ NextRow(t) \in tx[u].held

(* No set of transactions waits on one another: the reservation row is     *)
(* locked first and the inventory rows in ascending product id, in Reserve *)
(* as in Confirm and Release, so InnoDB never has to break a deadlock.     *)
NoLockCycle ==
  \A S \in (SUBSET Txns) \ {{}} :
    \E t \in S : \A u \in S \ {t} : ~WaitsFor(t, u)

(* What the operation of Inventory needs of the committed rows.            *)
Possible(req) ==
  /\ req.op = "initialize" => req.product \notin initialized /\ req.quantity <= MaxBigint
  /\ req.op = "add" => /\ req.product \in initialized
                       /\ available[req.product] + req.quantity <= MaxBigint
  /\ req.op = "reserve" => reservation[req.order] = "none" /\ Enough(req.demand)
  /\ req.op \in {"confirm", "release"} =>
       reservation[req.order] = "pending" /\ Covered(req.order)
  /\ req.op = "release" => InRange(req.order)

(* A commit finds what its row checks established: whatever ran between    *)
(* the check of a row and the commit, the update is still possible.        *)
CommitNeverFails ==
  \A t \in Txns : tx[t].pc = "commit" => Possible(tx[t].req)

(* Every commit is one atomic operation of Inventory on the rows as they   *)
(* are then: although a transaction computes each row at another moment    *)
(* and others commit in between, no update is lost, nothing is settled or  *)
(* reserved twice and no part of a request is missing.  Spec is the        *)
(* specification of that module, over the committed rows.                  *)
AtomicSpec == Spec
=============================================================================
