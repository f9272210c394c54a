------------------------------ MODULE Inventory ------------------------------
(***************************************************************************)
(* The inventory service (internal/inventorysvc): stock per product, one   *)
(* reservation per order, and the stock log.  Every operation of the       *)
(* service is one database transaction, and here it is one step;           *)
(* InventoryTx.tla breaks the transactions into statements and shows that  *)
(* they implement these steps.                                             *)
(*                                                                         *)
(* A reservation is identified by its order: order-service draws one       *)
(* reservation id per order, and order_id is unique in                     *)
(* inventory_reservations.  The version column is written by every update  *)
(* and read by none, so it is left out.                                    *)
(***************************************************************************)
EXTENDS Integers, FiniteSets

CONSTANTS Products,     \* product ids
          Orders,       \* order ids
          Quantities,   \* the amounts a request can carry
          MaxBigint     \* largest value of a BIGINT column

ASSUME QuantityAssumption == Quantities \subseteq Nat \ {0}

ASSUME BigintAssumption == MaxBigint \in Nat

VARIABLES initialized,  \* products that have an inventory_items row
          available,    \* available_quantity
          reserved,     \* reserved_quantity
          reservation,  \* status of the order's reservation, or "none"
          items,        \* quantities held by the order's reservation
          logged        \* per product and change type, the sum of the stock log

vars == <<initialized, available, reserved, reservation, items, logged>>

ReservationStatus == {"pending", "confirmed", "released"}

ChangeType == {"initialize", "add", "reserve", "confirm", "release"}

(* What normalizeItems hands to the transaction: at least one product, and *)
(* one positive quantity for each; 0 stands for a product not asked for.   *)
Demands == {d \in [Products -> Quantities \cup {0}] : \E p \in Products : d[p] > 0}

NoItems == [p \in Products |-> 0]

TypeOK ==
  /\ initialized \subseteq Products
  /\ available \in [Products -> 0..MaxBigint]
  /\ reserved \in [Products -> 0..MaxBigint]
  /\ reservation \in [Orders -> ReservationStatus \cup {"none"}]
  /\ items \in [Orders -> [Products -> Nat]]
  /\ logged \in [Products -> [ChangeType -> Int]]

Init ==
  /\ initialized = {}
  /\ available = NoItems
  /\ reserved = NoItems
  /\ reservation = [o \in Orders |-> "none"]
  /\ items = [o \in Orders |-> NoItems]
  /\ logged = [p \in Products |-> [t \in ChangeType |-> 0]]

-----------------------------------------------------------------------------
(* Appending a stock-log row of q(p) units for each product of a request.  *)
Log(type, q) == [p \in Products |-> [logged[p] EXCEPT ![type] = @ + q[p]]]

Only(p, q) == [x \in Products |-> IF x = p THEN q ELSE 0]

Minus(f) == [p \in Products |-> -f[p]]

(* Init: a second row for the product is refused by the primary key.       *)
InitStock(p, q) ==
  /\ p \notin initialized
  /\ q <= MaxBigint
  /\ initialized' = initialized \cup {p}
  /\ available' = [available EXCEPT ![p] = q]
  /\ logged' = Log("initialize", Only(p, q))
  /\ UNCHANGED <<reserved, reservation, items>>

(* Add: the sum is evaluated as a BIGINT, and one out of range fails the   *)
(* statement.                                                              *)
Add(p, q) ==
  /\ p \in initialized
  /\ available[p] + q <= MaxBigint
  /\ available' = [available EXCEPT ![p] = @ + q]
  /\ logged' = Log("add", Only(p, q))
  /\ UNCHANGED <<initialized, reserved, reservation, items>>

Enough(d) ==
  \A p \in Products : d[p] > 0 => /\ p \in initialized
                                  /\ available[p] >= d[p]
                                  /\ reserved[p] + d[p] <= MaxBigint

(* Reserve takes every product or, when one is missing or short, none.  An *)
(* order that already has a reservation gets that one back and nothing     *)
(* changes, whatever its status.                                           *)
Reserve(o, d) ==
  /\ reservation[o] = "none"
  /\ Enough(d)
  /\ reservation' = [reservation EXCEPT ![o] = "pending"]
  /\ items' = [items EXCEPT ![o] = d]
  /\ available' = [p \in Products |-> available[p] - d[p]]
  /\ reserved' = [p \in Products |-> reserved[p] + d[p]]
  /\ logged' = Log("reserve", Minus(d))
  /\ UNCHANGED initialized

(* The conditional update of transition, for every item.                   *)
Covered(o) == \A p \in Products : reserved[p] >= items[o][p]

Confirm(o) ==
  /\ reservation[o] = "pending"
  /\ Covered(o)
  /\ reservation' = [reservation EXCEPT ![o] = "confirmed"]
  /\ reserved' = [p \in Products |-> reserved[p] - items[o][p]]
  /\ logged' = Log("confirm", Minus(items[o]))
  /\ UNCHANGED <<initialized, available, items>>

(* The available stock that Release would write is within BIGINT.          *)
InRange(o) == \A p \in Products : available[p] + items[o][p] <= MaxBigint

Release(o) ==
  /\ reservation[o] = "pending"
  /\ Covered(o)
  /\ InRange(o)
  /\ reservation' = [reservation EXCEPT ![o] = "released"]
  /\ reserved' = [p \in Products |-> reserved[p] - items[o][p]]
  /\ available' = [p \in Products |-> available[p] + items[o][p]]
  /\ logged' = Log("release", items[o])
  /\ UNCHANGED <<initialized, items>>

(* One operation per route of the service.  Requests that a handler turns  *)
(* away, and the routes that only read, change nothing.                    *)
Next ==
  \/ \E p \in Products, q \in Quantities \cup {0} : InitStock(p, q)
  \/ \E p \in Products, q \in Quantities : Add(p, q)
  \/ \E o \in Orders, d \in Demands : Reserve(o, d)
  \/ \E o \in Orders : Confirm(o) \/ Release(o)

Spec == Init /\ [][Next]_vars

-----------------------------------------------------------------------------
(* The units of product p held by reservations with the given status: one  *)
(* element for each unit of each such reservation.                         *)
Units(p, status) ==
  UNION {{o} \X (1..items[o][p]) : o \in {x \in Orders : reservation[x] = status}}

(* The reserved_quantity of a product is exactly what the pending          *)
(* reservations hold: no transition credits or debits a reservation twice, *)
(* or leaves stock reserved for nobody.                                    *)
ReservedIsPending ==
  \A p \in Products : /\ IsFiniteSet(Units(p, "pending"))
                      /\ reserved[p] = Cardinality(Units(p, "pending"))

(* Stock is conserved: what was put in is available, reserved by a pending *)
(* reservation, or sold by a confirmed one; released stock is back, and    *)
(* nothing is ever sold that was not in stock.                             *)
StockConserved ==
  \A p \in Products :
    /\ IsFiniteSet(Units(p, "confirmed"))
    /\ available[p] + reserved[p] + Cardinality(Units(p, "confirmed"))
         = logged[p]["initialize"] + logged[p]["add"]

(* The stock log is a journal of the two columns: summing the rows of each *)
(* change type reproduces them (a confirm row repeats the quantity its     *)
(* reserve row already took from the available stock).                     *)
LogExplainsStock ==
  \A p \in Products :
    /\ available[p] = logged[p]["initialize"] + logged[p]["add"]
                        + logged[p]["reserve"] + logged[p]["release"]
    /\ reserved[p] = logged[p]["confirm"] - logged[p]["reserve"]
                       - logged[p]["release"]

(* The condition reserved_quantity >= ? in transition never refuses: every *)
(* pending reservation is covered by what is reserved, so Confirm and      *)
(* Release answer ErrReservationTransition only for a reservation that was *)
(* settled the other way.                                                  *)
PendingIsCovered ==
  \A o \in Orders : reservation[o] = "pending" => Covered(o)

(* A settled reservation stays as it was settled, with the items it had:   *)
(* confirm and release exclude each other and both are idempotent.         *)
SettledIsFinal ==
  [][\A o \in Orders :
       /\ reservation[o] \in {"confirmed", "released"}
            => reservation'[o] = reservation[o]
       /\ reservation[o] # "none" => items'[o] = items[o]]_vars
=============================================================================
