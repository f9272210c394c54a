--------------------------- MODULE InventoryProofs ---------------------------
(***************************************************************************)
(* Proofs about Inventory for any set of products and orders, any request  *)
(* quantities and any BIGINT range.  The type invariant and the journal    *)
(* property are inductive together; the units held by pending and by       *)
(* confirmed reservations are counted as cardinalities of sets, so that    *)
(* the finite-set theorems carry the sums.                                 *)
(*                                                                         *)
(* The second part is about InventoryTx, for any number of transactions:   *)
(* its inductive invariant TxInv, that no commit fails, that locks never   *)
(* form a cycle, and that the transactions implement Inventory, so that    *)
(* the first part holds of them too.                                       *)
(***************************************************************************)
EXTENDS InventoryTx, FiniteSetTheorems, WellFoundedInduction, TLAPS

(* Every demand normalizeItems lets through holds natural quantities.      *)
LEMMA DemandType ==
  ASSUME NEW d \in Demands
  PROVE  d \in [Products -> Nat]
  <1>1. d \in [Products -> Quantities \cup {0}]
    BY Zenon DEF Demands
  <1>2. Quantities \cup {0} \subseteq Nat
    BY QuantityAssumption
  <1>3. QED
    BY <1>1, <1>2, Zenon

(* One reservation of n units holds a finite set of n units.               *)
LEMMA HeldUnits ==
  ASSUME NEW o, NEW n \in Nat
  PROVE  /\ IsFiniteSet({o} \X (1..n))
         /\ Cardinality({o} \X (1..n)) = n
  <1>1. IsFiniteSet(1..n) /\ Cardinality(1..n) = n
    BY FS_Interval
  <1>2. IsFiniteSet({o}) /\ Cardinality({o}) = 1
    BY FS_Singleton, Zenon
  <1>3. QED
    BY <1>1, <1>2, FS_Product

(* Adding the units of one more reservation adds their number.             *)
LEMMA UnitsJoin ==
  ASSUME NEW S, IsFiniteSet(S), NEW T, IsFiniteSet(T), S \cap T = {}
  PROVE  /\ IsFiniteSet(S \cup T)
         /\ Cardinality(S \cup T) = Cardinality(S) + Cardinality(T)
  <1>1. Cardinality(S) \in Nat /\ Cardinality(T) \in Nat
    BY FS_CardinalityType, Zenon
  <1>2. QED
    BY <1>1, FS_Union, FS_EmptySet

(* Removing the units of a reservation subtracts their number.             *)
LEMMA UnitsLeave ==
  ASSUME NEW S, IsFiniteSet(S), NEW T \in SUBSET S
  PROVE  /\ IsFiniteSet(S \ T)
         /\ Cardinality(S \ T) = Cardinality(S) - Cardinality(T)
         /\ Cardinality(T) <= Cardinality(S)
  <1>1. S \cap T = T
    BY Zenon
  <1>2. IsFiniteSet(S \ T) /\ Cardinality(S \ T) = Cardinality(S) - Cardinality(S \cap T)
    BY FS_Difference, Zenon
  <1>3. Cardinality(T) <= Cardinality(S)
    BY FS_Subset, Zenon
  <1>4. QED
    BY <1>1, <1>2, <1>3, Zenon

-----------------------------------------------------------------------------
(* Every operation writes columns of their types: the quantities it takes  *)
(* are there, and those it adds stay within BIGINT.                        *)
LEMMA TypeStep == TypeOK /\ [Next]_vars => TypeOK'
  <1> SUFFICES ASSUME TypeOK, [Next]_vars PROVE TypeOK'
    BY Zenon
  <1> USE BigintAssumption, QuantityAssumption
      DEF TypeOK, Log, Only, Minus, ChangeType, ReservationStatus
  <1>1. ASSUME NEW p \in Products, NEW q \in Quantities \cup {0}, InitStock(p, q)
        PROVE  TypeOK'
    BY <1>1 DEF InitStock
  <1>2. ASSUME NEW p \in Products, NEW q \in Quantities, Add(p, q)
        PROVE  TypeOK'
    BY <1>2 DEF Add
  <1>3. ASSUME NEW o \in Orders, NEW d \in Demands, Reserve(o, d)
        PROVE  TypeOK'
    <2>1. d \in [Products -> Nat]
      BY DemandType, Zenon
    <2>2. \A p \in Products : available[p] - d[p] \in 0..MaxBigint
      <3> TAKE p \in Products
      <3>1. d[p] \in Nat /\ available[p] \in 0..MaxBigint
        BY <2>1, Zenon
      <3>2. available[p] >= d[p]
        BY <1>3, <3>1 DEF Reserve, Enough
      <3>3. QED
        BY <3>1, <3>2
    <2>3. \A p \in Products : reserved[p] + d[p] \in 0..MaxBigint
      BY <1>3, <2>1 DEF Reserve, Enough
    <2>4. logged' \in [Products -> [ChangeType -> Int]]
      BY <1>3, <2>1 DEF Reserve
    <2>5. QED
      BY <1>3, <2>1, <2>2, <2>3, <2>4, Zenon DEF Reserve
  <1>4. ASSUME NEW o \in Orders, Confirm(o)
        PROVE  TypeOK'
    BY <1>4 DEF Confirm, Covered
  <1>5. ASSUME NEW o \in Orders, Release(o)
        PROVE  TypeOK'
    BY <1>5 DEF Release, Covered, InRange
  <1>6. CASE UNCHANGED vars
    BY <1>6, Zenon DEF vars
  <1>7. QED
    BY <1>1, <1>2, <1>3, <1>4, <1>5, <1>6, Zenon DEF Next

(* The columns keep their types, and no available or reserved quantity     *)
(* leaves the range its CHECK constraint and BIGINT allow, whatever the    *)
(* order of Init, Add, Reserve, Confirm and Release calls.                 *)
THEOREM TypeCorrect == Spec => []TypeOK
  <1>1. Init => TypeOK
    BY BigintAssumption DEF Init, TypeOK, NoItems
  <1>2. QED
    BY <1>1, TypeStep, PTL DEF Spec
-----------------------------------------------------------------------------
(* How the units of a product change: a reservation that becomes pending   *)
(* brings its own, one that is settled takes them with it.                 *)
LEMMA ReserveUnits ==
  ASSUME TypeOK, NEW o \in Orders, NEW d \in Demands, Reserve(o, d),
         NEW p \in Products
  PROVE  /\ Units(p, "pending")' = Units(p, "pending") \cup ({o} \X (1..d[p]))
         /\ Units(p, "pending") \cap ({o} \X (1..d[p])) = {}
         /\ Units(p, "confirmed")' = Units(p, "confirmed")
  <1>1. /\ reservation[o] = "none"
        /\ reservation' = [reservation EXCEPT ![o] = "pending"]
        /\ items' = [items EXCEPT ![o] = d]
    BY Zenon DEF Reserve
  <1>2. /\ \A x \in Orders : reservation'[x] = IF x = o THEN "pending" ELSE reservation[x]
        /\ \A x \in Orders : items'[x] = IF x = o THEN d ELSE items[x]
    BY <1>1, Zenon DEF TypeOK
  <1>3. Units(p, "pending")' = Units(p, "pending") \cup ({o} \X (1..d[p]))
    BY <1>1, <1>2 DEF Units
  <1>4. Units(p, "pending") \cap ({o} \X (1..d[p])) = {}
    BY <1>1 DEF Units
  <1>5. Units(p, "confirmed")' = Units(p, "confirmed")
    BY <1>1, <1>2 DEF Units
  <1>6. QED
    BY <1>3, <1>4, <1>5, Zenon

LEMMA SettleUnits ==
  ASSUME TypeOK, NEW o \in Orders, Confirm(o) \/ Release(o), NEW p \in Products
  PROVE  /\ Units(p, "pending")' = Units(p, "pending") \ ({o} \X (1..items[o][p]))
         /\ {o} \X (1..items[o][p]) \subseteq Units(p, "pending")
         /\ Units(p, "confirmed")'
              = IF Confirm(o)
                  THEN Units(p, "confirmed") \cup ({o} \X (1..items[o][p]))
                  ELSE Units(p, "confirmed")
         /\ Units(p, "confirmed") \cap ({o} \X (1..items[o][p])) = {}
  <1> DEFINE settled == IF Confirm(o) THEN "confirmed" ELSE "released"
  <1>1. /\ reservation[o] = "pending"
        /\ reservation' = [reservation EXCEPT ![o] = settled]
        /\ items' = items
    BY Zenon DEF Confirm, Release
  <1>2. \A x \in Orders : reservation'[x] = IF x = o THEN settled ELSE reservation[x]
    BY <1>1, Zenon DEF TypeOK
  <1>3. Units(p, "pending")' = Units(p, "pending") \ ({o} \X (1..items[o][p]))
    BY <1>1, <1>2 DEF Units
  <1>4. {o} \X (1..items[o][p]) \subseteq Units(p, "pending")
    BY <1>1, Zenon DEF Units
  <1>5. CASE Confirm(o)
    <2>1. Units(p, "confirmed")' = Units(p, "confirmed") \cup ({o} \X (1..items[o][p]))
      BY <1>1, <1>2, <1>5 DEF Units
    <2>2. Units(p, "confirmed") \cap ({o} \X (1..items[o][p])) = {}
      BY <1>1 DEF Units
    <2>3. QED
      BY <1>3, <1>4, <1>5, <2>1, <2>2, Zenon
  <1>6. CASE ~Confirm(o)
    <2>1. Units(p, "confirmed")' = Units(p, "confirmed")
      BY <1>1, <1>2, <1>6 DEF Units
    <2>2. Units(p, "confirmed") \cap ({o} \X (1..items[o][p])) = {}
      BY <1>1 DEF Units
    <2>3. QED
      BY <1>3, <1>4, <1>6, <2>1, <2>2, Zenon
  <1>7. QED
    BY <1>5, <1>6, Zenon
-----------------------------------------------------------------------------
(* Init and Add move no reservation, so the units stay what they are.      *)
LEMMA StockUnits ==
  ASSUME UNCHANGED <<reservation, items>>, NEW p \in Products, NEW st
  PROVE  Units(p, st)' = Units(p, st)
  BY Zenon DEF Units

(* The reserved_quantity column always equals the units of the pending     *)
(* reservations: Reserve, Confirm and Release keep the counter and the     *)
(* reservation rows in step.                                               *)
LEMMA ReservedStep == TypeOK /\ ReservedIsPending /\ [Next]_vars => ReservedIsPending'
  <1> SUFFICES ASSUME TypeOK, ReservedIsPending, [Next]_vars, NEW p \in Products
               PROVE  /\ IsFiniteSet(Units(p, "pending")')
                      /\ reserved'[p] = Cardinality(Units(p, "pending")')
    BY Zenon DEF ReservedIsPending
  <1>1. /\ IsFiniteSet(Units(p, "pending"))
        /\ reserved[p] = Cardinality(Units(p, "pending"))
        /\ reserved[p] \in Nat
    BY DEF ReservedIsPending, TypeOK
  <1>2. CASE UNCHANGED <<reserved, reservation, items>>
    BY <1>1, <1>2, StockUnits, Zenon
  <1>3. ASSUME NEW o \in Orders, NEW d \in Demands, Reserve(o, d)
        PROVE  /\ IsFiniteSet(Units(p, "pending")')
               /\ reserved'[p] = Cardinality(Units(p, "pending")')
    <2> DEFINE new == {o} \X (1..d[p])
    <2>1. d[p] \in Nat
      BY DemandType, Zenon
    <2>2. IsFiniteSet(new) /\ Cardinality(new) = d[p]
      BY <2>1, HeldUnits, Zenon
    <2>3. /\ Units(p, "pending")' = Units(p, "pending") \cup new
          /\ Units(p, "pending") \cap new = {}
      BY <1>3, ReserveUnits, Zenon
    <2>4. reserved'[p] = reserved[p] + d[p]
      BY <1>3, Zenon DEF Reserve
    <2> HIDE DEF new
    <2>5. QED
      BY <1>1, <2>2, <2>3, <2>4, UnitsJoin
  <1>4. ASSUME NEW o \in Orders, Confirm(o) \/ Release(o)
        PROVE  /\ IsFiniteSet(Units(p, "pending")')
               /\ reserved'[p] = Cardinality(Units(p, "pending")')
    <2> DEFINE old == {o} \X (1..items[o][p])
    <2>1. items[o][p] \in Nat
      BY Zenon DEF TypeOK
    <2>2. IsFiniteSet(old) /\ Cardinality(old) = items[o][p]
      BY <2>1, HeldUnits, Zenon
    <2>3. /\ Units(p, "pending")' = Units(p, "pending") \ old
          /\ old \in SUBSET Units(p, "pending")
      BY <1>4, SettleUnits, Zenon
    <2>4. reserved'[p] = reserved[p] - items[o][p]
      BY <1>4, Zenon DEF Confirm, Release
    <2> HIDE DEF old
    <2>5. QED
      BY <1>1, <2>2, <2>3, <2>4, UnitsLeave, Zenon
  <1>5. QED
    BY <1>2, <1>3, <1>4, Zenon DEF Next, vars, InitStock, Add

LEMMA NoUnits ==
  ASSUME Init, NEW p \in Products, NEW st \in ReservationStatus
  PROVE  Units(p, st) = {}
  BY Zenon DEF Init, Units, ReservationStatus

(* Theorem for ReservedIsPending: no sequence of calls leaves stock        *)
(* reserved that no pending reservation holds, or the reverse.             *)
THEOREM ReservedMatches == Spec => []ReservedIsPending
  <1>1. Init => ReservedIsPending
    <2> SUFFICES ASSUME Init, NEW p \in Products
                 PROVE  /\ IsFiniteSet(Units(p, "pending"))
                        /\ reserved[p] = Cardinality(Units(p, "pending"))
      BY Zenon DEF ReservedIsPending
    <2>1. Units(p, "pending") = {}
      BY NoUnits, Zenon DEF ReservationStatus
    <2>2. reserved[p] = 0
      BY Zenon DEF Init, NoItems
    <2>3. QED
      BY <2>1, <2>2, FS_EmptySet, Zenon
  <1>2. QED
    BY <1>1, ReservedStep, TypeCorrect, PTL DEF Spec

(* Theorem for PendingIsCovered: the reserved_quantity >= ? condition of   *)
(* transition holds for every pending reservation, so it never refuses.    *)
THEOREM TransitionNeverShort == Spec => []PendingIsCovered
  <1>1. TypeOK /\ ReservedIsPending => PendingIsCovered
    <2> SUFFICES ASSUME TypeOK, ReservedIsPending,
                        NEW o \in Orders, reservation[o] = "pending",
                        NEW p \in Products
                 PROVE  reserved[p] >= items[o][p]
      BY Zenon DEF PendingIsCovered, Covered
    <2> DEFINE held == {o} \X (1..items[o][p])
    <2>1. items[o][p] \in Nat
      BY Zenon DEF TypeOK
    <2>2. Cardinality(held) = items[o][p]
      BY <2>1, HeldUnits, Zenon
    <2>3. held \in SUBSET Units(p, "pending")
      BY Zenon DEF Units
    <2>4. /\ IsFiniteSet(Units(p, "pending"))
          /\ reserved[p] = Cardinality(Units(p, "pending"))
          /\ reserved[p] \in Nat
      BY DEF ReservedIsPending, TypeOK
    <2> HIDE DEF held
    <2>5. Cardinality(held) <= Cardinality(Units(p, "pending"))
      BY <2>3, <2>4, FS_Subset, Zenon
    <2>6. QED
      BY <2>1, <2>2, <2>4, <2>5, Zenon
  <1>2. QED
    BY <1>1, TypeCorrect, ReservedMatches, PTL
-----------------------------------------------------------------------------
(* A product without a row has no stock and is in no reservation; Init     *)
(* therefore never overwrites stock.  Needed to prove StockConserved and   *)
(* LogExplainsStock, which are not inductive without it.                   *)
RowsBeforeStock ==
  \A p \in Products \ initialized :
    available[p] = 0 /\ reserved[p] = 0 /\ \A o \in Orders : items[o][p] = 0

LEMMA RowsStep == TypeOK /\ RowsBeforeStock /\ [Next]_vars => RowsBeforeStock'
  <1> SUFFICES ASSUME TypeOK, RowsBeforeStock, [Next]_vars,
                      NEW p \in Products, p \notin initialized'
               PROVE  available'[p] = 0 /\ reserved'[p] = 0 /\ \A o \in Orders : items'[o][p] = 0
    BY Zenon DEF RowsBeforeStock
  <1> USE DEF TypeOK, RowsBeforeStock
  <1>1. ASSUME NEW x \in Products, NEW q \in Quantities \cup {0}, InitStock(x, q)
        PROVE  available'[p] = 0 /\ reserved'[p] = 0 /\ \A o \in Orders : items'[o][p] = 0
    BY <1>1, Zenon DEF InitStock
  <1>2. ASSUME NEW x \in Products, NEW q \in Quantities, Add(x, q)
        PROVE  available'[p] = 0 /\ reserved'[p] = 0 /\ \A o \in Orders : items'[o][p] = 0
    BY <1>2, Zenon DEF Add
  <1>3. ASSUME NEW o \in Orders, NEW d \in Demands, Reserve(o, d)
        PROVE  available'[p] = 0 /\ reserved'[p] = 0 /\ \A r \in Orders : items'[r][p] = 0
    <2>1. d \in [Products -> Nat]
      BY DemandType, Zenon
    <2>2. d[p] = 0
      BY <1>3, <2>1 DEF Reserve, Enough
    <2>3. QED
      BY <1>3, <2>2 DEF Reserve
  <1>4. ASSUME NEW o \in Orders, Confirm(o) \/ Release(o)
        PROVE  available'[p] = 0 /\ reserved'[p] = 0 /\ \A r \in Orders : items'[r][p] = 0
    BY <1>4 DEF Confirm, Release
  <1>5. CASE UNCHANGED vars
    BY <1>5, Zenon DEF vars
  <1>6. QED
    BY <1>1, <1>2, <1>3, <1>4, <1>5, Zenon DEF Next

LEMMA RowsInvariant == Spec => []RowsBeforeStock
  <1>1. Init => RowsBeforeStock
    BY DEF Init, RowsBeforeStock, NoItems
  <1>2. QED
    BY <1>1, RowsStep, TypeCorrect, PTL DEF Spec

(* A log row of type ty changes the sum of that type and no other.         *)
LEMMA LogEntry ==
  ASSUME TypeOK, NEW ty \in ChangeType, NEW q \in [Products -> Int],
         NEW p \in Products, NEW t \in ChangeType
  PROVE  /\ Log(ty, q)[p][t] = IF t = ty THEN logged[p][t] + q[p] ELSE logged[p][t]
         /\ logged[p][t] \in Int
  BY Zenon DEF Log, TypeOK

(* The journal property is preserved by every operation.                   *)
LEMMA LogStep ==
  TypeOK /\ RowsBeforeStock /\ LogExplainsStock /\ [Next]_vars => LogExplainsStock'
  <1> DEFINE Explained(p) ==
        /\ available[p] = logged[p]["initialize"] + logged[p]["add"]
                            + logged[p]["reserve"] + logged[p]["release"]
        /\ reserved[p] = logged[p]["confirm"] - logged[p]["reserve"]
                           - logged[p]["release"]
  <1> SUFFICES ASSUME TypeOK, RowsBeforeStock, LogExplainsStock, [Next]_vars,
                      NEW p \in Products
               PROVE  Explained(p)'
    BY Zenon DEF LogExplainsStock
  <1>1. Explained(p)
    BY Zenon DEF LogExplainsStock
  <1>2. /\ available[p] \in Nat /\ reserved[p] \in Nat
        /\ \A t \in ChangeType : logged[p][t] \in Int
    BY DEF TypeOK
  <1>3. ASSUME NEW x \in Products, NEW q \in Quantities \cup {0}, InitStock(x, q)
        PROVE  Explained(p)'
    <2>1. q \in Nat /\ Only(x, q) \in [Products -> Int]
      BY QuantityAssumption DEF Only
    <2>2. \A t \in ChangeType : logged'[p][t] =
            IF t = "initialize" THEN logged[p][t] + Only(x, q)[p] ELSE logged[p][t]
      BY <1>3, <2>1, LogEntry DEF InitStock, ChangeType
    <2>3. available'[p] = available[p] + Only(x, q)[p] /\ reserved'[p] = reserved[p]
      BY <1>3, <2>1 DEF InitStock, RowsBeforeStock, Only, TypeOK
    <2>4. Only(x, q)[p] \in Int
      BY <2>1, Zenon
    <2>5. QED
      BY <1>1, <1>2, <2>2, <2>3, <2>4 DEF ChangeType
  <1>4. ASSUME NEW x \in Products, NEW q \in Quantities, Add(x, q)
        PROVE  Explained(p)'
    <2>1. q \in Nat /\ Only(x, q) \in [Products -> Int]
      BY QuantityAssumption DEF Only
    <2>2. \A t \in ChangeType : logged'[p][t] =
            IF t = "add" THEN logged[p][t] + Only(x, q)[p] ELSE logged[p][t]
      BY <1>4, <2>1, LogEntry DEF Add, ChangeType
    <2>3. available'[p] = available[p] + Only(x, q)[p] /\ reserved'[p] = reserved[p]
      BY <1>4, <2>1 DEF Add, Only, TypeOK
    <2>4. Only(x, q)[p] \in Int
      BY <2>1, Zenon
    <2>5. QED
      BY <1>1, <1>2, <2>2, <2>3, <2>4 DEF ChangeType
  <1>5. ASSUME NEW o \in Orders, NEW d \in Demands, Reserve(o, d)
        PROVE  Explained(p)'
    <2>1. d \in [Products -> Nat] /\ Minus(d) \in [Products -> Int]
      BY DemandType DEF Minus
    <2>2. \A t \in ChangeType : logged'[p][t] =
            IF t = "reserve" THEN logged[p][t] + Minus(d)[p] ELSE logged[p][t]
      BY <1>5, <2>1, LogEntry DEF Reserve, ChangeType
    <2>3. Minus(d)[p] = -d[p] /\ d[p] \in Nat
      BY <2>1, Zenon DEF Minus
    <2>4. available'[p] = available[p] - d[p] /\ reserved'[p] = reserved[p] + d[p]
      BY <1>5, Zenon DEF Reserve
    <2>5. /\ logged'[p]["reserve"] = logged[p]["reserve"] - d[p]
          /\ \A t \in ChangeType \ {"reserve"} : logged'[p][t] = logged[p][t]
      BY <1>2, <2>2, <2>3, Zenon DEF ChangeType
    <2>6. QED
      BY <1>1, <1>2, <2>3, <2>4, <2>5 DEF ChangeType
  <1>6. ASSUME NEW o \in Orders, Confirm(o)
        PROVE  Explained(p)'
    <2>1. items[o] \in [Products -> Nat] /\ Minus(items[o]) \in [Products -> Int]
      BY DEF Minus, TypeOK
    <2>2. \A t \in ChangeType : logged'[p][t] =
            IF t = "confirm" THEN logged[p][t] + Minus(items[o])[p] ELSE logged[p][t]
      BY <1>6, <2>1, LogEntry DEF Confirm, ChangeType
    <2>3. Minus(items[o])[p] = -items[o][p] /\ items[o][p] \in Nat
      BY <2>1, Zenon DEF Minus
    <2>4. available'[p] = available[p] /\ reserved'[p] = reserved[p] - items[o][p]
      BY <1>6, Zenon DEF Confirm
    <2>5. /\ logged'[p]["confirm"] = logged[p]["confirm"] - items[o][p]
          /\ \A t \in ChangeType \ {"confirm"} : logged'[p][t] = logged[p][t]
      BY <1>2, <2>2, <2>3, Zenon DEF ChangeType
    <2>6. QED
      BY <1>1, <1>2, <2>3, <2>4, <2>5 DEF ChangeType
  <1>7. ASSUME NEW o \in Orders, Release(o)
        PROVE  Explained(p)'
    <2>1. items[o] \in [Products -> Int] /\ items[o][p] \in Nat
      BY DEF TypeOK
    <2>2. \A t \in ChangeType : logged'[p][t] =
            IF t = "release" THEN logged[p][t] + items[o][p] ELSE logged[p][t]
      BY <1>7, <2>1, LogEntry DEF Release, ChangeType
    <2>3. /\ available'[p] = available[p] + items[o][p]
          /\ reserved'[p] = reserved[p] - items[o][p]
      BY <1>7, Zenon DEF Release
    <2>4. QED
      BY <1>1, <1>2, <2>1, <2>2, <2>3 DEF ChangeType
  <1>8. CASE UNCHANGED vars
    BY <1>1, <1>8, Zenon DEF vars
  <1>9. QED
    BY <1>3, <1>4, <1>5, <1>6, <1>7, <1>8, Zenon DEF Next

(* Theorem for LogExplainsStock: the stock log accounts for both columns   *)
(* of every product, after any sequence of service calls.                  *)
THEOREM LogIsJournal == Spec => []LogExplainsStock
  <1>1. Init => LogExplainsStock
    BY DEF Init, LogExplainsStock, NoItems, ChangeType
  <1>2. QED
    BY <1>1, LogStep, TypeCorrect, RowsInvariant, PTL DEF Spec

-----------------------------------------------------------------------------
(* The confirm rows of the log count exactly the units sold: each          *)
(* reservation is confirmed at most once.                                  *)
SoldIsLogged ==
  \A p \in Products :
    /\ IsFiniteSet(Units(p, "confirmed"))
    /\ logged[p]["confirm"] = -Cardinality(Units(p, "confirmed"))

LEMMA SoldStep == TypeOK /\ SoldIsLogged /\ [Next]_vars => SoldIsLogged'
  <1> DEFINE Sold(p) == /\ IsFiniteSet(Units(p, "confirmed"))
                        /\ logged[p]["confirm"] = -Cardinality(Units(p, "confirmed"))
  <1> SUFFICES ASSUME TypeOK, SoldIsLogged, [Next]_vars, NEW p \in Products
               PROVE  Sold(p)'
    BY Zenon DEF SoldIsLogged
  <1>1. Sold(p)
    BY Zenon DEF SoldIsLogged
  <1>2. "confirm" \in ChangeType
    BY Zenon DEF ChangeType
  <1>3. ASSUME NEW x \in Products, NEW q \in Quantities \cup {0},
               InitStock(x, q) \/ Add(x, q)
        PROVE  Sold(p)'
    <2>1. Only(x, q) \in [Products -> Int]
      BY QuantityAssumption DEF Only
    <2>2. logged'[p]["confirm"] = logged[p]["confirm"]
      BY <1>2, <1>3, <2>1, LogEntry DEF InitStock, Add, ChangeType
    <2>3. Units(p, "confirmed")' = Units(p, "confirmed")
      BY <1>3, StockUnits, Zenon DEF InitStock, Add
    <2>4. QED
      BY <1>1, <2>2, <2>3, Zenon
  <1>4. ASSUME NEW o \in Orders, NEW d \in Demands, Reserve(o, d)
        PROVE  Sold(p)'
    <2>1. Minus(d) \in [Products -> Int]
      BY DemandType DEF Minus
    <2>2. logged'[p]["confirm"] = logged[p]["confirm"]
      BY <1>2, <1>4, <2>1, LogEntry, ZenonT(30) DEF Reserve, ChangeType
    <2>3. Units(p, "confirmed")' = Units(p, "confirmed")
      BY <1>4, ReserveUnits, Zenon
    <2>4. QED
      BY <1>1, <2>2, <2>3, Zenon
  <1>5. ASSUME NEW o \in Orders, Confirm(o)
        PROVE  Sold(p)'
    <2> DEFINE new == {o} \X (1..items[o][p])
    <2>1. items[o][p] \in Nat /\ Minus(items[o]) \in [Products -> Int]
      BY DEF TypeOK, Minus
    <2>2. logged'[p]["confirm"] = logged[p]["confirm"] - items[o][p]
      BY <1>2, <1>5, <2>1, LogEntry, ZenonT(30) DEF Confirm, ChangeType, Minus
    <2>3. /\ Units(p, "confirmed")' = Units(p, "confirmed") \cup new
          /\ Units(p, "confirmed") \cap new = {}
      BY <1>5, SettleUnits, Zenon
    <2>4. IsFiniteSet(new) /\ Cardinality(new) = items[o][p]
      BY <2>1, HeldUnits, Zenon
    <2> HIDE DEF new
    <2>5. /\ IsFiniteSet(Units(p, "confirmed")')
          /\ Cardinality(Units(p, "confirmed")')
               = Cardinality(Units(p, "confirmed")) + items[o][p]
      BY <1>1, <2>3, <2>4, UnitsJoin, Zenon
    <2>6. Cardinality(Units(p, "confirmed")) \in Nat
      BY <1>1, FS_CardinalityType, Zenon
    <2>7. QED
      BY <1>1, <2>1, <2>2, <2>5, <2>6
  <1>6. ASSUME NEW o \in Orders, Release(o)
        PROVE  Sold(p)'
    <2>1. items[o] \in [Products -> Int]
      BY DEF TypeOK
    <2>2. logged'[p]["confirm"] = logged[p]["confirm"]
      BY <1>2, <1>6, <2>1, LogEntry, ZenonT(30) DEF Release, ChangeType
    <2>3. ~Confirm(o)
      BY <1>6, Zenon DEF Confirm, Release, TypeOK
    <2>4. Units(p, "confirmed")' = Units(p, "confirmed")
      BY <1>6, <2>3, SettleUnits, Zenon
    <2>5. QED
      BY <1>1, <2>2, <2>4, Zenon
  <1>7. CASE UNCHANGED vars
    <2>1. Units(p, "confirmed")' = Units(p, "confirmed")
      BY <1>7, StockUnits, Zenon DEF vars
    <2>2. QED
      BY <1>1, <1>7, <2>1, Zenon DEF vars
  <1>8. QED
    BY <1>3, <1>4, <1>5, <1>6, <1>7, Zenon DEF Next

(* Theorem for StockConserved: after any sequence of service calls the     *)
(* stock put in by Init and Add is available, reserved or sold.            *)
THEOREM Conservation == Spec => []StockConserved
  <1>1. Init => SoldIsLogged
    <2> SUFFICES ASSUME Init, NEW p \in Products
                 PROVE  /\ IsFiniteSet(Units(p, "confirmed"))
                        /\ logged[p]["confirm"] = -Cardinality(Units(p, "confirmed"))
      BY Zenon DEF SoldIsLogged
    <2>1. Units(p, "confirmed") = {}
      BY NoUnits, Zenon DEF ReservationStatus
    <2>2. logged[p]["confirm"] = 0
      BY Zenon DEF Init, ChangeType
    <2>3. QED
      BY <2>1, <2>2, FS_EmptySet
  <1>2. TypeOK /\ SoldIsLogged /\ LogExplainsStock => StockConserved
    <2> SUFFICES ASSUME TypeOK, SoldIsLogged, LogExplainsStock, NEW p \in Products
                 PROVE  /\ IsFiniteSet(Units(p, "confirmed"))
                        /\ available[p] + reserved[p] + Cardinality(Units(p, "confirmed"))
                             = logged[p]["initialize"] + logged[p]["add"]
      BY Zenon DEF StockConserved
    <2>1. /\ IsFiniteSet(Units(p, "confirmed"))
          /\ logged[p]["confirm"] = -Cardinality(Units(p, "confirmed"))
      BY Zenon DEF SoldIsLogged
    <2>2. Cardinality(Units(p, "confirmed")) \in Nat
      BY <2>1, FS_CardinalityType, Zenon
    <2>3. \A t \in ChangeType : logged[p][t] \in Int
      BY Zenon DEF TypeOK
    <2>4. QED
      BY <2>1, <2>2, <2>3 DEF LogExplainsStock, ChangeType
  <1>3. QED
    BY <1>1, <1>2, SoldStep, TypeCorrect, LogIsJournal, PTL DEF Spec

(* Theorem for SettledIsFinal: confirm and release exclude each other and  *)
(* a settled reservation never changes again.                              *)
THEOREM Settled == Spec => SettledIsFinal
  <1> DEFINE Keeps == \A o \in Orders :
        /\ reservation[o] \in {"confirmed", "released"} => reservation'[o] = reservation[o]
        /\ reservation[o] # "none" => items'[o] = items[o]
  <1>1. TypeOK /\ [Next]_vars => [Keeps]_vars
    <2> SUFFICES ASSUME TypeOK, [Next]_vars, NEW o \in Orders
                 PROVE  /\ reservation[o] \in {"confirmed", "released"}
                             => reservation'[o] = reservation[o]
                        /\ reservation[o] # "none" => items'[o] = items[o]
      BY Zenon
    <2>1. CASE UNCHANGED <<reservation, items>>
      BY <2>1, Zenon
    <2>2. ASSUME NEW r \in Orders, NEW d \in Demands, Reserve(r, d)
          PROVE  /\ reservation[o] \in {"confirmed", "released"}
                      => reservation'[o] = reservation[o]
                 /\ reservation[o] # "none" => items'[o] = items[o]
      BY <2>2, Zenon DEF Reserve, TypeOK
    <2>3. ASSUME NEW r \in Orders, Confirm(r) \/ Release(r)
          PROVE  /\ reservation[o] \in {"confirmed", "released"}
                      => reservation'[o] = reservation[o]
                 /\ reservation[o] # "none" => items'[o] = items[o]
      BY <2>3, Zenon DEF Confirm, Release, TypeOK
    <2>4. QED
      BY <2>1, <2>2, <2>3, Zenon DEF Next, vars, InitStock, Add
  <1>2. QED
    BY <1>1, TypeCorrect, PTL DEF Spec, SettledIsFinal
-----------------------------------------------------------------------------
(* The rows are locked from the lowest product up, before the commit all   *)
(* of them.                                                                *)
InOrder(t) ==
  /\ tx[t].pc = "item" =>
       /\ tx[t].held \subseteq Rows(t) /\ Rows(t) \ tx[t].held # {}
       /\ \A p \in tx[t].held, x \in Rows(t) \ tx[t].held : p < x
  /\ tx[t].pc = "commit" => tx[t].held = Rows(t)

(* The reservation that t has locked is as t read it.                      *)
AsRead(t) ==
  tx[t].pc \in {"item", "commit"} /\ ForOrder(t) =>
    reservation[tx[t].req.order] = IF tx[t].req.op = "reserve" THEN "none" ELSE "pending"

(* Where a transaction is tells what it asks for, what it holds and what   *)
(* it has found: every row that it holds still passes the checks that it   *)
(* passed, and the columns it gave that row are still those that the       *)
(* update would give it.                                                   *)
Sound(t) ==
  /\ tx[t].pc # "idle" => tx[t].req \in Requests
  /\ tx[t].pc = "read" => tx[t].req.op = "reserve"
  /\ tx[t].pc = "reservation" => ForOrder(t)
  /\ tx[t].pc \in {"idle", "read", "reservation"} => tx[t].held = {}
  /\ InOrder(t)
  /\ AsRead(t)
  /\ \A p \in tx[t].held : ~RowRefused(t, p) /\ WithinBigint(t, p)
  /\ \A p \in tx[t].held : /\ tx[t].avail[p] = AvailableAfter(t, p)
                           /\ tx[t].resv[p] = ReservedAfter(t, p)

(* Two transactions hold no row in common.                                 *)
Apart(t, u) ==
  /\ tx[t].held \cap tx[u].held = {}
  /\ \A o \in Orders : ~(HoldsReservation(t, o) /\ HoldsReservation(u, o))

(* Every reservation has an item.                                          *)
SomethingReserved ==
  \A o \in Orders : reservation[o] # "none" => \E p \in Products : items[o][p] > 0

(* The inductive invariant of InventoryTx.  NoLockCycle and                *)
(* CommitNeverFails follow from it; neither is inductive by itself, since  *)
(* both depend on what the transactions on their way have found and hold.  *)
TxInv ==
  /\ TxTypeOK
  /\ SomethingReserved
  /\ RowsBeforeStock
  /\ \A t \in Txns : Sound(t)
  /\ \A t, u \in Txns : t # u => Apart(t, u)

TxState == [pc : {"idle", "read", "reservation", "item", "commit"},
            req : Requests \cup {NoRequest}, held : SUBSET Products,
            avail : [Products -> Int], resv : [Products -> Int]]

(* What a request is, operation by operation.                              *)
LEMMA RequestCases ==
  ASSUME NEW q \in Requests
  PROVE  \/ q.op = "initialize" /\ q.product \in Products /\ q.quantity \in Quantities \cup {0}
         \/ q.op = "add" /\ q.product \in Products /\ q.quantity \in Quantities
         \/ q.op = "reserve" /\ q.order \in Orders /\ q.demand \in Demands
         \/ q.op = "confirm" /\ q.order \in Orders
         \/ q.op = "release" /\ q.order \in Orders
  BY Zenon DEF Requests

(* The atomic operation of Inventory that a request asks for.              *)
Effect(req) ==
  \/ req.op = "initialize" /\ InitStock(req.product, req.quantity)
  \/ req.op = "add" /\ Add(req.product, req.quantity)
  \/ req.op = "reserve" /\ Reserve(req.order, req.demand)
  \/ req.op = "confirm" /\ Confirm(req.order)
  \/ req.op = "release" /\ Release(req.order)

(* It is a step of Inventory.                                              *)
LEMMA EffectIsStep ==
  ASSUME NEW q \in Requests, Effect(q)
  PROVE  Next
  BY RequestCases, Zenon DEF Effect, Next

(* The rows of a request are products, and there is at least one.          *)
LEMMA RowsAre ==
  ASSUME NEW t \in Txns, tx[t].req \in Requests,
         tx[t].req.op \in {"confirm", "release"} =>
           \E p \in Products : items[tx[t].req.order][p] > 0
  PROVE  Rows(t) \subseteq Products /\ Rows(t) # {}
  BY RequestCases, Zenon DEF Rows, Demands

(* Nothing that concerns transaction u changes: its own state, the         *)
(* reservation it has locked and the rows it holds.                        *)
Untouched(u) ==
  /\ tx'[u] = tx[u]
  /\ tx[u].pc \in {"item", "commit"} /\ ForOrder(u) =>
       /\ reservation'[tx[u].req.order] = reservation[tx[u].req.order]
       /\ items'[tx[u].req.order] = items[tx[u].req.order]
  /\ \A p \in tx[u].held : /\ p \in initialized' <=> p \in initialized
                           /\ available'[p] = available[p]
                           /\ reserved'[p] = reserved[p]

LEMMA UntouchedSound ==
  ASSUME TxTypeOK, NEW u \in Txns, Sound(u), Untouched(u)
  PROVE  Sound(u)'
  <1>1. tx'[u] = tx[u] /\ ForOrder(u)' = ForOrder(u) BY Zenon DEF Untouched, ForOrder
  <1>2. CASE tx[u].pc \in {"item", "commit"}
    <2>1. tx[u].req.op \in {"confirm", "release"} =>
            items'[tx[u].req.order] = items[tx[u].req.order]
      BY <1>2, Zenon DEF Untouched, ForOrder
    <2>2. Rows(u)' = Rows(u) BY <1>1, <2>1, Zenon DEF Rows
    <2>3. InOrder(u)' BY <1>1, <2>2, Zenon DEF InOrder, Sound
    <2>4. AsRead(u)' BY <1>1, <1>2, Zenon DEF AsRead, Sound, Untouched
    <2>5. ASSUME NEW p \in tx[u].held PROVE RowRefused(u, p)' = RowRefused(u, p)
      BY <1>1, <2>1, Zenon DEF Untouched, RowRefused
    <2>6. ASSUME NEW p \in tx[u].held PROVE WithinBigint(u, p)' = WithinBigint(u, p)
      BY <1>1, <2>1, Zenon DEF Untouched, WithinBigint, AvailableAfter, ReservedAfter
    <2>7. ASSUME NEW p \in tx[u].held
          PROVE  /\ AvailableAfter(u, p)' = AvailableAfter(u, p)
                 /\ ReservedAfter(u, p)' = ReservedAfter(u, p)
      BY <1>1, <2>1, Zenon DEF Untouched, AvailableAfter, ReservedAfter
    <2> QED BY <1>1, <2>3, <2>4, <2>5, <2>6, <2>7, Zenon DEF Sound
  <1>3. CASE tx[u].pc \notin {"item", "commit"}
    <2>1. InOrder(u)' /\ AsRead(u)' BY <1>1, <1>3, Zenon DEF InOrder, AsRead
    <2>2. tx[u].held = {} BY <1>3, Zenon DEF Sound, TxTypeOK
    <2> QED BY <1>1, <1>3, <2>1, <2>2, Zenon DEF Sound
  <1> QED BY <1>2, <1>3, Zenon

(* A statement of t that changes no committed row.                         *)
LEMMA Statement ==
  ASSUME TxInv, NEW t \in Txns, UNCHANGED vars, NEW n \in TxState,
         tx' = [tx EXCEPT ![t] = n],
         Sound(t)', \A u \in Txns \ {t} : Apart(t, u)'
  PROVE  TxInv'
  <1>0. TxTypeOK BY Zenon DEF TxInv
  <1>1. TxTypeOK' /\ SomethingReserved' /\ RowsBeforeStock'
    BY Zenon DEF TxInv, TxTypeOK, TypeOK, SomethingReserved, RowsBeforeStock, vars, TxState
  <1>2. \A u \in Txns \ {t} : tx'[u] = tx[u] BY Zenon DEF TxInv, TxTypeOK
  <1>3. ASSUME NEW u \in Txns \ {t} PROVE Sound(u)'
    <2>1. Untouched(u) BY <1>2, Zenon DEF Untouched, vars
    <2> QED BY <1>0, <2>1, UntouchedSound, Zenon DEF TxInv
  <1>4. ASSUME NEW u \in Txns \ {t}, NEW v \in Txns \ {t}, u # v PROVE Apart(u, v)'
    BY <1>2, <1>4, Zenon DEF TxInv, Apart, HoldsReservation, ForOrder
  <1>5. ASSUME NEW u \in Txns \ {t} PROVE Apart(u, t)'
    BY <1>5, Zenon DEF Apart
  <1> QED BY <1>1, <1>3, <1>4, <1>5, Zenon DEF TxInv

(* A transaction that holds nothing is apart from all others.              *)
LEMMA HoldsNothing ==
  ASSUME NEW t \in Txns, NEW u \in Txns,
         tx'[t].held = {}, tx'[t].pc \in {"idle", "read", "reservation"}
  PROVE  Apart(t, u)'
  BY Zenon DEF Apart, HoldsReservation

(* A transaction that waits for its first row.                             *)
LEMMA WaitingState ==
  ASSUME NEW pc \in {"idle", "read", "reservation", "item", "commit"},
         NEW q \in Requests \cup {NoRequest}
  PROVE  Waiting(pc, q) \in TxState
  <1>1. NoItems \in [Products -> Int] BY DEF NoItems
  <1> QED BY <1>1, Zenon DEF Waiting, TxState

LEMMA IdleState == Idle \in TxState
  BY WaitingState, Zenon DEF Idle

(* The end of a transaction, whatever its reason.                          *)
LEMMA EndKeeps ==
  ASSUME TxInv, NEW t \in Txns, End(t)
  PROVE  TxInv'
  <1>1. tx' = [tx EXCEPT ![t] = Idle] /\ UNCHANGED vars BY Zenon DEF End
  <1>2. tx'[t] = Idle BY <1>1, Zenon DEF TxInv, TxTypeOK
  <1>3. Sound(t)' BY <1>2 DEF Sound, InOrder, AsRead, Idle, Waiting
  <1>4. \A u \in Txns \ {t} : Apart(t, u)' BY <1>2, HoldsNothing DEF Idle, Waiting
  <1>5. Idle \in TxState BY IdleState, Zenon
  <1> QED BY <1>1, <1>3, <1>4, <1>5, Statement, Zenon

(* The first row of a transaction that holds none.                         *)
LEMMA BeginKeeps ==
  ASSUME TxInv, NEW t \in Txns, NEW q \in Requests, Begin(t, q)
  PROVE  TxInv'
  <1> DEFINE pc == IF q.op = "reserve" THEN "read"
                   ELSE IF q.op \in {"confirm", "release"} THEN "reservation"
                   ELSE "item"
             n == Waiting(pc, q)
  <1>1. tx' = [tx EXCEPT ![t] = n] /\ UNCHANGED vars BY Zenon DEF Begin
  <1>2. tx'[t] = n BY <1>1, Zenon DEF TxInv, TxTypeOK
  <1>3. n \in TxState BY WaitingState, Zenon
  <1> USE DEF Waiting
  <1>4. InOrder(t)'
    <2>1. CASE n.pc = "item"
      <3>1. q.op \in {"initialize", "add"} /\ q.product \in Products
        BY <2>1, RequestCases, Zenon
      <3>2. q.product \in Rows(t)' BY <1>2, <3>1 DEF Rows
      <3> QED BY <1>2, <2>1, <3>2 DEF InOrder
    <2> QED BY <1>2, <2>1 DEF InOrder
  <1>5. AsRead(t)' BY <1>2 DEF AsRead, ForOrder
  <1>6. Sound(t)'
    <2>1. n.pc = "reservation" => ForOrder(t)' BY <1>2 DEF ForOrder
    <2> QED BY <1>2, <1>4, <1>5, <2>1 DEF Sound
  <1>7. ASSUME NEW u \in Txns \ {t} PROVE Apart(t, u)'
    BY <1>2 DEF Apart, HoldsReservation, ForOrder
  <1> HIDE DEF n, Waiting
  <1> QED BY <1>1, <1>3, <1>6, <1>7, Statement, Zenon

(* A transaction goes to its next statement without a new row.             *)
LEMMA GoToState ==
  ASSUME TxInv, NEW t \in Txns, NEW pc \in {"reservation", "item"}, GoTo(t, pc)
  PROVE  \E n \in TxState : /\ tx' = [tx EXCEPT ![t] = n] /\ UNCHANGED vars
                            /\ n.pc = pc /\ n.req = tx[t].req /\ n.held = tx[t].held
                            /\ tx'[t] = n
  <1> DEFINE n == [tx[t] EXCEPT !.pc = pc]
  <1>1. tx[t] \in TxState BY Zenon DEF TxInv, TxTypeOK, TxState
  <1>2. n \in TxState /\ n.pc = pc /\ n.req = tx[t].req /\ n.held = tx[t].held
    BY <1>1, Zenon DEF TxState
  <1>3. tx' = [tx EXCEPT ![t] = n] /\ UNCHANGED vars
    BY Zenon DEF GoTo, TxInv, TxTypeOK
  <1>4. tx'[t] = n BY <1>3, Zenon DEF TxInv, TxTypeOK
  <1> HIDE DEF n
  <1> QED BY <1>2, <1>3, <1>4, Zenon

LEMMA ReadKeeps ==
  ASSUME TxInv, NEW t \in Txns, ReadExisting(t)
  PROVE  TxInv'
  <1>1. CASE GoTo(t, "reservation")
    <2>1. PICK n \in TxState : /\ tx' = [tx EXCEPT ![t] = n] /\ UNCHANGED vars
                               /\ n.pc = "reservation" /\ n.req = tx[t].req
                               /\ n.held = tx[t].held /\ tx'[t] = n
      BY <1>1, GoToState, Zenon
    <2>2. tx[t].req \in Requests /\ tx[t].req.op = "reserve" /\ tx[t].held = {}
      BY Zenon DEF ReadExisting, TxInv, Sound
    <2>3. Sound(t)' BY <2>1, <2>2, Zenon DEF Sound, InOrder, AsRead, ForOrder
    <2>4. \A u \in Txns \ {t} : Apart(t, u)' BY <2>1, <2>2, HoldsNothing, Zenon
    <2> QED BY <2>1, <2>3, <2>4, Statement, Zenon
  <1> QED BY <1>1, EndKeeps, Zenon DEF ReadExisting

(* Taking the lock of the reservation, once it is as it must be.           *)
LEMMA LockKeeps ==
  ASSUME TxInv, NEW t \in Txns, tx[t].pc = "reservation", ReservationFree(t),
         reservation[tx[t].req.order]
           = IF tx[t].req.op = "reserve" THEN "none" ELSE "pending",
         GoTo(t, "item")
  PROVE  TxInv'
  <1>1. PICK n \in TxState : /\ tx' = [tx EXCEPT ![t] = n] /\ UNCHANGED vars
                             /\ n.pc = "item" /\ n.req = tx[t].req
                             /\ n.held = tx[t].held /\ tx'[t] = n
    BY GoToState, Zenon
  <1>2. tx[t].req \in Requests /\ ForOrder(t) /\ tx[t].held = {}
    BY Zenon DEF TxInv, Sound
  <1>3. tx[t].req.order \in Orders BY <1>2, RequestCases, Zenon DEF ForOrder
  <1>4. tx[t].req.op \in {"confirm", "release"} =>
          \E p \in Products : items[tx[t].req.order][p] > 0
    BY <1>3, Zenon DEF TxInv, SomethingReserved
  <1>5. Rows(t) # {} BY <1>2, <1>4, RowsAre, Zenon
  <1>6. Rows(t)' = Rows(t) BY <1>1, Zenon DEF Rows, vars
  <1>7. InOrder(t)' BY <1>1, <1>2, <1>5, <1>6, Zenon DEF InOrder
  <1>8. AsRead(t)' BY <1>1, Zenon DEF AsRead, vars
  <1>9. Sound(t)' BY <1>1, <1>2, <1>7, <1>8, Zenon DEF Sound
  <1>10. ASSUME NEW u \in Txns \ {t} PROVE Apart(t, u)'
    <2>1. tx'[u] = tx[u] BY <1>1, Zenon DEF TxInv, TxTypeOK
    <2> QED BY <1>1, <1>2, <2>1 DEF Apart, HoldsReservation, ForOrder, ReservationFree
  <1> QED BY <1>1, <1>9, <1>10, Statement, Zenon

LEMMA ReservationKeeps ==
  ASSUME TxInv, NEW t \in Txns, InsertReservation(t) \/ LockReservation(t)
  PROVE  TxInv'
  BY EndKeeps, LockKeeps, Zenon DEF InsertReservation, LockReservation

(* A non-empty set of naturals has a least element.                        *)
LEMMA LeastNatural ==
  ASSUME NEW T \in SUBSET Nat, T # {}
  PROVE  \E x \in T : \A y \in T : x <= y
  <1> DEFINE less == {ss \in Nat \X Nat : ss[1] < ss[2]}
  <1>1. less = OpToRel(<, Nat) BY Zenon DEF OpToRel
  <1>2. IsWellFoundedOn(less, Nat) BY <1>1, NatLessThanWellFounded, Zenon
  <1> HIDE DEF less
  <1>3. PICK x \in T : \A y \in T : ~(<<y, x>> \in less)
    BY <1>2, WFMin, Zenon
  <1>4. ASSUME NEW y \in T PROVE x <= y
    <2>1. ~(<<y, x>> \in less) BY <1>3, Zenon
    <2>2. <<y, x>> \in Nat \X Nat BY Zenon
    <2>3. ~(y < x) BY <2>1, <2>2, Zenon DEF less
    <2> QED BY <2>3
  <1> QED BY <1>4, Zenon

(* The next row is the least of the rows that are left.                    *)
LEMMA NextRowIsLeast ==
  ASSUME TxInv, NEW t \in Txns, tx[t].pc = "item"
  PROVE  /\ NextRow(t) \in Rows(t) \ tx[t].held
         /\ NextRow(t) \in Products
         /\ \A x \in Rows(t) \ tx[t].held : NextRow(t) <= x
         /\ \A p \in tx[t].held : p < NextRow(t)
  <1>1. /\ Rows(t) \ tx[t].held # {}
        /\ \A p \in tx[t].held, x \in Rows(t) \ tx[t].held : p < x
    BY Zenon DEF TxInv, Sound, InOrder
  <1>2. Rows(t) \subseteq Products BY Zenon DEF Rows
  <1>3. Rows(t) \ tx[t].held \in SUBSET Nat BY <1>2, ProductAssumption, Zenon
  <1>4. \E p \in Rows(t) \ tx[t].held : \A x \in Rows(t) \ tx[t].held : p <= x
    BY <1>1, <1>3, LeastNatural, Zenon
  <1>5. /\ NextRow(t) \in Rows(t) \ tx[t].held
        /\ \A x \in Rows(t) \ tx[t].held : NextRow(t) <= x
    BY <1>4, Zenon DEF NextRow
  <1> QED BY <1>1, <1>2, <1>5, Zenon

(* What each operation makes of the two columns of a row.                  *)
LEMMA AfterValues ==
  ASSUME NEW t \in Txns, NEW p \in Products
  PROVE  /\ tx[t].req.op = "initialize" =>
              AvailableAfter(t, p) = tx[t].req.quantity /\ ReservedAfter(t, p) = 0
         /\ tx[t].req.op = "add" =>
              /\ AvailableAfter(t, p) = available[p] + tx[t].req.quantity
              /\ ReservedAfter(t, p) = reserved[p]
         /\ tx[t].req.op = "reserve" =>
              /\ AvailableAfter(t, p) = available[p] - tx[t].req.demand[p]
              /\ ReservedAfter(t, p) = reserved[p] + tx[t].req.demand[p]
         /\ tx[t].req.op = "confirm" =>
              /\ AvailableAfter(t, p) = available[p]
              /\ ReservedAfter(t, p) = reserved[p] - items[tx[t].req.order][p]
         /\ tx[t].req.op = "release" =>
              /\ AvailableAfter(t, p) = available[p] + items[tx[t].req.order][p]
              /\ ReservedAfter(t, p) = reserved[p] - items[tx[t].req.order][p]
  BY Zenon DEF AvailableAfter, ReservedAfter

(* A requested quantity is a number.                                       *)
LEMMA QuantityType == Quantities \cup {0} \subseteq Int
  BY QuantityAssumption

(* They are numbers.                                                       *)
LEMMA AfterType ==
  ASSUME TxInv, NEW t \in Txns, tx[t].pc = "item", NEW p \in Products
  PROVE  AvailableAfter(t, p) \in Int /\ ReservedAfter(t, p) \in Int
  <1> DEFINE q == tx[t].req
  <1>1. q \in Requests /\ TypeOK BY Zenon DEF TxInv, TxTypeOK, Sound
  <1>2. available[p] \in Int /\ reserved[p] \in Int BY <1>1 DEF TypeOK
  <1>3. \A o \in Orders : items[o][p] \in Int BY <1>1 DEF TypeOK
  <1>4. CASE q.op \in {"initialize", "add"}
    <2>1. q.quantity \in Quantities \cup {0} BY <1>1, <1>4, RequestCases, ZenonT(30)
    <2>2. q.quantity \in Int BY <2>1, QuantityType, Zenon
    <2> QED BY <1>2, <1>4, <2>2, AfterValues
  <1>5. CASE q.op = "reserve"
    <2>1. q.demand \in [Products -> Nat] BY <1>1, <1>5, RequestCases, DemandType, ZenonT(30)
    <2> QED BY <1>2, <1>5, <2>1, AfterValues
  <1>6. CASE q.op \in {"confirm", "release"}
    <2>1. items[q.order][p] \in Int BY <1>1, <1>3, <1>6, RequestCases, ZenonT(30)
    <2> QED BY <1>2, <1>6, <2>1, AfterValues
  <1> QED BY <1>1, <1>4, <1>5, <1>6, RequestCases, ZenonT(30)

LEMMA TakeKeeps ==
  ASSUME TxInv, NEW t \in Txns, TakeRow(t)
  PROVE  TxInv'
  <1> DEFINE p == NextRow(t)
             n == [tx[t] EXCEPT !.held = @ \cup {p},
                                !.avail[p] = AvailableAfter(t, p),
                                !.resv[p] = ReservedAfter(t, p),
                                !.pc = IF Rows(t) = tx[t].held \cup {p}
                                         THEN "commit" ELSE "item"]
  <1>1. tx[t].pc = "item" /\ RowFree(t) BY Zenon DEF TakeRow
  <1>2. CASE End(t) BY <1>2, EndKeeps, Zenon
  <1>3. CASE /\ ~RowRefused(t, p) /\ WithinBigint(t, p)
             /\ tx' = [tx EXCEPT ![t].held = @ \cup {p},
                                 ![t].avail[p] = AvailableAfter(t, p),
                                 ![t].resv[p] = ReservedAfter(t, p),
                                 ![t].pc = IF Rows(t) = tx[t].held \cup {p}
                                             THEN "commit" ELSE "item"]
             /\ UNCHANGED vars
    <2>1. tx[t] \in TxState /\ tx \in [Txns -> TxState] BY Zenon DEF TxInv, TxTypeOK, TxState
    <2>2. /\ p \in Rows(t) \ tx[t].held /\ p \in Products
          /\ \A x \in Rows(t) \ tx[t].held : p <= x
          /\ \A x \in tx[t].held : x < p
      BY <1>1, NextRowIsLeast, Zenon
    <2>3. tx' = [tx EXCEPT ![t] = n] BY <1>3, <2>1, Zenon
    <2>4. /\ n \in TxState /\ n.req = tx[t].req /\ n.held = tx[t].held \cup {p}
          /\ n.pc = IF Rows(t) = tx[t].held \cup {p} THEN "commit" ELSE "item"
          /\ n.avail = [tx[t].avail EXCEPT ![p] = AvailableAfter(t, p)]
          /\ n.resv = [tx[t].resv EXCEPT ![p] = ReservedAfter(t, p)]
      <3>1. AvailableAfter(t, p) \in Int /\ ReservedAfter(t, p) \in Int
        BY <1>1, <2>2, AfterType, Zenon
      <3> QED BY <2>1, <2>2, <3>1, Zenon DEF TxState
    <2>5. tx'[t] = n BY <2>1, <2>3, Zenon
    <2> HIDE DEF n, p
    <2>6. Rows(t)' = Rows(t) BY <1>3, <2>4, <2>5, ZenonT(30) DEF Rows, vars
    <2>7. /\ tx[t].held \subseteq Rows(t) /\ Rows(t) \subseteq Nat
          /\ \A x \in tx[t].held, y \in Rows(t) \ tx[t].held : x < y
      BY <1>1, ProductAssumption, Zenon DEF TxInv, Sound, InOrder, Rows
    <2>8. \A x \in tx[t].held \cup {p}, y \in Rows(t) \ (tx[t].held \cup {p}) : x < y
      BY <2>2, <2>7
    <2>9. InOrder(t)' BY <2>2, <2>4, <2>5, <2>6, <2>7, <2>8, Zenon DEF InOrder
    <2>10. AsRead(t)'
      <3>1. AsRead(t) BY Zenon DEF TxInv, Sound
      <3>2. ForOrder(t)' = ForOrder(t) BY <2>4, <2>5, Zenon DEF ForOrder
      <3> QED BY <1>1, <1>3, <2>4, <2>5, <3>1, <3>2, ZenonT(30) DEF AsRead, vars
    <2>11. ASSUME NEW x \in tx[t].held \cup {p}
           PROVE  /\ ~RowRefused(t, x)' /\ WithinBigint(t, x)'
                  /\ tx'[t].avail[x] = AvailableAfter(t, x)'
                  /\ tx'[t].resv[x] = ReservedAfter(t, x)'
      <3>1. ~RowRefused(t, x) /\ WithinBigint(t, x) BY <1>3, Zenon DEF TxInv, Sound
      <3>2. RowRefused(t, x)' = RowRefused(t, x)
        BY <1>3, <2>4, <2>5, Zenon DEF RowRefused, vars
      <3>3. WithinBigint(t, x)' = WithinBigint(t, x)
        BY <1>3, <2>4, <2>5, Zenon DEF WithinBigint, AvailableAfter, ReservedAfter, vars
      <3>4. AvailableAfter(t, x)' = AvailableAfter(t, x) /\ ReservedAfter(t, x)' = ReservedAfter(t, x)
        BY <1>3, <2>4, <2>5, Zenon DEF AvailableAfter, ReservedAfter, vars
      <3>5. tx'[t].avail[x] = AvailableAfter(t, x) /\ tx'[t].resv[x] = ReservedAfter(t, x)
        <4>1. tx[t].avail \in [Products -> Int] /\ tx[t].resv \in [Products -> Int]
              /\ x \in Products
          BY <2>1, <2>2, Zenon DEF TxState
        <4>2. CASE x = p BY <2>2, <2>4, <2>5, <4>1, <4>2, Zenon
        <4>3. CASE x # p
          <5>1. x \in tx[t].held BY <4>3, Zenon
          <5>2. tx[t].avail[x] = AvailableAfter(t, x) /\ tx[t].resv[x] = ReservedAfter(t, x)
            BY <5>1, Zenon DEF TxInv, Sound
          <5> QED BY <2>4, <2>5, <4>1, <4>3, <5>2, Zenon
        <4> QED BY <4>2, <4>3, Zenon
      <3> QED BY <3>1, <3>2, <3>3, <3>4, <3>5, Zenon
    <2>12. tx[t].req \in Requests BY <1>1, Zenon DEF TxInv, Sound
    <2>13. Sound(t)' BY <2>4, <2>5, <2>9, <2>10, <2>11, <2>12, Zenon DEF Sound
    <2>14. ASSUME NEW u \in Txns \ {t} PROVE Apart(t, u)'
      <3>1. tx'[u] = tx[u] BY <2>1, <2>3, Zenon
      <3>2. p \notin tx[u].held BY <1>1, Zenon DEF RowFree, p
      <3>3. tx'[t].held \cap tx'[u].held = {}
        BY <2>4, <2>5, <3>1, <3>2, Zenon DEF TxInv, Apart
      <3>4. \A o \in Orders : HoldsReservation(t, o)' => HoldsReservation(t, o)
        BY <1>1, <2>4, <2>5, Zenon DEF HoldsReservation, ForOrder
      <3>5. \A o \in Orders : HoldsReservation(u, o)' => HoldsReservation(u, o)
        BY <3>1, Zenon DEF HoldsReservation, ForOrder
      <3> QED BY <3>3, <3>4, <3>5, Zenon DEF TxInv, Apart
    <2> QED BY <1>3, <2>3, <2>4, <2>13, <2>14, Statement, Zenon
  <1> QED BY <1>2, <1>3, Zenon DEF TakeRow
-----------------------------------------------------------------------------
(* At its commit a transaction finds what the operation of Inventory needs *)
(* of the committed rows.                                                  *)
LEMMA CommitPossible ==
  ASSUME TxInv, NEW t \in Txns, tx[t].pc = "commit"
  PROVE  Possible(tx[t].req)
  <1> DEFINE q == tx[t].req
  <1>1. /\ q \in Requests /\ tx[t].held = Rows(t) /\ AsRead(t) /\ TypeOK
        /\ \A p \in Rows(t) : ~RowRefused(t, p) /\ WithinBigint(t, p)
    BY Zenon DEF TxInv, Sound, InOrder, TxTypeOK
  <1>2. CASE q.op \in {"initialize", "add"}
    <2>1. q.product \in Rows(t) BY <1>1, <1>2, RequestCases, Zenon DEF Rows
    <2>2. q.product \in Products BY <2>1, Zenon DEF Rows
    <2> QED BY <1>1, <1>2, <2>1, <2>2, AfterValues, ZenonT(30) DEF RowRefused, WithinBigint, Possible
  <1>3. CASE q.op = "reserve"
    <2>1. reservation[q.order] = "none" BY <1>1, <1>3, Zenon DEF AsRead, ForOrder
    <2>2. q.demand \in [Products -> Nat] BY <1>1, <1>3, RequestCases, DemandType, ZenonT(30)
    <2>3. ASSUME NEW p \in Products, q.demand[p] > 0
          PROVE  /\ p \in initialized /\ available[p] >= q.demand[p]
                 /\ reserved[p] + q.demand[p] <= MaxBigint
      <3>1. p \in Rows(t) BY <1>3, <2>3, Zenon DEF Rows
      <3>2. p \in initialized /\ ~(available[p] < q.demand[p])
        BY <1>1, <1>3, <3>1, Zenon DEF RowRefused
      <3>3. reserved[p] + q.demand[p] <= MaxBigint
        BY <1>1, <1>3, <3>1, AfterValues, Zenon DEF WithinBigint
      <3>4. available[p] \in Int /\ q.demand[p] \in Int BY <1>1, <2>2 DEF TypeOK
      <3> QED BY <3>2, <3>3, <3>4
    <2> QED BY <1>3, <2>1, <2>3, Zenon DEF Possible, Enough
  <1>4. CASE q.op \in {"confirm", "release"}
    <2>1. q.order \in Orders BY <1>1, <1>4, RequestCases, Zenon
    <2>2. reservation[q.order] = "pending" BY <1>1, <1>4, Zenon DEF AsRead, ForOrder
    <2>3. ASSUME NEW p \in Products
          PROVE  /\ reserved[p] >= items[q.order][p]
                 /\ q.op = "release" => available[p] + items[q.order][p] <= MaxBigint
      <3>1. reserved[p] \in 0..MaxBigint /\ available[p] \in 0..MaxBigint
            /\ items[q.order][p] \in Nat
        BY <1>1, <2>1, ZenonT(30) DEF TypeOK
      <3>2. CASE p \in Rows(t)
        <4>1. ~(reserved[p] < items[q.order][p]) BY <1>1, <1>4, <3>2, Zenon DEF RowRefused
        <4>2. q.op = "release" => available[p] + items[q.order][p] <= MaxBigint
          BY <1>1, <3>2, AfterValues, Zenon DEF WithinBigint
        <4> QED BY <3>1, <4>1, <4>2
      <3>3. CASE p \notin Rows(t)
        <4>1. items[q.order][p] = 0 BY <1>4, <3>1, <3>3 DEF Rows
        <4> QED BY <3>1, <4>1, BigintAssumption, SMTT(30)
      <3> QED BY <3>2, <3>3, Zenon
    <2> QED BY <1>4, <2>2, <2>3, Zenon DEF Possible, Covered, InRange
  <1> QED BY <1>1, <1>2, <1>3, <1>4, RequestCases, Zenon

(* So what it puts into the tables is what that operation would.           *)
LEMMA CommitIsEffect ==
  ASSUME TxInv, NEW t \in Txns, Commit(t)
  PROVE  Effect(tx[t].req)
  <1> DEFINE q == tx[t].req
             held == tx[t].held
  <1>1. /\ tx[t].pc = "commit" /\ q \in Requests /\ held = Rows(t) /\ Possible(q)
        /\ TypeOK /\ RowsBeforeStock
        /\ \A p \in held : /\ tx[t].avail[p] = AvailableAfter(t, p)
                           /\ tx[t].resv[p] = ReservedAfter(t, p)
    BY CommitPossible, Zenon DEF Commit, TxInv, TxTypeOK, Sound, InOrder
  <1>2. /\ initialized' = IF q.op = "initialize" THEN initialized \cup held ELSE initialized
        /\ available' = [p \in Products |-> IF p \in held THEN AvailableAfter(t, p) ELSE available[p]]
        /\ reserved' = [p \in Products |-> IF p \in held THEN ReservedAfter(t, p) ELSE reserved[p]]
        /\ reservation' = IF ForOrder(t) THEN [reservation EXCEPT ![q.order] = StatusAfter(q.op)]
                                         ELSE reservation
        /\ items' = IF q.op = "reserve" THEN [items EXCEPT ![q.order] = q.demand] ELSE items
        /\ logged' = Log(q.op, Moved(t))
    BY <1>1, Zenon DEF Commit
  <1>3. available \in [Products -> Int] /\ reserved \in [Products -> Int]
    BY <1>1 DEF TypeOK
  <1>4. CASE q.op \in {"initialize", "add"}
    <2>1. q.product \in Products /\ q.quantity \in Int
      <3>1. q.product \in Products /\ q.quantity \in Quantities \cup {0}
        BY <1>1, <1>4, RequestCases, ZenonT(30)
      <3> QED BY <3>1, QuantityType, Zenon
    <2>2. held = {q.product} BY <1>1, <1>4, <2>1, Zenon DEF Rows
    <2>3. reservation' = reservation /\ items' = items
      BY <1>2, <1>4, Zenon DEF ForOrder
    <2>4. Moved(t) = Only(q.product, q.quantity) BY <1>4, Zenon DEF Moved
    <2>5. CASE q.op = "initialize"
      <3>1. /\ available' = [available EXCEPT ![q.product] = q.quantity]
            /\ initialized' = initialized \cup {q.product}
        BY <1>2, <1>3, <2>1, <2>2, <2>5, Zenon DEF AvailableAfter
      <3>2. reserved[q.product] = 0
        BY <1>1, <2>1, <2>5, Zenon DEF Possible, RowsBeforeStock
      <3>3. reserved' = reserved
        BY <1>2, <1>3, <2>1, <2>2, <2>5, <3>2, Zenon DEF ReservedAfter
      <3> QED BY <1>1, <1>2, <2>3, <2>4, <2>5, <3>1, <3>3, Zenon DEF Effect, InitStock, Possible
    <2>6. CASE q.op = "add"
      <3>1. available' = [available EXCEPT ![q.product] = @ + q.quantity]
        BY <1>2, <1>3, <2>1, <2>2, <2>6, Zenon DEF AvailableAfter
      <3>2. reserved' = reserved
        BY <1>2, <1>3, <2>1, <2>2, <2>6, Zenon DEF ReservedAfter
      <3> QED BY <1>1, <1>2, <2>3, <2>4, <2>6, <3>1, <3>2, Zenon DEF Effect, Add, Possible
    <2> QED BY <1>4, <2>5, <2>6, Zenon
  <1>5. CASE q.op = "reserve"
    <2>1. q.order \in Orders /\ q.demand \in [Products -> Nat]
      BY <1>1, <1>5, RequestCases, DemandType, Zenon
    <2>2. \A p \in Products \ held : q.demand[p] = 0 BY <1>1, <1>5, <2>1 DEF Rows
    <2>3. \A p \in held : /\ AvailableAfter(t, p) = available[p] - q.demand[p]
                          /\ ReservedAfter(t, p) = reserved[p] + q.demand[p]
      BY <1>5, Zenon DEF AvailableAfter, ReservedAfter
    <2>4. \A p \in Products \ held : /\ available[p] = available[p] - q.demand[p]
                                     /\ reserved[p] = reserved[p] + q.demand[p]
      BY <1>3, <2>2
    <2>5. /\ available' = [p \in Products |-> available[p] - q.demand[p]]
          /\ reserved' = [p \in Products |-> reserved[p] + q.demand[p]]
      BY <1>2, <2>3, <2>4, Zenon
    <2>6. /\ reservation' = [reservation EXCEPT ![q.order] = "pending"]
          /\ logged' = Log("reserve", Minus(q.demand))
      BY <1>2, <1>5, Zenon DEF ForOrder, StatusAfter, Moved
    <2> QED BY <1>1, <1>2, <1>5, <2>5, <2>6, Zenon DEF Effect, Reserve, Possible
  <1>6. CASE q.op \in {"confirm", "release"}
    <2>1. q.order \in Orders BY <1>1, <1>6, RequestCases, Zenon
    <2>2. items[q.order] \in [Products -> Nat] BY <1>1, <2>1, Zenon DEF TypeOK
    <2>3. \A p \in Products \ held : items[q.order][p] = 0 BY <1>1, <1>6, <2>2 DEF Rows
    <2>4. \A p \in held : ReservedAfter(t, p) = reserved[p] - items[q.order][p]
      BY <1>6, Zenon DEF ReservedAfter
    <2>5. \A p \in Products \ held : /\ reserved[p] = reserved[p] - items[q.order][p]
                                     /\ available[p] = available[p] + items[q.order][p]
      BY <1>3, <2>3
    <2>6. reserved' = [p \in Products |-> reserved[p] - items[q.order][p]]
      BY <1>2, <2>4, <2>5, Zenon
    <2>7. initialized' = initialized /\ items' = items BY <1>2, <1>6, Zenon
    <2>8. CASE q.op = "confirm"
      <3>1. \A p \in held : AvailableAfter(t, p) = available[p]
        BY <2>8, Zenon DEF AvailableAfter
      <3>2. available' = available BY <1>2, <1>3, <3>1, Zenon
      <3>3. /\ reservation' = [reservation EXCEPT ![q.order] = "confirmed"]
            /\ logged' = Log("confirm", Minus(items[q.order]))
        BY <1>2, <2>8, Zenon DEF ForOrder, StatusAfter, Moved
      <3> QED BY <1>1, <2>6, <2>7, <2>8, <3>2, <3>3, Zenon DEF Effect, Confirm, Possible
    <2>9. CASE q.op = "release"
      <3>1. \A p \in held : AvailableAfter(t, p) = available[p] + items[q.order][p]
        BY <2>9, Zenon DEF AvailableAfter
      <3>2. available' = [p \in Products |-> available[p] + items[q.order][p]]
        BY <1>2, <2>5, <3>1, Zenon
      <3>3. /\ reservation' = [reservation EXCEPT ![q.order] = "released"]
            /\ logged' = Log("release", items[q.order])
        BY <1>2, <2>9, Zenon DEF ForOrder, StatusAfter, Moved
      <3> QED BY <1>1, <2>6, <2>7, <2>9, <3>2, <3>3, Zenon DEF Effect, Release, Possible
    <2> QED BY <1>6, <2>8, <2>9, Zenon
  <1> QED BY <1>1, <1>4, <1>5, <1>6, RequestCases, Zenon

(* A commit changes the rows of its request and its reservation only.      *)
LEMMA CommitTouches ==
  ASSUME TxInv, NEW t \in Txns, tx[t].pc = "commit", Effect(tx[t].req)
  PROVE  /\ \A p \in Products \ tx[t].held :
              /\ p \in initialized' <=> p \in initialized
              /\ available'[p] = available[p] /\ reserved'[p] = reserved[p]
         /\ \A o \in Orders : ~HoldsReservation(t, o) =>
              reservation'[o] = reservation[o] /\ items'[o] = items[o]
         /\ SomethingReserved'
  <1> DEFINE q == tx[t].req
             Same(p) == /\ p \in initialized' <=> p \in initialized
                        /\ available'[p] = available[p] /\ reserved'[p] = reserved[p]
             Kept(o) == reservation'[o] = reservation[o] /\ items'[o] = items[o]
  <1>1. q \in Requests /\ tx[t].held = Rows(t) BY Zenon DEF TxInv, Sound, InOrder
  <1>2. TypeOK /\ SomethingReserved BY Zenon DEF TxInv, TxTypeOK
  <1>3. CASE q.op = "initialize" /\ InitStock(q.product, q.quantity)
    <2>1. \A p \in Products \ Rows(t) : Same(p)
      BY <1>2, <1>3, Zenon DEF InitStock, Rows, TypeOK
    <2>2. \A o \in Orders : Kept(o) BY <1>3, Zenon DEF InitStock
    <2> QED BY <1>1, <1>2, <2>1, <2>2, Zenon DEF SomethingReserved
  <1>4. CASE q.op = "add" /\ Add(q.product, q.quantity)
    <2>1. \A p \in Products \ Rows(t) : Same(p) BY <1>2, <1>4, Zenon DEF Add, Rows, TypeOK
    <2>2. \A o \in Orders : Kept(o) BY <1>4, Zenon DEF Add
    <2> QED BY <1>1, <1>2, <2>1, <2>2, Zenon DEF SomethingReserved
  <1>5. CASE q.op = "reserve" /\ Reserve(q.order, q.demand)
    <2>1. q.order \in Orders /\ q.demand \in Demands BY <1>1, <1>5, RequestCases, Zenon
    <2>2. q.demand \in [Products -> Nat] BY <2>1, DemandType, Zenon
    <2>3. \A p \in Products \ Rows(t) : q.demand[p] = 0 BY <1>5, <2>2 DEF Rows
    <2>4. \A p \in Products \ Rows(t) : Same(p)
      BY <1>2, <1>5, <2>3 DEF Reserve, TypeOK
    <2>5. HoldsReservation(t, q.order) BY <1>5, Zenon DEF HoldsReservation, ForOrder
    <2>6. \A o \in Orders \ {q.order} : Kept(o) BY <1>2, <1>5, Zenon DEF Reserve, TypeOK
    <2>7. items'[q.order] = q.demand BY <1>2, <1>5, <2>1, Zenon DEF Reserve, TypeOK
    <2>8. SomethingReserved'
      BY <1>2, <2>1, <2>6, <2>7, Zenon DEF SomethingReserved, Demands
    <2> QED BY <1>1, <2>4, <2>5, <2>6, <2>8, Zenon
  <1>6. CASE q.op \in {"confirm", "release"} /\ (Confirm(q.order) \/ Release(q.order))
    <2>1. q.order \in Orders BY <1>1, <1>6, RequestCases, Zenon
    <2>2. \A p \in Products \ Rows(t) : items[q.order][p] = 0
      BY <1>2, <1>6, <2>1 DEF Rows, TypeOK
    <2>3. ASSUME NEW p \in Products \ Rows(t) PROVE Same(p)
      <3>1. available[p] \in Int /\ reserved[p] \in Int /\ items[q.order][p] = 0
        BY <1>2, <2>2 DEF TypeOK
      <3>2. initialized' = initialized /\ reserved'[p] = reserved[p] - items[q.order][p]
        BY <1>6, ZenonT(30) DEF Confirm, Release
      <3>3. \/ available'[p] = available[p]
            \/ available'[p] = available[p] + items[q.order][p]
        BY <1>6, ZenonT(30) DEF Confirm, Release
      <3> QED BY <3>1, <3>2, <3>3
    <2>4. HoldsReservation(t, q.order) BY <1>6, Zenon DEF HoldsReservation, ForOrder
    <2>5. \A o \in Orders \ {q.order} : Kept(o)
      BY <1>2, <1>6, Zenon DEF Confirm, Release, TypeOK
    <2>6. items' = items /\ reservation[q.order] = "pending"
      BY <1>6, Zenon DEF Confirm, Release
    <2>7. SomethingReserved'
      BY <1>2, <2>1, <2>5, <2>6, Zenon DEF SomethingReserved
    <2> QED BY <1>1, <2>3, <2>4, <2>5, <2>7, Zenon
  <1> QED BY <1>3, <1>4, <1>5, <1>6, Zenon DEF Effect

LEMMA CommitKeeps ==
  ASSUME TxInv, NEW t \in Txns, Commit(t)
  PROVE  TxInv'
  <1>1. tx[t].pc = "commit" /\ Effect(tx[t].req) /\ tx' = [tx EXCEPT ![t] = Idle]
    BY CommitIsEffect, Zenon DEF Commit
  <1>2. /\ \A p \in Products \ tx[t].held :
             /\ p \in initialized' <=> p \in initialized
             /\ available'[p] = available[p] /\ reserved'[p] = reserved[p]
        /\ \A o \in Orders : ~HoldsReservation(t, o) =>
             reservation'[o] = reservation[o] /\ items'[o] = items[o]
        /\ SomethingReserved'
    BY <1>1, CommitTouches, Zenon
  <1>3. tx[t].req \in Requests BY <1>1, Zenon DEF TxInv, Sound
  <1>4. tx'[t] = Idle /\ \A u \in Txns \ {t} : tx'[u] = tx[u]
    BY <1>1, Zenon DEF TxInv, TxTypeOK
  <1>5. TxTypeOK' /\ RowsBeforeStock'
    <2>1. TypeOK' /\ RowsBeforeStock'
      BY <1>1, <1>3, EffectIsStep, TypeStep, RowsStep, Zenon DEF TxInv, TxTypeOK
    <2> QED BY <1>1, <2>1, IdleState, Zenon DEF TxInv, TxTypeOK, TxState
  <1>6. Sound(t)' BY <1>4 DEF Sound, InOrder, AsRead, Idle, Waiting
  <1>7. ASSUME NEW u \in Txns \ {t} PROVE Sound(u)'
    <2>1. TxTypeOK /\ Sound(u) /\ Apart(t, u) BY Zenon DEF TxInv
    <2>2. tx[u].held \subseteq Products BY <2>1, Zenon DEF TxTypeOK
    <2>3. \A p \in tx[u].held : p \in Products \ tx[t].held BY <2>1, <2>2, Zenon DEF Apart
    <2>4. ASSUME tx[u].pc \in {"item", "commit"}, ForOrder(u)
          PROVE  /\ reservation'[tx[u].req.order] = reservation[tx[u].req.order]
                 /\ items'[tx[u].req.order] = items[tx[u].req.order]
      <3>1. tx[u].req.order \in Orders
        BY <2>1, <2>4, RequestCases, Zenon DEF Sound, ForOrder
      <3>2. HoldsReservation(u, tx[u].req.order) BY <2>4, Zenon DEF HoldsReservation
      <3>3. ~HoldsReservation(t, tx[u].req.order) BY <2>1, <3>1, <3>2, Zenon DEF Apart
      <3> QED BY <1>2, <3>1, <3>3, Zenon
    <2>5. Untouched(u) BY <1>2, <1>4, <2>3, <2>4, Zenon DEF Untouched
    <2> QED BY <2>1, <2>5, UntouchedSound, Zenon
  <1>8. ASSUME NEW u \in Txns, NEW v \in Txns, u # v PROVE Apart(u, v)'
    <2>1. CASE u # t /\ v # t
      BY <1>4, <1>8, <2>1, Zenon DEF TxInv, Apart, HoldsReservation, ForOrder
    <2>2. CASE u = t \/ v = t
      BY <1>4, <2>2 DEF Apart, HoldsReservation, Idle, Waiting
    <2> QED BY <2>1, <2>2, Zenon
  <1> QED BY <1>2, <1>5, <1>6, <1>7, <1>8, Zenon DEF TxInv

(* TxInv is an invariant of the concurrent transactions: each statement    *)
(* keeps it, for the transaction that runs it and for all the others.      *)
THEOREM TxInvariant == TxSpec => []TxInv
  <1>1. TxInit => TxInv
    <2> SUFFICES ASSUME TxInit PROVE TxInv BY Zenon
    <2>1. TypeOK BY BigintAssumption DEF TxInit, Init, TypeOK, NoItems
    <2>2. RowsBeforeStock BY DEF TxInit, Init, RowsBeforeStock, NoItems
    <2>3. TxTypeOK BY <2>1, IdleState, Zenon DEF TxInit, TxTypeOK, TxState
    <2>4. SomethingReserved BY Zenon DEF TxInit, Init, SomethingReserved
    <2>5. \A t \in Txns : tx[t] = Idle BY Zenon DEF TxInit
    <2>6. \A t \in Txns : Sound(t) BY <2>5 DEF Sound, InOrder, AsRead, Idle, Waiting
    <2>7. \A t, u \in Txns : Apart(t, u) BY <2>5 DEF Apart, HoldsReservation, Idle, Waiting
    <2> QED BY <2>2, <2>3, <2>4, <2>6, <2>7, Zenon DEF TxInv
  <1>2. TxInv /\ [TxNext]_txVars => TxInv'
    <2> SUFFICES ASSUME TxInv, [TxNext]_txVars PROVE TxInv' BY Zenon
    <2>1. CASE UNCHANGED txVars
      <3>1. UNCHANGED <<initialized, available, reserved, reservation, items, logged, tx>>
        BY <2>1, Zenon DEF txVars, vars
      <3>2. TxTypeOK' /\ SomethingReserved' /\ RowsBeforeStock'
        BY <3>1, Zenon DEF TxInv, TxTypeOK, TypeOK, SomethingReserved, RowsBeforeStock
      <3>3. ASSUME NEW u \in Txns PROVE Sound(u)'
        <4>1. Untouched(u) BY <3>1, Zenon DEF Untouched
        <4> QED BY <4>1, UntouchedSound, Zenon DEF TxInv
      <3>4. ASSUME NEW u \in Txns, NEW v \in Txns, u # v PROVE Apart(u, v)'
        BY <3>1, <3>4, Zenon DEF TxInv, Apart, HoldsReservation, ForOrder
      <3> QED BY <3>2, <3>3, <3>4, Zenon DEF TxInv
    <2>2. ASSUME NEW t \in Txns, NEW q \in Requests, Begin(t, q) PROVE TxInv'
      BY <2>2, BeginKeeps, Zenon
    <2>3. ASSUME NEW t \in Txns, Step(t) PROVE TxInv'
      BY <2>3, ReadKeeps, ReservationKeeps, TakeKeeps, CommitKeeps, Zenon DEF Step
    <2>4. ASSUME NEW t \in Txns, Abort(t) PROVE TxInv'
      BY <2>4, EndKeeps, Zenon DEF Abort
    <2> QED BY <2>1, <2>2, <2>3, <2>4, Zenon DEF TxNext
  <1> QED BY <1>1, <1>2, PTL DEF TxSpec

(* Theorem for CommitNeverFails: the row locks keep what a transaction     *)
(* checked true until it commits, so the conditional updates of Reserve,   *)
(* Confirm and Release never fail at their commit.                         *)
THEOREM ChecksHoldAtCommit == TxSpec => []CommitNeverFails
  <1>1. TxInv => CommitNeverFails BY CommitPossible, Zenon DEF CommitNeverFails
  <1> QED BY <1>1, TxInvariant, PTL

(* A row above another has fewer rows above it.                            *)
LEMMA FewerAbove ==
  ASSUME NEW a \in Products, NEW b \in Products, a < b
  PROVE  /\ Cardinality({p \in Products : p > a}) \in Nat
         /\ Cardinality({p \in Products : p > b}) \in Nat
         /\ Cardinality({p \in Products : p > b}) < Cardinality({p \in Products : p > a})
  <1> DEFINE A == {p \in Products : p > a}
             B == {p \in Products : p > b}
  <1>1. IsFiniteSet(A) BY ProductAssumption, FS_Subset, Zenon
  <1>2. B \subseteq A /\ b \in A /\ b \notin B
    <2>1. Products \subseteq Nat BY ProductAssumption, Zenon
    <2>2. \A p \in Products : p > b => p > a BY <2>1
    <2>3. b > a /\ ~(b > b) BY <2>1
    <2> QED BY <2>2, <2>3, Zenon
  <1>3. B # A BY <1>2, Zenon
  <1> HIDE DEF A, B
  <1>4. IsFiniteSet(B) /\ Cardinality(B) <= Cardinality(A)
        /\ (Cardinality(B) = Cardinality(A) => B = A)
    BY <1>1, <1>2, FS_Subset, Zenon
  <1>5. Cardinality(A) \in Nat /\ Cardinality(B) \in Nat
    BY <1>1, <1>4, FS_CardinalityType, Zenon
  <1>6. Cardinality(B) < Cardinality(A) BY <1>3, <1>4, <1>5
  <1> QED BY <1>5, <1>6, Zenon DEF A, B

(* Theorem for NoLockCycle: along a chain of waiting transactions the next *)
(* row only grows, and there are finitely many products, so some           *)
(* transaction of every set can go on: sorting the items is enough to keep *)
(* Reserve, Confirm and Release from deadlocking.                          *)
THEOREM LocksAreOrdered == TxSpec => []NoLockCycle
  <1>1. TxInv => NoLockCycle
    <2> SUFFICES ASSUME TxInv, NEW S \in (SUBSET Txns) \ {{}},
                        \A t \in S : \E u \in S \ {t} : WaitsFor(t, u)
                 PROVE  FALSE
      BY Zenon DEF NoLockCycle
    <2>1. ASSUME NEW t \in S, NEW u \in S, WaitsFor(t, u)
          PROVE  tx[u].pc = "item"
      <3>1. tx[u].pc \in {"item", "commit"}
        <4>1. CASE tx[u].held # {} BY <4>1, Zenon DEF TxInv, Sound, TxTypeOK
        <4> QED BY <2>1, <4>1, Zenon DEF WaitsFor, HoldsReservation
      <3>2. PICK v \in S : WaitsFor(u, v) BY Zenon
      <3> QED BY <3>1, <3>2, Zenon DEF WaitsFor
    <2> DEFINE T == {t \in S : tx[t].pc = "item"}
               Above(r) == Cardinality({p \in Products : p > r})
               H == {Above(NextRow(t)) : t \in T}
    <2>2. ASSUME NEW t \in T
          PROVE  \E u \in T : /\ Above(NextRow(t)) \in Nat
                              /\ Above(NextRow(u)) \in Nat
                              /\ Above(NextRow(u)) < Above(NextRow(t))
      <3>1. PICK u \in S \ {t} : WaitsFor(t, u) BY Zenon
      <3>2. u \in T BY <2>1, <3>1, Zenon
      <3>3. NextRow(t) \in tx[u].held BY <3>1, Zenon DEF WaitsFor
      <3>4. NextRow(t) \in Products /\ NextRow(u) \in Products /\ NextRow(t) < NextRow(u)
        BY <3>2, <3>3, NextRowIsLeast, Zenon
      <3> QED BY <3>2, <3>4, FewerAbove, Zenon
    <2>3. T # {} BY <2>1, Zenon
    <2> HIDE DEF T, Above
    <2>4. H \in SUBSET Nat /\ H # {} BY <2>2, <2>3, Zenon
    <2>5. PICK x \in H : \A y \in H : x <= y BY <2>4, LeastNatural, Zenon
    <2>6. PICK t \in T : x = Above(NextRow(t)) BY <2>5, Zenon
    <2>7. PICK u \in T : /\ Above(NextRow(t)) \in Nat /\ Above(NextRow(u)) \in Nat
                          /\ Above(NextRow(u)) < Above(NextRow(t))
      BY <2>2, Zenon
    <2>8. Above(NextRow(t)) <= Above(NextRow(u)) BY <2>5, <2>6, Zenon
    <2> QED BY <2>7, <2>8
  <1> QED BY <1>1, TxInvariant, PTL

(* Theorem for AtomicSpec: InventoryTx implements Inventory.  A commit     *)
(* puts in place what was computed row by row, at different moments, and   *)
(* what results is the whole operation applied to the rows as they are     *)
(* then: the FOR UPDATE locks of Reserve, Add and transition and the       *)
(* unique order_id keep every row as it was when it was read.              *)
THEOREM TransactionsAreAtomic == TxSpec => AtomicSpec
  <1>1. TxInit => Init BY Zenon DEF TxInit
  <1>2. TxInv /\ [TxNext]_txVars => [Next]_vars
    <2> SUFFICES ASSUME TxInv, [TxNext]_txVars PROVE [Next]_vars BY Zenon
    <2>1. ASSUME NEW t \in Txns, Commit(t) PROVE Next
      BY <2>1, CommitIsEffect, EffectIsStep, Zenon DEF Commit, TxInv, Sound
    <2> QED BY <2>1, Zenon DEF TxNext, Begin, Step, Abort, End, GoTo, ReadExisting,
                        InsertReservation, LockReservation, TakeRow, txVars
  <1> QED BY <1>1, <1>2, TxInvariant, PTL DEF TxSpec, Spec, AtomicSpec

(* What Inventory promises holds of the committed rows at every moment of  *)
(* every interleaving of its transactions.                                 *)
THEOREM ConcurrentStock ==
  TxSpec => [](ReservedIsPending /\ StockConserved /\ LogExplainsStock)
  BY TransactionsAreAtomic, ReservedMatches, Conservation, LogIsJournal, PTL DEF AtomicSpec
=============================================================================
