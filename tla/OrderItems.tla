----------------------------- MODULE OrderItems -----------------------------
(***************************************************************************)
(* What an order is for: catalog-service (internal/catalogsvc), whose      *)
(* products administrators create and put on and off sale, and the way     *)
(* Create of order-service turns the lines of a request into the items,    *)
(* the total and the demand on inventory-service (resolveItems and         *)
(* normalizeItems).  The catalogue is asked product by product, so it can  *)
(* change between two answers.                                             *)
(*                                                                         *)
(* Sums and products are int64 in the code: here every one of them is cut  *)
(* to the width that MaxInt gives.  Requests share nothing but the         *)
(* catalogue, so there is one of them.  OrderSaga goes on from the insert. *)
(***************************************************************************)
EXTENDS Integers, Sequences, SequencesExt, FiniteSetsExt

CONSTANTS Products,     \* product ids
          Prices,       \* prices that a product is created with
          Amounts,      \* quantities that a line of a request can carry
          MaxLines,     \* bound on the lines of a request (100 in the code)
          MaxInt        \* 2^63 - 1 in the code

ASSUME ItemsAssumption ==
  /\ Products \subseteq Nat \ {0} /\ MaxInt \in Nat \ {0}
  /\ Prices \subseteq 1..MaxInt /\ Amounts \subseteq -MaxInt..MaxInt

VARIABLES price,        \* price_fen of each product, 0 before its row exists
          onSale,       \* products whose status is on sale
          pc,           \* where the request is, or how it ended
          asked,        \* its lines
          left,         \* products that resolveItems has still to look up
          bill,         \* price of each item so far
          total,        \* total_fen so far
          demand        \* what inventory-service is asked to reserve

catalogVars == <<price, onSale>>

requestVars == <<pc, asked, left, bill, total, demand>>

vars == <<catalogVars, requestVars>>

Line == [product : Products, quantity : Amounts]

None == [p \in Products |-> 0]

TypeOK ==
  /\ price \in [Products -> Prices \cup {0}]
  /\ onSale \subseteq Products
  /\ pc \in {"idle", "lookup", "insert", "ordered", "reserve",
             "invalid", "unavailable", "error", "panic", "refused"}
  /\ asked \in BoundedSeq(Line, MaxLines)
  /\ left \subseteq Products
  /\ bill \in [Products -> Prices \cup {0}]
  /\ total \in 0..MaxInt
  /\ demand \in [Products -> Int]

Init ==
  /\ price = None /\ onSale = {}
  /\ pc = "idle" /\ asked = <<>> /\ left = {}
  /\ bill = None /\ total = 0 /\ demand = None

-----------------------------------------------------------------------------
(* Catalog-service.  A product is created off sale, and its price never    *)
(* changes.                                                                *)
Create(p, fen) ==
  /\ price[p] = 0
  /\ price' = [price EXCEPT ![p] = fen]
  /\ UNCHANGED <<onSale, requestVars>>

SetStatus(p, sell) ==
  /\ price[p] # 0
  /\ onSale' = IF sell THEN onSale \cup {p} ELSE onSale \ {p}
  /\ UNCHANGED <<price, requestVars>>

-----------------------------------------------------------------------------
(* A result as an int64 holds it, and Go's division, which truncates.      *)
Wrap(n) == ((n + MaxInt + 1) % (2 * (MaxInt + 1))) - (MaxInt + 1)

Quotient(a, b) == IF b > 0 THEN a \div b ELSE -(a \div (-b))

(* The map that resolveItems and normalizeItems build from the lines.      *)
Quantities(lines) ==
  [p \in Products |->
     FoldLeft(LAMBDA sum, line : IF line.product = p THEN Wrap(sum + line.quantity) ELSE sum,
              0, lines)]

Named(lines) == {lines[i].product : i \in DOMAIN lines}

Valid(lines) ==
  /\ Len(lines) \in 1..MaxLines
  /\ \A i \in DOMAIN lines : lines[i].quantity > 0

(* Mutants of TooLarge: the total is not looked at, and the largest total  *)
(* is refused.                                                             *)
TooLargeEach(fen, quantity) == fen > Quotient(MaxInt, quantity)

TooLargeStrict(fen, quantity) ==
  \/ fen > Quotient(MaxInt, quantity)
  \/ total >= Wrap(MaxInt - Wrap(fen * quantity))

(* The overflow check of resolveItems.                                     *)
TooLarge(fen, quantity) ==
  \/ fen > Quotient(MaxInt, quantity)
  \/ total > Wrap(MaxInt - Wrap(fen * quantity))

Begin(lines) ==
  /\ pc = "idle"
  /\ asked' = lines
  /\ IF Valid(lines) THEN pc' = "lookup" /\ left' = Named(lines)
     ELSE pc' = "invalid" /\ UNCHANGED left
  /\ UNCHANGED <<catalogVars, bill, total, demand>>

(* What GetProduct answers: catalog-service has the row or has not.        *)
Found(p) == price[p] # 0

(* The product that GetProduct returned may be sold.                       *)
Sellable(p) == p \in onSale /\ price[p] > 0

(* One turn of the loop over the product ids, in ascending order.          *)
Lookup ==
  LET p == Min(left)
      quantity == Quantities(asked)[p]
  IN  /\ pc = "lookup"
      /\ IF ~Found(p) THEN pc' = "error" /\ UNCHANGED <<left, bill, total>>
         ELSE IF ~Sellable(p) THEN pc' = "unavailable" /\ UNCHANGED <<left, bill, total>>
         ELSE IF quantity = 0 THEN pc' = "panic" /\ UNCHANGED <<left, bill, total>>
         ELSE IF TooLarge(price[p], quantity)
           THEN pc' = "invalid" /\ UNCHANGED <<left, bill, total>>
         ELSE /\ total' = Wrap(total + Wrap(price[p] * quantity))
              /\ bill' = [bill EXCEPT ![p] = price[p]]
              /\ left' = left \ {p}
              /\ pc' = IF left = {p} THEN "insert" ELSE "lookup"
      /\ UNCHANGED <<catalogVars, asked, demand>>

(* GetProduct fails for good, or the insert is rolled back.                *)
Fail ==
  /\ pc \in {"lookup", "insert"}
  /\ pc' = "error"
  /\ UNCHANGED <<catalogVars, asked, left, bill, total, demand>>

(* The CHECK constraints of orders and order_items.  Lookup has refused    *)
(* what they would: a sum that wraps below zero fails the overflow check,  *)
(* since every price is above the negative quotient, and one that wraps to *)
(* zero ends in the division.                                              *)
ChecksHold == total >= 0 /\ \A p \in Named(asked) : Quantities(asked)[p] > 0

(* The order and its items are inserted.                                   *)
Insert ==
  /\ pc = "insert"
  /\ pc' = IF ChecksHold THEN "ordered" ELSE "error"
  /\ UNCHANGED <<catalogVars, asked, left, bill, total, demand>>

(* The items go to inventory-service, one line each in the order of the    *)
(* ids, and normalizeItems sums them up again.                             *)
Reserve ==
  LET lines == [i \in 1..Cardinality(Named(asked)) |->
                  LET p == SetToSortSeq(Named(asked), <)[i]
                  IN  [product |-> p, quantity |-> Quantities(asked)[p]]]
  IN  /\ pc = "ordered"
      /\ IF Valid(lines) THEN pc' = "reserve" /\ demand' = Quantities(lines)
         ELSE pc' = "refused" /\ UNCHANGED demand
      /\ UNCHANGED <<catalogVars, asked, left, bill, total>>

Next ==
  \/ \E p \in Products, fen \in Prices : Create(p, fen)
  \/ \E p \in Products, sell \in BOOLEAN : SetStatus(p, sell)
  \/ \E lines \in BoundedSeq(Line, MaxLines) : Begin(lines)
  \/ Lookup \/ Fail \/ Insert \/ Reserve

Spec == Init /\ [][Next]_vars

-----------------------------------------------------------------------------
(* What the request asks for, and costs, in the integers of mathematics.   *)
Wanted(p) ==
  FoldLeft(LAMBDA sum, line : IF line.product = p THEN sum + line.quantity ELSE sum, 0, asked)

Fits == \A p \in Products : Wanted(p) <= MaxInt

Cost(prices, amounts) == MapThenSumSet(LAMBDA p : prices[p] * amounts[p], Named(asked))

(* An order is for what was asked, costs exactly what its items cost, and  *)
(* reserves exactly its items.  If the quantities of a product add up to   *)
(* more than an int64 holds the sum is taken modulo 2^64, but the total is *)
(* still that of the items.  Neither the constraints of the tables nor     *)
(* inventory-service ever refuse what resolveItems let through.            *)
BillIsExact ==
  /\ pc = "insert" => ChecksHold
  /\ pc # "refused"
  /\ pc \in {"ordered", "reserve"} =>
       LET quantity == Quantities(asked)
       IN  /\ total = Cost(bill, quantity) /\ total \in 1..MaxInt
           /\ \A p \in Named(asked) : Wanted(p) <= MaxInt => quantity[p] = Wanted(p)
           /\ pc = "reserve" => demand = quantity

(* A well-formed request is turned away as invalid, or brings the handler  *)
(* to a division by zero, only when its quantities or its cost do not fit  *)
(* into an int64: the overflow check never refuses an order that fits.     *)
RefusalHasCause ==
  /\ pc = "panic" => ~Fits
  /\ pc = "invalid" /\ Valid(asked) =>
       ~Fits \/ Cost(price, [p \in Products |-> Wanted(p)]) > MaxInt
=============================================================================
