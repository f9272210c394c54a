-------------------------- MODULE OrderSagaProofs --------------------------
(***************************************************************************)
(* Proofs about the order saga, for any number of orders, products,        *)
(* requests and attempts.  Under every fault: the types, and that an order *)
(* and its reservation agree.  When no commit is reported as an error      *)
(* ("unknown"): what a request that is past its claim knows about its      *)
(* order, that a request which touches only its own order keeps what all   *)
(* the others know, the refinements of OrderLife and OrderTimer, and the   *)
(* status a client reads.                                                  *)
(***************************************************************************)
EXTENDS SagaHistory, TLAPS

ReservationTypeOK == reservation \in [Orders -> Inventory!ReservationStatus \cup {"none"}]

(* What no step of the inventory service undoes.                           *)
Keeps ==
  /\ ReservationTypeOK'
  /\ \A o \in Orders :
       /\ reservation[o] \in {"confirmed", "released"} => reservation'[o] = reservation[o]
       /\ reservation[o] # "none" => reservation'[o] # "none"

(* A call to the inventory service keeps settled reservations, and one     *)
(* that is accepted leaves the reservation in the state it asked for.      *)
LEMMA ServiceStep ==
  ASSUME ReservationTypeOK, NEW o \in Orders, NEW call \in Calls
  PROVE  /\ Accepts(call, o) \/ Refuses(call, o) => Keeps
         /\ Accepts(call, o) =>
              /\ call = "reserve" => reservation'[o] # "none"
              /\ call = "confirm" => reservation'[o] = "confirmed"
              /\ call = "release" => reservation'[o] = "released"
         /\ Accepts(call, o) \/ Refuses(call, o) =>
              \A x \in Orders : reservation'[x] = "confirmed" =>
                reservation[x] = "confirmed" \/ (x = o /\ call = "confirm")
  BY Zenon DEF ReservationTypeOK, Keeps, Calls, Accepts, Refuses, inventoryVars,
     Inventory!Reserve, Inventory!Confirm, Inventory!Release,
     Inventory!ReservationStatus

(* A call touches the reservation of its own order only.                   *)
LEMMA ServiceLocal ==
  ASSUME ReservationTypeOK, NEW o \in Orders, NEW call \in Calls,
         Accepts(call, o) \/ Refuses(call, o)
  PROVE  \A y \in Orders \ {o} : reservation'[y] = reservation[y]
  BY Zenon DEF ReservationTypeOK, Calls, Accepts, Refuses, inventoryVars,
     Inventory!Reserve, Inventory!Confirm, Inventory!Release

(* Stock arriving changes no reservation.                                  *)
LEMMA StockStep ==
  ASSUME StockIn PROVE reservation' = reservation /\ UNCHANGED sagaVars
  BY Zenon DEF StockIn, Inventory!InitStock, Inventory!Add

(* A status write keeps the types of the two columns.                      *)
LEMMA WriteType ==
  ASSUME SagaTypeOK, NEW o \in Orders, NEW s \in OrderStatus, Write(o, s)
  PROVE  /\ status' \in [Orders -> OrderStatus]
         /\ task' \in [Orders -> SUBSET Plans]
         /\ status'[o] = s
         /\ \A x \in Orders \ {o} : status'[x] = status[x] /\ task'[x] = task[x]
  BY Zenon DEF SagaTypeOK, Write, PlanFor, Plans

(* The record of a request that acts.                                      *)
LEMMA Acting ==
  ASSUME SagaTypeOK, NEW r \in Requests, req[r] # NoRequest \/ req[r].pc # "idle"
  PROVE  req[r] \in ActiveRequest
  BY DEF SagaTypeOK, NoRequest

(* The helpers that move a goroutine on keep the type of req, and change   *)
(* only the fields they name.                                              *)
LEMMA AtStep ==
  ASSUME SagaTypeOK, NEW r \in Requests, req[r] \in ActiveRequest,
         req[r].pc # "begin", NEW pc \in {"ok", "err", "flag"}, At(r, pc)
  PROVE  /\ req' \in [Requests -> ActiveRequest \cup {NoRequest}]
         /\ req'[r].op = req[r].op /\ req'[r].order = req[r].order
         /\ req'[r].pc = pc /\ req'[r].call = req[r].call
         /\ \A x \in Requests \ {r} : req'[x] = req[x]
  <1> DEFINE e == [req[r] EXCEPT !.pc = pc]
  <1>1. /\ e \in ActiveRequest /\ e.op = req[r].op /\ e.order = req[r].order
        /\ e.pc = pc /\ e.call = req[r].call
    BY Zenon DEF ActiveRequest, Calls
  <1>2. req' = [req EXCEPT ![r] = e] BY Zenon DEF At
  <1> HIDE DEF e
  <1> QED BY <1>1, <1>2, Zenon DEF SagaTypeOK

LEMMA StartStep ==
  ASSUME SagaTypeOK, NEW r \in Requests, req[r] \in ActiveRequest,
         NEW call \in Calls, StartCall(r, call)
  PROVE  /\ req' \in [Requests -> ActiveRequest \cup {NoRequest}]
         /\ req'[r].op = req[r].op /\ req'[r].order = req[r].order
         /\ req'[r].pc = "call" /\ req'[r].call = call
         /\ \A x \in Requests \ {r} : req'[x] = req[x]
  <1> DEFINE e == [req[r] EXCEPT !.pc = "call", !.call = call, !.tries = 1]
  <1>1. 1 \in 0..MaxAttempts BY SagaAssumption
  <1>2. /\ e \in ActiveRequest /\ e.op = req[r].op /\ e.order = req[r].order
        /\ e.pc = "call" /\ e.call = call
    BY <1>1, Zenon DEF ActiveRequest, Calls
  <1>3. req' = [req EXCEPT ![r] = e] BY Zenon DEF StartCall
  <1> HIDE DEF e
  <1> QED BY <1>2, <1>3, Zenon DEF SagaTypeOK

LEMMA EndStep ==
  ASSUME SagaTypeOK, NEW r \in Requests, End(r)
  PROVE  /\ req' \in [Requests -> ActiveRequest \cup {NoRequest}]
         /\ req'[r] = NoRequest
         /\ \A x \in Requests \ {r} : req'[x] = req[x]
  BY Zenon DEF SagaTypeOK, End

(* A retry counts the attempt.                                             *)
LEMMA RetryStep ==
  ASSUME SagaTypeOK, NEW r \in Requests, req[r] \in ActiveRequest,
         req[r].pc # "begin", req[r].tries < MaxAttempts, RetryCall(r)
  PROVE  /\ req' \in [Requests -> ActiveRequest \cup {NoRequest}]
         /\ req'[r].op = req[r].op /\ req'[r].order = req[r].order
         /\ req'[r].pc = "call" /\ req'[r].call = req[r].call
         /\ \A x \in Requests \ {r} : req'[x] = req[x]
  <1> DEFINE e == [req[r] EXCEPT !.pc = "call", !.tries = req[r].tries + 1]
  <1>1. req[r].tries + 1 \in 0..MaxAttempts BY SagaAssumption DEF ActiveRequest
  <1>2. /\ e \in ActiveRequest /\ e.op = req[r].op /\ e.order = req[r].order
        /\ e.pc = "call" /\ e.call = req[r].call
    BY <1>1, Zenon DEF ActiveRequest, Calls
  <1>3. req' = [req EXCEPT ![r] = e] BY Zenon DEF RetryCall
  <1> HIDE DEF e
  <1> QED BY <1>2, <1>3, Zenon DEF SagaTypeOK

-----------------------------------------------------------------------------
(* Every step keeps the types, and what the inventory service never undoes. *)
LEMMA TypeStep ==
  ASSUME SagaTypeOK, ReservationTypeOK, [Next]_vars
  PROVE  SagaTypeOK' /\ Keeps
  <1> USE DEF SagaTypeOK, OrderStatus, Transient, Calls
  <1>1. ASSUME NEW r \in Requests, NEW o \in Orders,
               NEW op \in {"create", "pay", "cancel"}, Begin(r, op, o)
        PROVE  SagaTypeOK' /\ Keeps
    <2>1. [op |-> op, order |-> o, pc |-> "begin", call |-> "none", tries |-> 0]
            \in ActiveRequest
      BY SagaAssumption DEF ActiveRequest
    <2> QED BY <1>1, <2>1, Zenon DEF Begin, inventoryVars, ReservationTypeOK, Keeps
  <1>2. ASSUME NEW r \in Requests, Work(r) \/ Crash(r)
        PROVE  SagaTypeOK' /\ Keeps
    <2>1. req[r] \in ActiveRequest
      BY <1>2, Acting, Zenon DEF Work, Crash, InsertOrder, ClaimOrder, ServeCall, LoseCall,
         FailOrder, OpenOrder, CloseFailed, RevertClaim, SettleOrder, FlagOrder, NoRequest
    <2>2. req[r].order \in Orders /\ (req[r].pc # "begin" => req[r].call \in Calls)
      BY <2>1, Zenon DEF ActiveRequest
    <2>3. UNCHANGED inventoryVars => Keeps
      BY Zenon DEF inventoryVars, ReservationTypeOK, Keeps
    <2>4. CASE InsertOrder(r)
      BY <2>1, <2>2, <2>3, <2>4, WriteType, StartStep, EndStep DEF InsertOrder
    <2>5. CASE ClaimOrder(r)
      BY <2>1, <2>2, <2>3, <2>5, WriteType, StartStep, EndStep, Zenon DEF ClaimOrder
    <2>6. CASE ServeCall(r)
      <3>0. At(r, "ok") \/ At(r, "err")
        BY <2>6, Zenon DEF ServeCall
      <3>1. req' \in [Requests -> ActiveRequest \cup {NoRequest}]
        BY <2>1, <2>6, <3>0, AtStep, Zenon DEF ServeCall
      <3>2. req[r].call \in Calls
        BY <2>2, <2>6, Zenon DEF ServeCall
      <3> QED BY <3>1, <3>2, <2>2, <2>6, ServiceStep, Zenon DEF ServeCall
    <2>7. CASE LoseCall(r)
      <3>1. req' \in [Requests -> ActiveRequest \cup {NoRequest}]
        BY <2>1, <2>7, AtStep, RetryStep, Zenon DEF LoseCall
      <3> QED BY <3>1, <2>2, <2>3, <2>7 DEF LoseCall
    <2>8. CASE FailOrder(r)
      BY <2>2, <2>3, <2>8, WriteType, EndStep, Zenon DEF FailOrder
    <2>9. CASE OpenOrder(r)
      BY <2>1, <2>2, <2>3, <2>9, WriteType, StartStep, EndStep DEF OpenOrder
    <2>10. CASE CloseFailed(r)
      BY <2>2, <2>3, <2>10, WriteType, EndStep, Zenon DEF CloseFailed
    <2>11. CASE RevertClaim(r)
      BY <2>2, <2>3, <2>11, WriteType, EndStep, Zenon DEF RevertClaim
    <2>12. CASE SettleOrder(r)
      <3>1. req' \in [Requests -> ActiveRequest \cup {NoRequest}]
        BY <2>1, <2>12, AtStep, EndStep, Zenon DEF SettleOrder
      <3>2. timer' \in [Orders -> {"none", "open", "completed"}]
        BY <2>2, <2>12, Zenon DEF SettleOrder, CloseTimer
      <3> QED BY <3>1, <3>2, <2>2, <2>3, <2>12, WriteType, Zenon DEF SettleOrder
    <2>13. CASE FlagOrder(r)
      BY <2>2, <2>3, <2>13, WriteType, EndStep, Zenon DEF FlagOrder
    <2>14. CASE Crash(r)
      BY <2>2, <2>3, <2>14, EndStep DEF Crash
    <2> QED
      BY <1>2, <2>4, <2>5, <2>6, <2>7, <2>8, <2>9, <2>10, <2>11, <2>12, <2>13, <2>14, Zenon
         DEF Work
  <1>3. ASSUME NEW o \in Orders, NEW call \in Calls, ServeStray(o, call)
        PROVE  SagaTypeOK' /\ Keeps
    BY <1>3, ServiceStep, Zenon DEF ServeStray, sagaVars, SagaTypeOK
  <1>4. ASSUME NEW o \in Orders, FinishOrder(o)
        PROVE  SagaTypeOK' /\ Keeps
    BY <1>4, WriteType, Zenon DEF FinishOrder, inventoryVars, ReservationTypeOK, Keeps
  <1>5. CASE StockIn
    BY <1>5, StockStep, Zenon DEF sagaVars, ReservationTypeOK, Keeps
  <1>6. CASE UNCHANGED vars
    BY <1>6, Zenon DEF vars, sagaVars, inventoryVars, ReservationTypeOK, Keeps
  <1> QED BY <1>1, <1>2, <1>3, <1>4, <1>5, <1>6, Zenon DEF Next

-----------------------------------------------------------------------------
(* A goroutine of Pay or cancel calls one operation only, and once it is   *)
(* told of success the reservation is in that state for good.              *)
CallFits ==
  \A r \in Requests :
    /\ req[r].op = "pay" /\ req[r].pc # "begin" =>
         /\ req[r].call = "confirm"
         /\ req[r].pc \in {"ok", "flag"} => reservation[req[r].order] = "confirmed"
    /\ req[r].op = "cancel" /\ req[r].pc # "begin" =>
         /\ req[r].call = "release"
         /\ req[r].pc \in {"ok", "flag"} => reservation[req[r].order] = "released"

(* The inductive invariant behind SettlementAgrees.                        *)
SettleInv == SagaTypeOK /\ ReservationTypeOK /\ CallFits /\ SettlementAgrees

(* CallFits survives a step when it holds of the one request that moved.   *)
LEMMA FitsStep ==
  ASSUME SettleInv, Keeps, NEW r \in Requests,
         \A x \in Requests \ {r} : req'[x] = req[x],
         req'[r] = NoRequest \/
           /\ req'[r].op = "pay" /\ req'[r].pc # "begin" =>
                /\ req'[r].call = "confirm"
                /\ req'[r].pc \in {"ok", "flag"} => reservation'[req'[r].order] = "confirmed"
           /\ req'[r].op = "cancel" /\ req'[r].pc # "begin" =>
                /\ req'[r].call = "release"
                /\ req'[r].pc \in {"ok", "flag"} => reservation'[req'[r].order] = "released"
  PROVE  CallFits'
  <1> SUFFICES ASSUME NEW x \in Requests
               PROVE /\ req'[x].op = "pay" /\ req'[x].pc # "begin" =>
                          /\ req'[x].call = "confirm"
                          /\ req'[x].pc \in {"ok", "flag"} =>
                               reservation'[req'[x].order] = "confirmed"
                     /\ req'[x].op = "cancel" /\ req'[x].pc # "begin" =>
                          /\ req'[x].call = "release"
                          /\ req'[x].pc \in {"ok", "flag"} =>
                               reservation'[req'[x].order] = "released"
    BY Zenon DEF CallFits
  <1>1. CASE x = r
    BY <1>1 DEF NoRequest
  <1>2. CASE x # r
    <2>1. req'[x] = req[x] BY <1>2, Zenon
    <2>2. req[x].pc \notin {"idle"} => req[x].order \in Orders
      BY Acting, Zenon DEF SettleInv, ActiveRequest
    <2> QED BY <2>1, <2>2 DEF SettleInv, CallFits, Keeps
  <1> QED BY <1>1, <1>2, Zenon

(* One step of the saga keeps the invariant.                               *)
LEMMA SettleStep ==
  ASSUME SettleInv, [Next]_vars
  PROVE  SettleInv'
  <1>1. SagaTypeOK' /\ Keeps BY TypeStep, Zenon DEF SettleInv
  <1>2. ReservationTypeOK' BY <1>1, Zenon DEF Keeps
  <1>3. UNCHANGED status => SettlementAgrees'
    BY <1>1, Zenon DEF SettleInv, SettlementAgrees, Keeps
  <1>4. UNCHANGED req => CallFits'
    <2>1. \A r \in Requests : req[r].pc # "idle" => req[r].order \in Orders
      BY Acting, Zenon DEF SettleInv, ActiveRequest
    <2> QED BY <1>1, <2>1 DEF SettleInv, CallFits, Keeps, SagaTypeOK, NoRequest
  <1>5. ASSUME NEW o \in Orders, NEW s \in OrderStatus, Write(o, s),
               s \notin {"paid", "finished", "cancelled"}
        PROVE  SettlementAgrees'
    BY <1>1, <1>5, WriteType, ZenonT(30) DEF SettleInv, SettlementAgrees, Keeps
  <1>6. ASSUME NEW r \in Requests, End(r) PROVE CallFits'
    BY <1>1, <1>6, EndStep, FitsStep, Zenon DEF SettleInv
  <1>7. ASSUME NEW r \in Requests, Work(r) \/ Crash(r)
        PROVE  CallFits' /\ SettlementAgrees'
    <2> USE DEF OrderStatus, Transient
    <2>1. req[r] \in ActiveRequest
      BY <1>7, Acting, Zenon DEF SettleInv, Work, Crash, InsertOrder, ClaimOrder, ServeCall,
         LoseCall,
         FailOrder, OpenOrder, CloseFailed, RevertClaim, SettleOrder, FlagOrder, NoRequest
    <2>2. req[r].order \in Orders /\ (req[r].pc # "begin" => req[r].call \in Calls)
      BY <2>1, Zenon DEF ActiveRequest
    <2>3. SagaTypeOK /\ ReservationTypeOK BY Zenon DEF SettleInv
    <2>4. CASE InsertOrder(r)
      <3>1. CallFits'
        BY <1>1, <1>6, <2>1, <2>3, <2>4, StartStep, FitsStep, Zenon DEF InsertOrder, Calls
      <3> QED BY <1>3, <1>5, <2>2, <2>4, <3>1 DEF InsertOrder
    <2>5. CASE ClaimOrder(r)
      <3>1. CallFits'
        BY <1>1, <1>6, <2>1, <2>3, <2>5, StartStep, FitsStep, Zenon DEF ClaimOrder, Calls
      <3> QED BY <1>3, <1>5, <2>2, <2>5, <3>1 DEF ClaimOrder
    <2>6. CASE ServeCall(r)
      <3>1. req[r].pc = "call" /\ req[r].pc # "begin" /\ UNCHANGED status
        BY <2>6, Zenon DEF ServeCall
      <3>2. CASE Accepts(req[r].call, req[r].order) /\ At(r, "ok")
        <4>1. /\ req[r].call = "confirm" => reservation'[req[r].order] = "confirmed"
              /\ req[r].call = "release" => reservation'[req[r].order] = "released"
          BY <2>2, <2>3, <3>1, <3>2, ServiceStep, Zenon
        <4>2. /\ req'[r].op = req[r].op /\ req'[r].order = req[r].order
              /\ req'[r].pc = "ok" /\ req'[r].call = req[r].call
              /\ \A x \in Requests \ {r} : req'[x] = req[x]
          BY <2>1, <2>3, <3>1, <3>2, AtStep, Zenon
        <4>3. /\ req[r].op = "pay" => req[r].call = "confirm"
              /\ req[r].op = "cancel" => req[r].call = "release"
          BY <3>1, Zenon DEF SettleInv, CallFits
        <4> QED BY <1>1, <1>3, <3>1, <4>1, <4>2, <4>3, FitsStep, Zenon
      <3>3. CASE Refuses(req[r].call, req[r].order) /\ At(r, "err")
        <4>1. CallFits'
          BY <1>1, <2>1, <2>3, <3>1, <3>3, AtStep, FitsStep DEF SettleInv, CallFits
        <4> QED BY <1>3, <3>1, <4>1, Zenon
      <3> QED BY <2>6, <3>2, <3>3, Zenon DEF ServeCall
    <2>7. CASE LoseCall(r)
      <3>1. /\ req'[r].op = req[r].op /\ req'[r].order = req[r].order
            /\ req'[r].pc \in {"call", "err"} /\ req'[r].call = req[r].call
            /\ \A x \in Requests \ {r} : req'[x] = req[x]
        BY <2>1, <2>3, <2>7, AtStep, RetryStep, Zenon DEF LoseCall
      <3>2. req[r].pc # "begin" /\ UNCHANGED status BY <2>7, Zenon DEF LoseCall
      <3>3. CallFits'
        BY <1>1, <3>1, <3>2, FitsStep DEF SettleInv, CallFits
      <3> QED BY <1>3, <3>2, <3>3, Zenon
    <2>8. CASE FailOrder(r)
      BY <1>3, <1>5, <1>6, <2>2, <2>8 DEF FailOrder
    <2>9. CASE OpenOrder(r)
      <3>1. CallFits'
        BY <1>1, <1>6, <2>1, <2>3, <2>9, StartStep, FitsStep, Zenon DEF OpenOrder, Calls
      <3> QED BY <1>3, <1>5, <2>2, <2>9, <3>1 DEF OpenOrder
    <2>10. CASE CloseFailed(r)
      BY <1>3, <1>5, <1>6, <2>2, <2>10 DEF CloseFailed
    <2>11. CASE RevertClaim(r)
      BY <1>3, <1>5, <1>6, <2>2, <2>11 DEF RevertClaim
    <2>12. CASE SettleOrder(r)
      <3>1. /\ req[r].pc = "ok" /\ req[r].op \in {"pay", "cancel"}
            /\ reservation' = reservation
        BY <2>12, Zenon DEF SettleOrder, inventoryVars
      <3>2. /\ req[r].op = "pay" => /\ req[r].call = "confirm"
                                   /\ reservation[req[r].order] = "confirmed"
            /\ req[r].op = "cancel" => /\ req[r].call = "release"
                                      /\ reservation[req[r].order] = "released"
        BY <3>1, Zenon DEF SettleInv, CallFits
      <3>3. CallFits'
        <4>1. CASE End(r) BY <1>6, <4>1, Zenon
        <4>2. CASE At(r, "flag")
          BY <1>1, <2>1, <2>3, <3>1, <3>2, <4>2, AtStep, FitsStep, ZenonT(30)
        <4> QED BY <2>12, <4>1, <4>2, Zenon DEF SettleOrder
      <3>4. SettlementAgrees'
        <4>1. ASSUME NEW s \in OrderStatus, Write(req[r].order, s),
                     s = IF req[r].op = "pay" THEN "paid" ELSE "cancelled"
              PROVE  SettlementAgrees'
          BY <2>2, <2>3, <3>1, <3>2, <4>1, WriteType DEF SettleInv, SettlementAgrees
        <4> QED BY <1>3, <2>12, <4>1, Zenon DEF SettleOrder
      <3> QED BY <3>3, <3>4, Zenon
    <2>13. CASE FlagOrder(r)
      BY <1>3, <1>5, <1>6, <2>2, <2>13 DEF FlagOrder
    <2>14. CASE Crash(r)
      BY <1>3, <1>6, <2>14, Zenon DEF Crash
    <2> QED
      BY <1>7, <2>4, <2>5, <2>6, <2>7, <2>8, <2>9, <2>10, <2>11, <2>12, <2>13, <2>14, Zenon
         DEF Work
  <1>8. ASSUME NEW r \in Requests, NEW o \in Orders,
               NEW op \in {"create", "pay", "cancel"}, Begin(r, op, o)
        PROVE  CallFits' /\ SettlementAgrees'
    <2>1. req'[r].pc = "begin" /\ \A x \in Requests \ {r} : req'[x] = req[x]
      BY <1>8, Zenon DEF Begin, SettleInv, SagaTypeOK
    <2> QED BY <1>1, <1>3, <1>8, <2>1, FitsStep, Zenon DEF Begin
  <1>9. ASSUME NEW o \in Orders, NEW call \in Calls, ServeStray(o, call)
        PROVE  CallFits' /\ SettlementAgrees'
    BY <1>3, <1>4, <1>9, Zenon DEF ServeStray, sagaVars
  <1>10. ASSUME NEW o \in Orders, FinishOrder(o)
         PROVE  CallFits' /\ SettlementAgrees'
    <2>1. SettlementAgrees'
      BY <1>10, <1>1, WriteType
      DEF FinishOrder, SettleInv, SettlementAgrees, Keeps, OrderStatus, Transient
    <2> QED BY <1>4, <1>10, <2>1, Zenon DEF FinishOrder
  <1>11. CASE StockIn \/ UNCHANGED vars
    <2>1. UNCHANGED sagaVars BY <1>11, StockStep, Zenon DEF vars
    <2>2. UNCHANGED status /\ UNCHANGED req BY <2>1, Zenon DEF sagaVars
    <2> QED BY <1>1, <1>2, <1>3, <1>4, <2>2, Zenon DEF SettleInv
  <1> QED
    BY <1>1, <1>2, <1>7, <1>8, <1>9, <1>10, <1>11, Zenon DEF Next, SettleInv

(* The saga starts with the invariant.                                     *)
LEMMA SettleStart == Init => SettleInv
  <1> SUFFICES ASSUME Init PROVE SettleInv BY Zenon
  <1>1. SagaTypeOK
    <2>1. NoRequest \in ActiveRequest \cup {NoRequest} BY Zenon
    <2> QED BY <2>1, Zenon DEF Init, SagaTypeOK, OrderStatus
  <1>2. ReservationTypeOK
    BY Zenon DEF Init, Inventory!Init, ReservationTypeOK, Inventory!ReservationStatus
  <1>3. CallFits BY Zenon DEF Init, CallFits, NoRequest
  <1>4. SettlementAgrees BY Zenon DEF Init, SettlementAgrees
  <1> QED BY <1>1, <1>2, <1>3, <1>4, Zenon DEF SettleInv

(* The columns and goroutines of the order service keep their types.       *)
THEOREM SagaTypeCorrect == Spec => []SagaTypeOK
  <1>1. SettleInv => SagaTypeOK BY Zenon DEF SettleInv
  <1> QED BY <1>1, SettleStart, SettleStep, PTL DEF Spec

(* Whatever fails, and however requests interleave, a paid or finished     *)
(* order has its stock confirmed and a cancelled one has it released.      *)
THEOREM SettlementCorrect == Spec => []SettlementAgrees
  <1>1. SettleInv => SettlementAgrees BY Zenon DEF SettleInv
  <1> QED BY <1>1, SettleStart, SettleStep, PTL DEF Spec

-----------------------------------------------------------------------------
(* A request that is past its claim has the order in the status it         *)
(* claimed; before compensating, Create has its reservation.               *)
ClaimOf(op) ==
  IF op = "create" THEN "reserving" ELSE IF op = "pay" THEN "paying" ELSE "cancelling"

HoldsClaim(r) ==
  req[r].pc \notin {"idle", "begin"} =>
    /\ status[req[r].order] = ClaimOf(req[r].op)
    /\ req[r].op = "create" =>
         /\ req[r].pc # "flag"
         /\ req[r].call \in {"reserve", "release"}
         /\ req[r].pc = "ok" \/ req[r].call = "release" => reservation[req[r].order] # "none"

(* An order without a timeout row was never open, so nobody can have asked *)
(* for its stock to be confirmed.  A task exists only for an order that is *)
(* flagged, or was and is settled, and one that gives stock back only for  *)
(* an order that was never open.                                           *)
OrderFits(o) ==
  /\ timer[o] = "none" => reservation[o] # "confirmed" /\ <<o, "confirm">> \notin stray
  /\ task[o] # {} =>
       status[o] \in {"reconciliation_required", "paid", "finished", "cancelled", "failed"}
  /\ task[o] = {"release_inventory_and_fail"} => timer[o] = "none"
  /\ status[o] \in {"pending", "paying", "cancelling"} => timer[o] = "open"
  /\ status[o] \in {"paid", "finished", "cancelled"} => timer[o] = "completed"
  /\ status[o] \in {"none", "reserving", "failed"} => timer[o] = "none"
  /\ status[o] = "reconciliation_required" =>
       \/ task[o] = {"finalize_payment"} /\ reservation[o] = "confirmed" /\ timer[o] = "open"
       \/ task[o] = {"finalize_cancel"} /\ reservation[o] = "released" /\ timer[o] = "open"
       \/ task[o] = {"release_inventory_and_fail"} /\ reservation[o] \in {"pending", "released"}

(* The inductive invariant behind OneRequestActs and FlaggedIsPlanned.     *)
ClaimInv ==
  /\ SettleInv
  /\ OneRequestActs
  /\ \A r \in Requests : HoldsClaim(r)
  /\ \A o \in Orders : OrderFits(o)

(* Request r changes nothing but its own record and the rows of its order, *)
(* and those it leaves as the invariant says, along an edge of the state   *)
(* machine.                                                                *)
ActsLocally(r, o) ==
  /\ \A x \in Requests \ {r} : req'[x] = req[x]
  /\ req'[r] = NoRequest \/ req'[r].order = o
  /\ \A y \in Orders \ {o} :
       /\ status'[y] = status[y] /\ task'[y] = task[y]
       /\ timer'[y] = timer[y] /\ reservation'[y] = reservation[y]
  /\ stray' \subseteq stray \cup {<<o, req[r].call>>}
  /\ req[r].pc = "begin" =>
       \/ status'[o] = status[o] /\ req'[r] = NoRequest
       \/ status[o] \in {"none", "pending"}
  /\ HoldsClaim(r)'
  /\ OrderFits(o)'
  /\ status'[o] # status[o] => <<status[o], status'[o]>> \in Edges

(* Then the invariant holds everywhere: no other request can be past its   *)
(* claim on the same order.                                                *)
LEMMA RequestFrame ==
  ASSUME ClaimInv, SettleInv', Keeps, NEW r \in Requests, NEW o \in Orders,
         req[r] \in ActiveRequest, req[r].order = o, ActsLocally(r, o)
  PROVE  /\ ClaimInv'
         /\ \A y \in Orders : status'[y] # status[y] => <<status[y], status'[y]>> \in Edges
  <1> USE DEF ActsLocally
  <1>1. \A x \in Requests \ {r} : Past(x, o) =>
          /\ status[o] \notin {"none", "pending"}
          /\ req[r].pc = "begin"
    BY ZenonT(30) DEF ClaimInv, HoldsClaim, ClaimOf, OneRequestActs, Past, ActiveRequest
  <1>2. ASSUME NEW x \in Requests \ {r} PROVE HoldsClaim(x)'
    <2>1. req'[x] = req[x] BY Zenon
    <2>2. CASE req[x].pc \in {"idle", "begin"} BY <2>1, <2>2, Zenon DEF HoldsClaim
    <2>3. CASE req[x].pc \notin {"idle", "begin"}
      <3>1. req[x].order \in Orders /\ HoldsClaim(x)
        BY <2>3, Acting, Zenon DEF ClaimInv, SettleInv, ActiveRequest
      <3>2. status'[req[x].order] = status[req[x].order]
        BY <1>1, <2>3, <3>1, Zenon DEF Past
      <3> QED BY <2>1, <2>3, <3>1, <3>2, ZenonT(30) DEF HoldsClaim, Keeps
    <2> QED BY <2>2, <2>3, Zenon
  <1>3. OneRequestActs'
    <2> SUFFICES ASSUME NEW x \in Requests \ {r}, NEW y \in Orders, Past(r, y)', Past(x, y)'
                 PROVE  FALSE
      <3>1. \A x, z \in Requests, y \in Orders :
              Past(x, y)' /\ Past(z, y)' /\ x # z /\ x # r /\ z # r => FALSE
        BY DEF Past, ClaimInv, OneRequestActs
      <3> QED BY <3>1, Zenon DEF OneRequestActs
    <2> HIDE DEF ActsLocally
    <2>1. req'[r] # NoRequest /\ req'[r].order = y BY DEF Past, NoRequest
    <2>2. y = o
      <3>1. req'[r] = NoRequest \/ req'[r].order = o BY Zenon DEF ActsLocally
      <3> QED BY <2>1, <3>1, Zenon
    <2>3. Past(x, o)
      <3>1. req'[x] = req[x] BY Zenon DEF ActsLocally
      <3> QED BY <2>2, <3>1, Zenon DEF Past
    <2>4. req[r].pc = "begin" =>
            \/ status'[o] = status[o] /\ req'[r] = NoRequest
            \/ status[o] \in {"none", "pending"}
      BY Zenon DEF ActsLocally
    <2> QED BY <1>1, <2>1, <2>3, <2>4, Zenon
  <1>4. ASSUME NEW y \in Orders \ {o} PROVE OrderFits(y)'
    <2>1. OrderFits(y) BY DEF ClaimInv
    <2>2. <<y, "confirm">> \in stray' => <<y, "confirm">> \in stray BY Zenon
    <2> QED BY <2>1, <2>2, SMTT(30) DEF OrderFits
  <1> QED BY <1>2, <1>3, <1>4, Zenon DEF ClaimInv

(* The plans of the trigger for the three statuses a saga is flagged from. *)
LEMMA PlanValues ==
  /\ PlanFor("reserving") = "release_inventory_and_fail"
  /\ PlanFor("paying") = "finalize_payment"
  /\ PlanFor("cancelling") = "finalize_cancel"
  BY Zenon DEF PlanFor

(* Any other status write leaves the task alone.                           *)
LEMMA PlainWrite ==
  ASSUME SagaTypeOK, NEW o \in Orders, NEW s \in OrderStatus, Write(o, s),
         s # "reconciliation_required"
  PROVE  /\ status'[o] = s /\ task'[o] = task[o]
         /\ \A x \in Orders \ {o} : status'[x] = status[x] /\ task'[x] = task[x]
  <1>1. task'[o] = task[o]
    BY Zenon DEF SagaTypeOK, Write
  <1>2. QED
    BY <1>1, WriteType, Zenon

(* Flagging an order adds the plan of the trigger.                         *)
LEMMA FlagTask ==
  ASSUME SagaTypeOK, NEW o \in Orders, Write(o, "reconciliation_required"),
         status[o] # "reconciliation_required"
  PROVE  task'[o] = task[o] \cup {PlanFor(status[o])}
  BY Zenon DEF SagaTypeOK, Write

-----------------------------------------------------------------------------
(* No commit is reported as an error, at all or in this step.              *)
Trusted == "unknown" \notin Faults \/ ~Misleads

(* Any step of a goroutine that can be trusted.                            *)
LEMMA ClaimWork ==
  ASSUME Trusted, ClaimInv, SettleInv', Keeps,
         NEW r \in Requests, NEW o \in Orders, req[r].order = o,
         req[r] \in ActiveRequest, Work(r) \/ Crash(r)
  PROVE  ActsLocally(r, o)
  <1> USE DEF OrderStatus, Transient
  <1>1. SagaTypeOK /\ ReservationTypeOK BY Zenon DEF ClaimInv, SettleInv
  <1>3. req[r].pc # "begin" => req[r].call \in Calls
    BY Zenon DEF ActiveRequest
  <1>4. OrderFits(o) /\ HoldsClaim(r) BY Zenon DEF ClaimInv
  <1>5. req'[r] = NoRequest => HoldsClaim(r)' BY DEF HoldsClaim, NoRequest
  <1>6. UNCHANGED inventoryVars => UNCHANGED reservation BY Zenon DEF inventoryVars
  <1>7. ASSUME NEW s \in OrderStatus, Write(o, s), s # status[o], "unknown" \in Faults,
               \/ req[r].pc = "begin" /\ End(r)
               \/ req[r].pc = "ok" /\ (StartCall(r, "release") \/ At(r, "flag"))
        PROVE  FALSE
    <2>1. status' # status BY <1>1, <1>7, WriteType, Zenon
    <2>2. CASE req[r].pc = "begin" /\ End(r)
      <3>1. req'[r] = NoRequest BY <1>1, <2>2, EndStep, Zenon
      <3> QED BY <1>7, <2>1, <2>2, <3>1, Zenon DEF Trusted, Misleads
    <2>3. CASE req[r].pc = "ok" /\ (StartCall(r, "release") \/ At(r, "flag"))
      <3>1. req'[r].pc \in {"call", "flag"}
        BY <1>1, <2>3, AtStep, StartStep, Zenon DEF Calls
      <3> QED BY <1>7, <2>1, <2>3, <3>1, Zenon DEF Trusted, Misleads
    <2> QED BY <1>7, <2>2, <2>3, Zenon
  <1>a. "unknown" \in Outcomes \cup RequestOutcomes => "unknown" \in Faults
    BY Zenon DEF Outcomes, RequestOutcomes
  <1>b. Outcomes \cup RequestOutcomes \subseteq {"ok", "rolledback", "unknown"}
    BY Zenon DEF Outcomes, RequestOutcomes
  <1>8. ASSUME UNCHANGED <<status, task, timer, stray, reservation>>, End(r)
        PROVE  ActsLocally(r, o)
    <2>1. req'[r] = NoRequest /\ \A x \in Requests \ {r} : req'[x] = req[x]
      BY <1>1, <1>8, EndStep, Zenon
    <2>2. OrderFits(o)' BY <1>4, <1>8, Zenon DEF OrderFits
    <2> QED BY <1>5, <1>8, <2>1, <2>2, Zenon DEF ActsLocally
  <1>9. ASSUME NEW s \in OrderStatus, Write(o, s), End(r), req[r].pc # "begin",
               UNCHANGED <<stray, reservation>>,
               \A y \in Orders \ {o} : timer'[y] = timer[y],
               OrderFits(o)', <<status[o], s>> \in Edges
        PROVE  ActsLocally(r, o)
    <2>1. req'[r] = NoRequest /\ \A x \in Requests \ {r} : req'[x] = req[x]
      BY <1>1, <1>9, EndStep, Zenon
    <2>2. /\ status'[o] = s
          /\ \A x \in Orders \ {o} : status'[x] = status[x] /\ task'[x] = task[x]
      BY <1>1, <1>9, WriteType, Zenon
    <2> QED BY <1>5, <1>9, <2>1, <2>2, Zenon DEF ActsLocally
  <1>10. ASSUME NEW s \in OrderStatus, Write(o, s),
                s \notin {"none", "reconciliation_required"},
                task[o] = {}
         PROVE  status'[o] = s /\ task'[o] = {}
    BY <1>1, <1>10, PlainWrite, Zenon
  <1>11. CASE InsertOrder(r)
    <2>1. CASE status[o] = "none" /\ Write(o, "reserving") /\ StartCall(r, "reserve")
      <3>1. /\ req'[r].op = "create" /\ req'[r].order = o /\ req'[r].pc = "call"
            /\ req'[r].call = "reserve" /\ \A x \in Requests \ {r} : req'[x] = req[x]
        BY <1>1, <1>11, <2>1, StartStep, Zenon DEF InsertOrder, Calls
      <3>2. /\ status'[o] = "reserving" /\ task'[o] = task[o]
            /\ \A x \in Orders \ {o} : status'[x] = status[x] /\ task'[x] = task[x]
        BY <1>1, <2>1, PlainWrite, Zenon
      <3>3. timer' = timer /\ stray' = stray /\ reservation' = reservation
        BY <1>6, <1>11, Zenon DEF InsertOrder
      <3>4. HoldsClaim(r)' BY <3>1, <3>2, Zenon DEF HoldsClaim, ClaimOf
      <3>5. OrderFits(o)' BY <1>4, <2>1, <3>2, <3>3, Zenon DEF OrderFits
      <3> QED BY <2>1, <3>1, <3>2, <3>3, <3>4, <3>5, Zenon DEF ActsLocally, Edges
    <2>2. CASE UNCHANGED <<status, task>> /\ End(r)
      BY <1>6, <1>8, <1>11, <2>2, Zenon DEF InsertOrder
    <2>3. CASE status[o] = "none" /\ Write(o, "reserving") /\ End(r) /\ "unknown" \in Faults
      BY <1>7, <1>11, <2>3, Zenon DEF InsertOrder
    <2> QED BY <1>a, <1>b, <1>11, <2>1, <2>2, <2>3, Zenon DEF InsertOrder
  <1>12. CASE ClaimOrder(r)
    <2> DEFINE claim == IF req[r].op = "pay" THEN "paying" ELSE "cancelling"
               call == IF req[r].op = "pay" THEN "confirm" ELSE "release"
    <2>1. CASE status[o] = "pending" /\ Write(o, claim) /\ StartCall(r, call)
      <3>1. /\ req'[r].op = req[r].op /\ req[r].op \in {"pay", "cancel"}
            /\ req'[r].order = o /\ req'[r].pc = "call"
            /\ \A x \in Requests \ {r} : req'[x] = req[x]
        BY <1>1, <1>12, <2>1, StartStep, Zenon DEF ClaimOrder, Calls
      <3>2. /\ status'[o] = claim /\ task'[o] = task[o]
            /\ \A x \in Orders \ {o} : status'[x] = status[x] /\ task'[x] = task[x]
        <4>1. claim \in OrderStatus /\ claim # "reconciliation_required" BY Zenon
        <4> HIDE DEF claim
        <4> QED BY <1>1, <2>1, <4>1, PlainWrite, Zenon
      <3>3. timer' = timer /\ stray' = stray /\ reservation' = reservation
        BY <1>6, <1>12, Zenon DEF ClaimOrder
      <3>4. HoldsClaim(r)' BY <3>1, <3>2, Zenon DEF HoldsClaim, ClaimOf
      <3>5. OrderFits(o)' BY <1>4, <2>1, <3>2, <3>3, Zenon DEF OrderFits
      <3> QED BY <2>1, <3>1, <3>2, <3>3, <3>4, <3>5, Zenon DEF ActsLocally, Edges
    <2>2. CASE UNCHANGED <<status, task>> /\ End(r)
      BY <1>6, <1>8, <1>12, <2>2, Zenon DEF ClaimOrder
    <2>3. CASE status[o] = "pending" /\ Write(o, claim) /\ End(r) /\ "unknown" \in Faults
      BY <1>7, <1>12, <2>3, Zenon DEF ClaimOrder
    <2> QED BY <1>a, <1>b, <1>12, <2>1, <2>2, <2>3, Zenon DEF ClaimOrder
  <1>13. CASE ServeCall(r)
    <2>1. /\ req[r].pc = "call" /\ req[r].call \in Calls
          /\ UNCHANGED <<status, task, timer, stray>>
      BY <1>3, <1>13, Zenon DEF ServeCall
    <2>2. /\ \A x \in Orders : reservation'[x] = "confirmed" =>
               reservation[x] = "confirmed" \/ (x = o /\ req[r].call = "confirm")
          /\ \A y \in Orders \ {o} : reservation'[y] = reservation[y]
      BY <1>1, <1>13, <2>1, ServiceStep, ServiceLocal DEF ServeCall
    <2>3. /\ req'[r].op = req[r].op /\ req'[r].order = o /\ req'[r].call = req[r].call
          /\ req'[r].pc \in {"ok", "err"}
          /\ req'[r].pc = "ok" /\ req[r].call = "reserve" => reservation'[o] # "none"
          /\ \A x \in Requests \ {r} : req'[x] = req[x]
      <3>1. CASE Accepts(req[r].call, o) /\ At(r, "ok")
        BY <1>1, <2>1, <3>1, AtStep, ServiceStep, Zenon
      <3>2. CASE Refuses(req[r].call, o) /\ At(r, "err")
        BY <1>1, <2>1, <3>2, AtStep, Zenon
      <3> QED BY <1>13, <3>1, <3>2, Zenon DEF ServeCall
    <2>4. HoldsClaim(r)'
      BY <1>4, <2>1, <2>3, Zenon DEF HoldsClaim, Keeps
    <2>5. req[r].call = "confirm" => status[o] # "reserving"
      BY <1>4, <2>1, Zenon DEF HoldsClaim, ClaimOf, ActiveRequest
    <2>6. OrderFits(o)'
      <3>1. timer[o] = "none" => reservation'[o] # "confirmed"
        BY <1>4, <2>1, <2>2, <2>5, Zenon DEF OrderFits, HoldsClaim, ClaimOf, ActiveRequest
      <3>2. status[o] # "reconciliation_required"
        BY <1>4, <2>1, Zenon DEF HoldsClaim, ClaimOf
      <3> QED BY <1>4, <2>1, <3>1, <3>2, Zenon DEF OrderFits
    <2> QED BY <2>1, <2>2, <2>3, <2>4, <2>6, Zenon DEF ActsLocally
  <1>14. CASE LoseCall(r)
    <2>1. /\ req[r].pc \in {"call", "ok"} /\ stray' \subseteq stray \cup {<<o, req[r].call>>}
          /\ UNCHANGED <<status, task, timer, reservation>>
      BY <1>6, <1>14, Zenon DEF LoseCall
    <2>2. /\ req'[r].op = req[r].op /\ req'[r].order = o /\ req'[r].call = req[r].call
          /\ req'[r].pc \in {"call", "err"}
          /\ \A x \in Requests \ {r} : req'[x] = req[x]
      BY <1>1, <1>14, AtStep, RetryStep, Zenon DEF LoseCall
    <2>3. HoldsClaim(r)' BY <1>4, <2>1, <2>2, Zenon DEF HoldsClaim
    <2>4. OrderFits(o)'
      <3>1. timer[o] = "none" => <<o, "confirm">> \notin stray'
        BY <1>4, <2>1, Zenon DEF OrderFits, HoldsClaim, ClaimOf, ActiveRequest
      <3> QED BY <1>4, <2>1, <3>1, Zenon DEF OrderFits
    <2> QED BY <2>1, <2>2, <2>3, <2>4, Zenon DEF ActsLocally
  <1>15. CASE FailOrder(r)
    <2>1. CASE Write(o, "failed")
      <3>1. status[o] = "reserving" /\ req[r].pc # "begin"
        BY <1>4, <1>15, Zenon DEF FailOrder, HoldsClaim, ClaimOf
      <3>2. UNCHANGED <<timer, stray, reservation>> /\ End(r)
        BY <1>6, <1>15, Zenon DEF FailOrder
      <3>3. task[o] = {} BY <1>4, <3>1, Zenon DEF OrderFits
      <3>4. status'[o] = "failed" /\ task'[o] = {} BY <1>10, <2>1, <3>3, Zenon
      <3>5. OrderFits(o)' BY <1>4, <3>1, <3>2, <3>4, Zenon DEF OrderFits
      <3> QED BY <1>9, <2>1, <3>1, <3>2, <3>5, Zenon DEF Edges
    <2>2. CASE UNCHANGED <<status, task>>
      BY <1>6, <1>8, <1>15, <2>2, Zenon DEF FailOrder
    <2> QED BY <1>15, <2>1, <2>2, Zenon DEF FailOrder
  <1>16. CASE OpenOrder(r)
    <2>1. status[o] = "reserving" /\ req[r].pc # "begin" /\ UNCHANGED <<stray, reservation>>
      BY <1>4, <1>6, <1>16, Zenon DEF OpenOrder, HoldsClaim, ClaimOf
    <2>2. CASE Write(o, "pending") /\ timer' = [timer EXCEPT ![o] = "open"] /\ End(r)
      <3>1. timer'[o] = "open" /\ \A y \in Orders \ {o} : timer'[y] = timer[y]
        BY <1>1, <2>2, Zenon DEF SagaTypeOK
      <3>2. task[o] = {} BY <1>4, <2>1, Zenon DEF OrderFits
      <3>3. status'[o] = "pending" /\ task'[o] = {} BY <1>10, <2>2, <3>2, Zenon
      <3>4. OrderFits(o)' BY <1>4, <2>1, <3>1, <3>3, Zenon DEF OrderFits
      <3> QED BY <1>9, <2>1, <2>2, <3>1, <3>4, Zenon DEF Edges
    <2>3. CASE UNCHANGED <<status, task, timer>> /\ StartCall(r, "release")
      <3>1. /\ req'[r].op = req[r].op /\ req'[r].order = o /\ req'[r].pc = "call"
            /\ req'[r].call = "release" /\ \A x \in Requests \ {r} : req'[x] = req[x]
        BY <1>1, <2>3, StartStep, Zenon DEF Calls
      <3>2. HoldsClaim(r)' BY <1>4, <1>16, <2>1, <2>3, <3>1, Zenon DEF HoldsClaim, OpenOrder
      <3>3. OrderFits(o)' BY <1>4, <2>1, <2>3, Zenon DEF OrderFits
      <3> QED BY <2>1, <2>3, <3>1, <3>2, <3>3, Zenon DEF ActsLocally
    <2>4. CASE Write(o, "pending") /\ StartCall(r, "release") /\ "unknown" \in Faults
      BY <1>7, <1>16, <2>1, <2>4, Zenon DEF OpenOrder
    <2> QED BY <1>a, <1>b, <1>16, <2>1, <2>2, <2>3, <2>4, Zenon DEF OpenOrder
  <1>17. CASE CloseFailed(r)
    <2>1. /\ status[o] = "reserving" /\ req[r].pc # "begin" /\ reservation[o] # "none"
          /\ UNCHANGED <<timer, stray, reservation>> /\ End(r)
      BY <1>4, <1>6, <1>17, Zenon DEF CloseFailed, HoldsClaim, ClaimOf
    <2>2. CASE Write(o, "failed")
      <3>1. task[o] = {} BY <1>4, <2>1, Zenon DEF OrderFits
      <3>2. status'[o] = "failed" /\ task'[o] = {} BY <1>10, <2>2, <3>1, Zenon
      <3>3. OrderFits(o)' BY <1>4, <2>1, <3>2, Zenon DEF OrderFits
      <3> QED BY <1>9, <2>1, <2>2, <3>3, Zenon DEF Edges
    <2>3. CASE Write(o, "reconciliation_required")
      <3>1. status'[o] = "reconciliation_required" /\ task'[o] = {"release_inventory_and_fail"}
        <4>1. task[o] = {} BY <1>4, <2>1, Zenon DEF OrderFits
        <4>2. status'[o] = "reconciliation_required"
          BY <1>1, <2>3, WriteType, Zenon
        <4>3. task'[o] = task[o] \cup {PlanFor("reserving")}
          BY <1>1, <2>1, <2>3, FlagTask, Zenon
        <4> QED BY <4>1, <4>2, <4>3, PlanValues, Zenon
      <3>2. timer[o] = "none" /\ reservation[o] \in {"pending", "released"}
        BY <1>1, <1>4, <2>1, Zenon DEF OrderFits, ReservationTypeOK,
           Inventory!ReservationStatus
      <3>3. OrderFits(o)' BY <1>4, <2>1, <3>1, <3>2, Zenon DEF OrderFits
      <3> QED BY <1>9, <2>1, <2>3, <3>3, Zenon DEF Edges
    <2>4. CASE UNCHANGED <<status, task>>
      BY <1>8, <2>1, <2>4, Zenon
    <2> QED BY <1>17, <2>2, <2>3, <2>4, Zenon DEF CloseFailed
  <1>18. CASE RevertClaim(r)
    <2>1. /\ status[o] \in {"paying", "cancelling"} /\ req[r].pc # "begin"
          /\ UNCHANGED <<timer, stray, reservation>> /\ End(r)
      BY <1>4, <1>6, <1>18, Zenon DEF RevertClaim, HoldsClaim, ClaimOf
    <2>2. CASE Write(o, "pending")
      <3>1. task[o] = {} BY <1>4, <2>1, Zenon DEF OrderFits
      <3>2. status'[o] = "pending" /\ task'[o] = {} BY <1>10, <2>2, <3>1, Zenon
      <3>3. OrderFits(o)' BY <1>4, <2>1, <3>2, Zenon DEF OrderFits
      <3> QED BY <1>9, <2>1, <2>2, <3>3, Zenon DEF Edges
    <2>3. CASE UNCHANGED <<status, task>>
      BY <1>8, <2>1, <2>3, Zenon
    <2> QED BY <1>18, <2>2, <2>3, Zenon DEF RevertClaim
  <1>19. CASE SettleOrder(r)
    <2> DEFINE claim == IF req[r].op = "pay" THEN "paying" ELSE "cancelling"
               final == IF req[r].op = "pay" THEN "paid" ELSE "cancelled"
    <2>1. /\ status[o] = claim /\ req[r].pc = "ok" /\ req[r].op \in {"pay", "cancel"}
          /\ UNCHANGED <<stray, reservation>>
      BY <1>4, <1>6, <1>19, Zenon DEF SettleOrder, HoldsClaim, ClaimOf
    <2>2. CASE Write(o, final) /\ CloseTimer(o) /\ End(r)
      <3>1. timer'[o] = "completed" /\ \A y \in Orders \ {o} : timer'[y] = timer[y]
        BY <1>1, <1>4, <2>1, <2>2, Zenon DEF SagaTypeOK, CloseTimer, OrderFits
      <3>2. task[o] = {} BY <1>4, <2>1, Zenon DEF OrderFits
      <3>3. status'[o] = final /\ task'[o] = {} BY <1>10, <2>2, <3>2, Zenon
      <3>4. OrderFits(o)' BY <1>4, <2>1, <3>1, <3>3, Zenon DEF OrderFits
      <3> QED BY <1>9, <2>1, <2>2, <3>1, <3>4, Zenon DEF Edges
    <2>3. CASE UNCHANGED <<status, task, timer>> /\ At(r, "flag")
      <3>1. /\ req'[r].op = req[r].op /\ req'[r].order = o /\ req'[r].pc = "flag"
            /\ \A x \in Requests \ {r} : req'[x] = req[x]
        BY <1>1, <2>1, <2>3, AtStep, Zenon
      <3>2. HoldsClaim(r)' BY <1>4, <2>1, <2>3, <3>1, Zenon DEF HoldsClaim
      <3>3. OrderFits(o)' BY <1>4, <2>1, <2>3, Zenon DEF OrderFits
      <3> QED BY <2>1, <2>3, <3>1, <3>2, <3>3, Zenon DEF ActsLocally
    <2>4. CASE Write(o, final) /\ At(r, "flag") /\ "unknown" \in Faults
      BY <1>7, <2>1, <2>4, Zenon
    <2> QED BY <1>a, <1>b, <1>19, <2>1, <2>2, <2>3, <2>4, Zenon DEF SettleOrder
  <1>20. CASE FlagOrder(r)
    <2>1. /\ req[r].pc = "flag" /\ req[r].op \in {"pay", "cancel"}
          /\ UNCHANGED <<timer, stray, reservation>> /\ End(r)
      BY <1>4, <1>6, <1>20, Zenon DEF FlagOrder, HoldsClaim, ActiveRequest
    <2>2. CASE Write(o, "reconciliation_required")
      <3>1. /\ status[o] = IF req[r].op = "pay" THEN "paying" ELSE "cancelling"
            /\ reservation[o] = IF req[r].op = "pay" THEN "confirmed" ELSE "released"
        BY <1>4, <2>1, Zenon DEF HoldsClaim, ClaimOf, ClaimInv, SettleInv, CallFits
      <3>2. /\ status'[o] = "reconciliation_required"
            /\ task'[o] = IF req[r].op = "pay" THEN {"finalize_payment"} ELSE {"finalize_cancel"}
        <4>1. task[o] = {} BY <1>4, <3>1, Zenon DEF OrderFits
        <4>2. status'[o] = "reconciliation_required"
          BY <1>1, <2>2, WriteType, Zenon
        <4>3. task'[o] = task[o] \cup {PlanFor(status[o])}
          <5>1. status[o] # "reconciliation_required" BY <3>1, Zenon
          <5> QED BY <1>1, <2>2, <5>1, FlagTask, Zenon
        <4> QED BY <3>1, <4>1, <4>2, <4>3, PlanValues, SMTT(30)
      <3>3. timer[o] = "open" BY <1>4, <3>1, Zenon DEF OrderFits
      <3>4. OrderFits(o)' BY <2>1, <3>1, <3>2, <3>3, Zenon DEF OrderFits
      <3> QED BY <1>9, <2>1, <2>2, <3>1, <3>4, Zenon DEF Edges
    <2>3. CASE UNCHANGED <<status, task>>
      BY <1>8, <2>1, <2>3, Zenon
    <2> QED BY <1>20, <2>2, <2>3, Zenon DEF FlagOrder
  <1>21. CASE Crash(r)
    <2>1. /\ UNCHANGED <<status, task, timer, reservation>>
          /\ stray' \subseteq stray \cup {<<o, req[r].call>>}
          /\ stray' # stray => req[r].pc = "call"
      BY <1>6, <1>21, Zenon DEF Crash
    <2>2. req'[r] = NoRequest /\ \A x \in Requests \ {r} : req'[x] = req[x]
      BY <1>1, <1>21, EndStep, Zenon DEF Crash
    <2>3. OrderFits(o)'
      <3>1. timer[o] = "none" => <<o, "confirm">> \notin stray'
        BY <1>4, <2>1, Zenon DEF OrderFits, HoldsClaim, ClaimOf, ActiveRequest
      <3> QED BY <1>4, <2>1, <3>1, Zenon DEF OrderFits
    <2> QED BY <1>5, <2>1, <2>2, <2>3, Zenon DEF ActsLocally
  <1> QED
    BY <1>11, <1>12, <1>13, <1>14, <1>15, <1>16, <1>17, <1>18, <1>19, <1>20, <1>21, Zenon
       DEF Work

-----------------------------------------------------------------------------
(* Every step of the system keeps the invariant and moves orders along the *)
(* state machine.                                                          *)
LEMMA ClaimStep ==
  ASSUME Trusted, ClaimInv, [Next]_vars
  PROVE  /\ ClaimInv'
         /\ \A o \in Orders : status'[o] # status[o] => <<status[o], status'[o]>> \in Edges
  <1>1. SettleInv' /\ Keeps
    BY SettleStep, TypeStep, Zenon DEF ClaimInv, SettleInv
  <1>2. SagaTypeOK /\ ReservationTypeOK BY Zenon DEF ClaimInv, SettleInv
  <1>3. \A r \in Requests : req[r].pc # "idle" => req[r] \in ActiveRequest /\ req[r].order \in Orders
    BY <1>2, Acting, Zenon DEF ActiveRequest
  <1>4. ASSUME NEW r \in Requests, Work(r) \/ Crash(r)
        PROVE  /\ ClaimInv'
               /\ \A o \in Orders : status'[o] # status[o] => <<status[o], status'[o]>> \in Edges
    <2>1. req[r] \in ActiveRequest
      BY <1>2, <1>4, Acting, Zenon DEF Work, Crash, InsertOrder, ClaimOrder, ServeCall,
         LoseCall,
         FailOrder, OpenOrder, CloseFailed, RevertClaim, SettleOrder, FlagOrder, NoRequest
    <2>2. req[r].order \in Orders BY <2>1, Zenon DEF ActiveRequest
    <2>3. ActsLocally(r, req[r].order) BY <1>1, <1>4, <2>1, <2>2, ClaimWork, Zenon
    <2> QED BY <1>1, <2>1, <2>2, <2>3, RequestFrame, Zenon
  <1>5. ASSUME UNCHANGED req, \A o \in Orders : OrderFits(o)',
               \A r \in Requests : req[r].pc \notin {"idle", "begin"} =>
                 status'[req[r].order] = status[req[r].order]
        PROVE  ClaimInv'
    <2>1. OneRequestActs' BY <1>5, Zenon DEF ClaimInv, OneRequestActs, Past
    <2>2. ASSUME NEW r \in Requests PROVE HoldsClaim(r)'
      BY <1>1, <1>3, <1>5, Zenon DEF ClaimInv, HoldsClaim, Keeps
    <2> QED BY <1>1, <1>5, <2>1, <2>2, Zenon DEF ClaimInv
  <1>6. ASSUME NEW r \in Requests, NEW o \in Orders,
               NEW op \in {"create", "pay", "cancel"}, Begin(r, op, o)
        PROVE  ClaimInv' /\ UNCHANGED status
    <2>1. /\ UNCHANGED <<status, task, timer, stray, reservation>>
          /\ req[r].pc = "idle" /\ req'[r].pc = "begin"
          /\ \A x \in Requests \ {r} : req'[x] = req[x]
      <3>1. /\ UNCHANGED <<status, task, timer, stray, reservation>>
            /\ req[r].pc = "idle"
        BY <1>6 DEF Begin, inventoryVars, NoRequest
      <3>2. req \in [Requests -> ActiveRequest \cup {NoRequest}] BY <1>2, Zenon DEF SagaTypeOK
      <3> QED BY <1>6, <3>1, <3>2, Zenon DEF Begin
    <2>2. OneRequestActs' BY <2>1, ZenonT(30) DEF ClaimInv, OneRequestActs, Past
    <2>3. ASSUME NEW x \in Requests PROVE HoldsClaim(x)'
      BY <2>1 DEF ClaimInv, HoldsClaim
    <2>4. ASSUME NEW y \in Orders PROVE OrderFits(y)'
      BY <2>1, Zenon DEF ClaimInv, OrderFits
    <2> QED BY <1>1, <2>1, <2>2, <2>3, <2>4, Zenon DEF ClaimInv
  <1>7. ASSUME NEW o \in Orders, NEW call \in Calls, ServeStray(o, call)
        PROVE  ClaimInv' /\ UNCHANGED status
    <2>1. /\ UNCHANGED <<status, task, timer, req>> /\ stray' \subseteq stray
          /\ <<o, call>> \in stray
          /\ \A x \in Orders : reservation'[x] = "confirmed" =>
               reservation[x] = "confirmed" \/ (x = o /\ call = "confirm")
      BY <1>2, <1>7, ServiceStep, Zenon DEF ServeStray, sagaVars
    <2>2. ASSUME NEW y \in Orders PROVE OrderFits(y)'
      <3>1. timer[y] = "none" => reservation'[y] # "confirmed" /\ <<y, "confirm">> \notin stray'
        BY <2>1, Zenon DEF ClaimInv, OrderFits
      <3>2. reservation'[y] \in Inventory!ReservationStatus \cup {"none"}
        BY <1>1, Zenon DEF Keeps, ReservationTypeOK
      <3> QED BY <1>1, <2>1, <3>1, <3>2, Zenon DEF ClaimInv, OrderFits, Keeps,
                 Inventory!ReservationStatus
    <2> QED BY <1>5, <2>1, <2>2, Zenon
  <1>8. ASSUME NEW o \in Orders, FinishOrder(o)
        PROVE  /\ ClaimInv'
               /\ \A x \in Orders : status'[x] # status[x] => <<status[x], status'[x]>> \in Edges
    <2>1. /\ UNCHANGED <<timer, req, stray, reservation>> /\ status[o] = "paid"
          /\ status'[o] = "finished" /\ task'[o] = task[o]
          /\ \A x \in Orders \ {o} : status'[x] = status[x] /\ task'[x] = task[x]
      BY <1>2, <1>8, PlainWrite, Zenon DEF FinishOrder, inventoryVars, OrderStatus
    <2>2. ASSUME NEW y \in Orders PROVE OrderFits(y)'
      BY <2>1 DEF ClaimInv, OrderFits
    <2>3. \A r \in Requests : req[r].pc \notin {"idle", "begin"} => req[r].order # o
      BY <2>1, Zenon DEF ClaimInv, HoldsClaim, ClaimOf
    <2> QED BY <1>3, <1>5, <2>1, <2>2, <2>3, Zenon DEF Edges
  <1>9. CASE StockIn \/ UNCHANGED vars
    <2>1. UNCHANGED <<status, task, timer, req, stray, reservation>>
      BY <1>9, StockStep, Zenon DEF vars, sagaVars, inventoryVars
    <2>2. ASSUME NEW y \in Orders PROVE OrderFits(y)'
      BY <2>1, Zenon DEF ClaimInv, OrderFits
    <2> QED BY <1>5, <2>1, <2>2, Zenon
  <1> QED BY <1>4, <1>6, <1>7, <1>8, <1>9, Zenon DEF Next

(* The saga starts with it.                                                *)
LEMMA ClaimStart == Init => ClaimInv
  <1> SUFFICES ASSUME Init PROVE ClaimInv BY Zenon
  <1>1. OneRequestActs BY Zenon DEF Init, OneRequestActs, Past, NoRequest
  <1>2. \A r \in Requests : HoldsClaim(r) BY Zenon DEF Init, HoldsClaim, NoRequest
  <1>3. \A o \in Orders : OrderFits(o) BY Zenon DEF Init, Inventory!Init, OrderFits
  <1> QED BY <1>1, <1>2, <1>3, SettleStart, Zenon DEF ClaimInv

(* When no commit is reported as an error, a request past its conditional  *)
(* update is alone with its order.                                         *)
THEOREM RequestsExclude ==
  ASSUME "unknown" \notin Faults PROVE Spec => []OneRequestActs
  <1>1. ClaimInv => OneRequestActs BY Zenon DEF ClaimInv
  <1>2. ClaimInv /\ [Next]_vars => ClaimInv' BY ClaimStep, Zenon DEF Trusted
  <1> QED BY <1>1, <1>2, ClaimStart, PTL DEF Spec

(* When no commit is reported as an error, the trigger gives every flagged *)
(* order a plan that agrees with its reservation.                          *)
THEOREM PlansCorrect ==
  ASSUME "unknown" \notin Faults PROVE Spec => []FlaggedIsPlanned
  <1>1. ClaimInv => FlaggedIsPlanned BY Zenon DEF ClaimInv, OrderFits, FlaggedIsPlanned
  <1>2. ClaimInv /\ [Next]_vars => ClaimInv' BY ClaimStep, Zenon DEF Trusted
  <1> QED BY <1>1, <1>2, ClaimStart, PTL DEF Spec

(* When no commit is reported as an error, the timeout row of an order is  *)
(* open while the order is and completed when it is settled.               *)
THEOREM TimersCorrect ==
  ASSUME "unknown" \notin Faults PROVE Spec => []TimerFollowsOrder
  <1>1. ClaimInv => TimerFollowsOrder BY Zenon DEF ClaimInv, OrderFits, TimerFollowsOrder
  <1>2. ClaimInv /\ [Next]_vars => ClaimInv' BY ClaimStep, Zenon DEF Trusted
  <1> QED BY <1>1, <1>2, ClaimStart, PTL DEF Spec

(* When no commit is reported as an error, no update of the orders table,  *)
(* conditional or blind, leaves the documented state machine.              *)
THEOREM StateMachineFollowed ==
  ASSUME "unknown" \notin Faults PROVE Spec => FollowsStateMachine
  <1>1. ClaimInv /\ [Next]_vars => ClaimInv' BY ClaimStep, Zenon DEF Trusted
  <1>2. ClaimInv /\ [Next]_vars =>
          [\A o \in Orders : status'[o] # status[o] => <<status[o], status'[o]>> \in Edges]_vars
    BY ClaimStep, Zenon DEF Trusted
  <1> QED BY <1>1, <1>2, ClaimStart, PTL DEF Spec, FollowsStateMachine

-----------------------------------------------------------------------------
(* Call may still run on order o.                                          *)
Sent(o, call) ==
  <<o, call>> \in stray \/ \E r \in Requests : Past(r, o) /\ req[r].call = call

(* An order that was never inserted has sent nothing, an open one has its  *)
(* goods, and no release is under way for an order that failed.            *)
GoodsFit(o) ==
  /\ status[o] = "none" => reservation[o] = "none" /\ \A call \in Calls : <<o, call>> \notin stray
  /\ status[o] \in {"pending", "paying", "cancelling"} => reservation[o] # "none"
  /\ status[o] = "failed" /\ <<o, "release">> \in stray => reservation[o] = "released"

(* Create sends no release before it compensates, and believes only in one *)
(* that happened.                                                          *)
Compensates(r) ==
  req[r].pc \notin {"idle", "begin"} /\ req[r].op = "create" =>
    /\ req[r].call = "reserve" =>
         reservation[req[r].order] # "released" /\ <<req[r].order, "release">> \notin stray
    /\ req[r].call = "release" /\ req[r].pc = "ok" => reservation[req[r].order] = "released"

(* The inductive invariant behind KeepsPromise.                            *)
PromiseInv ==
  /\ ClaimInv
  /\ \A o \in Orders : GoodsFit(o)
  /\ \A r \in Requests : Compensates(r)

(* What a step may do to the goods, to the calls under way and to the      *)
(* timeout rows.                                                           *)
GoodsMove(o) ==
  reservation'[o] # reservation[o] =>
    /\ UNCHANGED status
    /\ \/ Sent(o, "reserve") /\ reservation[o] = "none" /\ reservation'[o] = "pending"
       \/ Sent(o, "confirm") /\ reservation[o] = "pending" /\ reservation'[o] = "confirmed"
       \/ Sent(o, "release") /\ reservation[o] = "pending" /\ reservation'[o] = "released"

StrayMove(o) ==
  \A call \in Calls : <<o, call>> \in stray' =>
    <<o, call>> \in stray \/ \E r \in Requests : Past(r, o) /\ req[r].call = call

(* An order leaves reserving only at the hands of its Create.              *)
CreateMove(o) ==
  status[o] = "reserving" /\ status'[o] \in {"pending", "failed"} =>
    \E r \in Requests :
      /\ Past(r, o) /\ req[r].op = "create"
      /\ \/ req[r].call = "reserve" /\ (status'[o] = "pending" => req[r].pc = "ok")
         \/ req[r].call = "release" /\ status'[o] = "failed" /\ req[r].pc = "ok"

TimerMove(o) ==
  \/ timer'[o] = timer[o]
  \/ status[o] = "reserving" /\ status'[o] = "pending"
  \/ status'[o] \in {"paid", "cancelled"}

(* How a request can be where it is in the life of a Create.               *)
RequestMove(r) ==
  req'[r].pc \notin {"idle", "begin"} /\ req'[r].op = "create" =>
    \/ /\ req'[r].call = "reserve" /\ req[r].call = "reserve" /\ req[r].op = "create"
       /\ req'[r].order = req[r].order /\ req[r].pc \notin {"idle", "begin"}
    \/ /\ req'[r].call = "reserve" /\ status[req'[r].order] = "none"
       /\ UNCHANGED <<reservation, stray>>
    \/ /\ req'[r].call = "release"
       /\ req'[r].pc = "ok" =>
            req'[r] = req[r] \/ reservation'[req'[r].order] = "released"

Moves ==
  /\ \A o \in Orders :
       GoodsMove(o) /\ StrayMove(o) /\ CreateMove(o) /\ TimerMove(o)
  /\ \A r \in Requests : RequestMove(r)

(* A step that moves like this keeps the invariant.                        *)
LEMMA MovesKeep ==
  ASSUME PromiseInv, ClaimInv', Keeps, Moves,
         \A o \in Orders : status'[o] # status[o] => <<status[o], status'[o]>> \in Edges
  PROVE  PromiseInv'
  <1>1. \A r \in Requests, o \in Orders : Past(r, o) =>
          /\ status[o] = ClaimOf(req[r].op) /\ status[o] \notin {"none", "failed"}
          /\ \A x \in Requests : Past(x, o) => x = r
    BY Zenon DEF PromiseInv, ClaimInv, HoldsClaim, ClaimOf, OneRequestActs, Past
  <1>2. ASSUME NEW o \in Orders PROVE GoodsFit(o)'
    <2>1. GoodsFit(o) /\ GoodsMove(o) /\ StrayMove(o) /\ CreateMove(o)
      BY Zenon DEF PromiseInv, Moves
    <2>2. ASSUME status'[o] = "none"
          PROVE  reservation'[o] = "none" /\ \A call \in Calls : <<o, call>> \notin stray'
      <3>1. status[o] = "none" BY <2>2, Zenon DEF Edges, Transient
      <3>2. \A call \in Calls : ~Sent(o, call) BY <1>1, <2>1, <3>1, Zenon DEF Sent, GoodsFit
      <3> QED BY <2>1, <3>1, <3>2, Zenon DEF GoodsFit, GoodsMove, StrayMove, Sent, Calls
    <2>3. ASSUME status'[o] \in {"pending", "paying", "cancelling"} PROVE reservation'[o] # "none"
      <3>1. CASE status[o] \in {"pending", "paying", "cancelling"}
        BY <2>1, <3>1, Zenon DEF GoodsFit, Keeps
      <3>2. CASE status[o] = "reserving" /\ status'[o] = "pending"
        BY <2>1, <3>2, Zenon DEF CreateMove, PromiseInv, ClaimInv, HoldsClaim, Past, Keeps
      <3> QED BY <2>3, <3>1, <3>2, Zenon DEF Edges, Transient
    <2>4. ASSUME status'[o] = "failed", <<o, "release">> \in stray'
          PROVE  reservation'[o] = "released"
      <3>1. CASE status[o] = "failed"
        <4>1. <<o, "release">> \in stray
          BY <1>1, <2>1, <2>4, <3>1, Zenon DEF StrayMove, Calls
        <4> QED BY <2>1, <3>1, <4>1, Zenon DEF GoodsFit, Keeps
      <3>2. CASE status[o] = "reserving"
        <4>1. PICK r \in Requests :
                /\ Past(r, o) /\ req[r].op = "create"
                /\ req[r].call = "reserve" \/ (req[r].call = "release" /\ req[r].pc = "ok")
          BY <2>1, <2>4, <3>2, Zenon DEF CreateMove
        <4>2. req[r].call # "reserve"
          BY <1>1, <2>1, <2>4, <4>1, Zenon DEF StrayMove, Calls, PromiseInv, Compensates, Past
        <4>3. reservation[o] = "released"
          BY <4>1, <4>2, Zenon DEF PromiseInv, Compensates, Past
        <4> QED BY <4>3, Zenon DEF Keeps
      <3> QED BY <2>4, <3>1, <3>2, Zenon DEF Edges, Transient
    <2> QED BY <2>2, <2>3, <2>4, Zenon DEF GoodsFit
  <1>3. ASSUME NEW r \in Requests, req'[r].pc \notin {"idle", "begin"}, req'[r].op = "create"
        PROVE  Compensates(r)'
    <2> DEFINE o == req'[r].order
    <2>1. RequestMove(r) /\ Compensates(r) BY Zenon DEF Moves, PromiseInv
    <2>2. o \in Orders
      <3>1. SagaTypeOK' BY Zenon DEF ClaimInv, SettleInv
      <3>2. req'[r] \in ActiveRequest BY <1>3, <3>1 DEF SagaTypeOK, NoRequest
      <3> QED BY <3>2, Zenon DEF ActiveRequest
    <2>3. GoodsFit(o) /\ GoodsMove(o) /\ StrayMove(o) BY <2>2, Zenon DEF PromiseInv, Moves
    <2>4. CASE /\ req'[r].call = "reserve" /\ req[r].call = "reserve" /\ req[r].op = "create"
               /\ o = req[r].order /\ req[r].pc \notin {"idle", "begin"}
      <3>1. Past(r, o) /\ reservation[o] # "released" /\ <<o, "release">> \notin stray
        BY <2>1, <2>4, Zenon DEF Past, Compensates
      <3>2. ~Sent(o, "release") BY <1>1, <2>2, <2>4, <3>1, Zenon DEF Sent
      <3>3. reservation'[o] # "released" /\ <<o, "release">> \notin stray'
        BY <2>3, <3>1, <3>2, Zenon DEF GoodsMove, StrayMove, Sent, Calls
      <3> QED BY <2>4, <3>3, Zenon DEF Compensates
    <2>5. CASE /\ req'[r].call = "reserve" /\ status[o] = "none"
               /\ UNCHANGED <<reservation, stray>>
      BY <2>3, <2>5, Zenon DEF GoodsFit, Compensates, Calls
    <2>6. CASE /\ req'[r].call = "release"
               /\ req'[r].pc = "ok" => req'[r] = req[r] \/ reservation'[o] = "released"
      <3>1. ASSUME req'[r].pc = "ok" PROVE reservation'[o] = "released"
        BY <1>3, <2>1, <2>2, <2>6, <3>1, Zenon DEF Compensates, Keeps
      <3> QED BY <2>6, <3>1, Zenon DEF Compensates
    <2> QED BY <1>3, <2>1, <2>4, <2>5, <2>6, Zenon DEF RequestMove
  <1>4. \A r \in Requests : Compensates(r)' BY <1>3, Zenon DEF Compensates
  <1> QED BY <1>2, <1>4, Zenon DEF PromiseInv

(* The mappings, value by value.                                           *)
LEMMA StageValues ==
  /\ StageOf("none") = "none" /\ StageOf("reserving") = "placed"
  /\ StageOf("pending") = "open" /\ StageOf("paying") = "open"
  /\ StageOf("cancelling") = "open" /\ StageOf("paid") = "paid"
  /\ StageOf("finished") = "finished" /\ StageOf("cancelled") = "cancelled"
  /\ StageOf("failed") = "failed" /\ StageOf("reconciliation_required") = "review"
  BY Zenon DEF StageOf

LEMMA GoodsValues ==
  /\ GoodsOf("none") = "none" /\ GoodsOf("pending") = "held"
  /\ GoodsOf("confirmed") = "sold" /\ GoodsOf("released") = "returned"
  BY Zenon DEF GoodsOf

(* And it is a step of OrderLife for every order.                          *)
LEMMA MovesLive ==
  ASSUME PromiseInv, ClaimInv', Moves, NEW o \in Orders,
         status'[o] # status[o] => <<status[o], status'[o]>> \in Edges
  PROVE  Life!LifeStep(o)
  <1> DEFINE stage == [x \in Orders |-> StageOf(status[x])]
             goods == [x \in Orders |-> GoodsOf(reservation[x])]
  <1>1. /\ stage[o] = StageOf(status[o]) /\ stage'[o] = StageOf(status'[o])
        /\ goods[o] = GoodsOf(reservation[o]) /\ goods'[o] = GoodsOf(reservation'[o])
    BY Zenon
  <1>2. /\ status[o] \in OrderStatus
        /\ reservation[o] \in {"none", "pending", "confirmed", "released"}
    BY Zenon DEF PromiseInv, ClaimInv, SettleInv, SagaTypeOK, ReservationTypeOK,
       Inventory!ReservationStatus
  <1>3. /\ GoodsFit(o) /\ OrderFits(o) /\ GoodsMove(o) /\ CreateMove(o)
        /\ OrderFits(o)' /\ SettlementAgrees /\ SettlementAgrees'
    BY Zenon DEF PromiseInv, ClaimInv, SettleInv, Moves
  <1>4. \A r \in Requests : Past(r, o) =>
          /\ status[o] = ClaimOf(req[r].op)
          /\ req[r].op = "pay" => req[r].call = "confirm"
          /\ req[r].op = "cancel" => req[r].call = "release"
          /\ req[r].op = "create" => req[r].call \in {"reserve", "release"}
          /\ req[r].op \in {"create", "pay", "cancel"}
    <2> SUFFICES ASSUME NEW r \in Requests, Past(r, o)
                 PROVE  /\ status[o] = ClaimOf(req[r].op)
                        /\ req[r].op = "pay" => req[r].call = "confirm"
                        /\ req[r].op = "cancel" => req[r].call = "release"
                        /\ req[r].op = "create" => req[r].call \in {"reserve", "release"}
                        /\ req[r].op \in {"create", "pay", "cancel"}
      BY Zenon
    <2>1. req[r] \in ActiveRequest
      BY Acting, Zenon DEF Past, PromiseInv, ClaimInv, SettleInv
    <2> QED BY <2>1, Zenon DEF Past, PromiseInv, ClaimInv, SettleInv, HoldsClaim, CallFits,
               ActiveRequest
  <1>5. ASSUME reservation'[o] # reservation[o] PROVE Life!LifeStep(o)
    <2>1. status'[o] = status[o] BY <1>3, <1>5, Zenon DEF GoodsMove
    <2>2. ASSUME Sent(o, "reserve"), reservation[o] = "none", reservation'[o] = "pending"
          PROVE  status[o] \in {"reserving", "failed"}
      <3>1. status[o] # "none"
        BY <1>3, <1>4, <2>2, Zenon DEF Sent, GoodsFit, Calls, ClaimOf
      <3> QED BY <1>2, <1>3, <2>2, <3>1, Zenon DEF GoodsFit, OrderFits, SettlementAgrees,
                 OrderStatus, Transient
    <2>3. ASSUME Sent(o, "confirm"), reservation[o] = "pending", reservation'[o] = "confirmed"
          PROVE  status[o] \in {"pending", "paying", "cancelling"}
      <3>1. status[o] \notin {"none", "reserving", "failed"}
        BY <1>3, <1>4, <2>3, Zenon DEF Sent, OrderFits, ClaimOf
      <3>2. status[o] # "reconciliation_required"
        BY <1>3, <1>4, <2>3, Zenon DEF Sent, OrderFits, ClaimOf
      <3> QED BY <1>2, <1>3, <2>3, <3>1, <3>2, Zenon DEF SettlementAgrees, OrderStatus,
                 Transient
    <2>4. ASSUME Sent(o, "release"), reservation[o] = "pending", reservation'[o] = "released"
          PROVE  status[o] \in {"reserving", "pending", "paying", "cancelling",
                                "reconciliation_required"}
      <3>1. status[o] \notin {"none", "failed"}
        BY <1>3, <1>4, <2>4, Zenon DEF Sent, GoodsFit, Calls, ClaimOf
      <3> QED BY <1>2, <1>3, <2>4, <3>1, Zenon DEF SettlementAgrees, OrderStatus, Transient
    <2>5. stage'[o] = stage[o] BY <1>1, <2>1, Zenon
    <2>6. \/ stage[o] \in {"placed", "failed"} /\ goods[o] = "none" /\ goods'[o] = "held"
          \/ stage[o] = "open" /\ goods[o] = "held" /\ goods'[o] = "sold"
          \/ /\ stage[o] \in {"placed", "open", "review"}
             /\ goods[o] = "held" /\ goods'[o] = "returned"
      <3> HIDE DEF stage, goods
      <3> QED BY <1>1, <1>3, <1>5, <2>2, <2>3, <2>4, StageValues, GoodsValues DEF GoodsMove
    <2> QED BY <2>5, <2>6, Zenon DEF Life!LifeStep, Life!SetAside, Life!Sell, Life!GiveBack
  <1>6. ASSUME reservation'[o] = reservation[o], status'[o] # status[o] PROVE Life!LifeStep(o)
    <2>1. goods'[o] = goods[o] BY <1>1, <1>6, Zenon
    <2>2. \/ stage'[o] = stage[o]
          \/ stage[o] = "none" /\ stage'[o] = "placed"
          \/ stage[o] = "placed" /\ goods[o] = "held" /\ stage'[o] = "open"
          \/ stage[o] \in {"placed", "open"} /\ goods[o] # "none" /\ stage'[o] = "review"
          \/ stage[o] = "open" /\ goods[o] = "sold" /\ stage'[o] = "paid"
          \/ stage[o] = "open" /\ goods[o] = "returned" /\ stage'[o] = "cancelled"
          \/ stage[o] = "placed" /\ goods[o] # "sold" /\ stage'[o] = "failed"
          \/ stage[o] = "paid" /\ stage'[o] = "finished"
      <3> HIDE DEF stage, goods
      <3>1. CASE status[o] = "reserving" /\ status'[o] = "pending"
        <4>1. PICK r \in Requests : /\ Past(r, o) /\ req[r].op = "create"
                                    /\ req[r].call = "reserve" /\ req[r].pc = "ok"
          BY <1>3, <3>1, Zenon DEF CreateMove
        <4>2. reservation[o] \notin {"none", "released", "confirmed"}
          BY <1>3, <3>1, <4>1, ZenonT(30)
          DEF PromiseInv, ClaimInv, HoldsClaim, Compensates, Past, OrderFits
        <4> QED BY <1>1, <1>2, <3>1, <4>2, StageValues, GoodsValues, Zenon
      <3>2. CASE status'[o] = "reconciliation_required" /\ status[o] \in Transient
        BY <1>1, <1>3, <1>6, <3>2, StageValues, GoodsValues DEF OrderFits, Transient
      <3>3. CASE status[o] = "reserving" /\ status'[o] = "failed"
        BY <1>1, <1>2, <1>3, <3>3, StageValues, GoodsValues DEF OrderFits
      <3>4. CASE status'[o] \in {"paid", "cancelled"}
        BY <1>1, <1>3, <1>6, <3>4, StageValues, GoodsValues DEF SettlementAgrees, Edges
      <3>5. CASE <<status[o], status'[o]>> \in
                   {<<"none", "reserving">>, <<"pending", "paying">>, <<"paid", "finished">>,
                    <<"pending", "cancelling">>, <<"paying", "pending">>,
                    <<"cancelling", "pending">>}
        BY <1>1, <3>5, StageValues
      <3> QED BY <1>6, <3>1, <3>2, <3>3, <3>4, <3>5, Zenon DEF Edges
    <2> QED BY <2>1, <2>2, Zenon DEF Life!LifeStep, Life!Place, Life!OpenUp, Life!PutAside,
               Life!Show
  <1>7. CASE reservation'[o] = reservation[o] /\ status'[o] = status[o]
    BY <1>1, <1>7, Zenon DEF Life!LifeStep
  <1> QED BY <1>5, <1>6, <1>7, Zenon

-----------------------------------------------------------------------------
(* The inventory service moves the goods of one order, as it was asked.    *)
LEMMA ServiceMove ==
  ASSUME ReservationTypeOK, NEW o \in Orders, NEW call \in Calls, Sent(o, call),
         Accepts(call, o) \/ Refuses(call, o), UNCHANGED status, NEW x \in Orders
  PROVE  GoodsMove(x)
  <1>1. CASE x # o BY <1>1, ServiceLocal, Zenon DEF GoodsMove
  <1>2. CASE x = o
    <2>1. \/ reservation'[o] = reservation[o]
          \/ call = "reserve" /\ reservation[o] = "none" /\ reservation'[o] = "pending"
          \/ call = "confirm" /\ reservation[o] = "pending" /\ reservation'[o] = "confirmed"
          \/ call = "release" /\ reservation[o] = "pending" /\ reservation'[o] = "released"
      BY Zenon DEF ReservationTypeOK, Calls, Accepts, Refuses, inventoryVars,
         Inventory!Reserve, Inventory!Confirm, Inventory!Release
    <2> QED BY <1>2, <2>1, Zenon DEF GoodsMove
  <1> QED BY <1>1, <1>2, Zenon

(* A step that leaves the goods and the calls alone moves them all right,  *)
(* and one that leaves the orders table and the timers alone those.        *)
LEMMA QuietMove ==
  ASSUME NEW o \in Orders
  PROVE  /\ UNCHANGED reservation => GoodsMove(o)
         /\ UNCHANGED stray => StrayMove(o)
         /\ UNCHANGED status => CreateMove(o)
         /\ UNCHANGED timer => TimerMove(o)
  BY Zenon DEF GoodsMove, StrayMove, CreateMove, TimerMove

(* A request that stands still, ends or is not a Create past its insert.   *)
LEMMA QuietRequest ==
  ASSUME NEW r \in Requests,
         \/ req'[r] = req[r] /\ (req[r].pc \notin {"idle", "begin"} /\ req[r].op = "create"
              => req[r].call \in {"reserve", "release"})
         \/ req'[r] = NoRequest
         \/ req'[r].pc = "begin"
         \/ req'[r].op # "create"
  PROVE  RequestMove(r)
  BY DEF RequestMove, NoRequest

(* Every step of a goroutine.                                              *)
LEMMA WorkMoves ==
  ASSUME ClaimInv, NEW r \in Requests, Work(r) \/ Crash(r)
  PROVE  Moves
  <1> DEFINE o == req[r].order
  <1>1. SagaTypeOK /\ ReservationTypeOK /\ HoldsClaim(r) BY Zenon DEF ClaimInv, SettleInv
  <1>2. req[r] \in ActiveRequest
    BY <1>1, Acting, Zenon DEF Work, Crash, InsertOrder, ClaimOrder, ServeCall, LoseCall,
       FailOrder, OpenOrder, CloseFailed, RevertClaim, SettleOrder, FlagOrder, NoRequest
  <1>3. o \in Orders /\ (req[r].pc # "begin" => Past(r, o) /\ req[r].call \in Calls)
    BY <1>2, Zenon DEF ActiveRequest, Past
  <1>5. UNCHANGED inventoryVars => UNCHANGED reservation BY Zenon DEF inventoryVars
  <1>6. ASSUME NEW x \in Requests \ {r}, req'[x] = req[x] PROVE RequestMove(x)
    BY <1>6, QuietRequest, Zenon DEF ClaimInv, HoldsClaim
  <1>7. ASSUME End(r) PROVE \A x \in Requests : RequestMove(x)
    BY <1>1, <1>6, <1>7, EndStep, QuietRequest, Zenon
  <1>8. ASSUME NEW s \in OrderStatus, Write(o, s),
               status[o] = "reserving" /\ s \in {"pending", "failed"} =>
                 /\ Past(r, o) /\ req[r].op = "create"
                 /\ \/ req[r].call = "reserve" /\ (s = "pending" => req[r].pc = "ok")
                    \/ req[r].call = "release" /\ s = "failed" /\ req[r].pc = "ok"
        PROVE  \A x \in Orders : CreateMove(x)
    <2>1. status'[o] = s /\ \A x \in Orders \ {o} : status'[x] = status[x]
      BY <1>1, <1>3, <1>8, WriteType, Zenon
    <2> QED BY <1>3, <1>8, <2>1, Zenon DEF CreateMove
  <1>9. UNCHANGED <<status, task>> => \A x \in Orders : CreateMove(x) BY QuietMove, Zenon
  <1>10. ASSUME UNCHANGED <<inventoryVars, stray, timer>>, \A x \in Orders : CreateMove(x),
                \A x \in Requests : RequestMove(x)
         PROVE  Moves
    BY <1>5, <1>10, QuietMove, Zenon DEF Moves
  <1>11. ASSUME req'[r].op = req[r].op, req'[r].order = o, req'[r].call = req[r].call,
                req[r].pc # "begin",
                req'[r].pc = "ok" /\ req[r].call = "release" => reservation'[o] = "released",
                \A x \in Requests \ {r} : req'[x] = req[x]
         PROVE  \A x \in Requests : RequestMove(x)
    <2>1. req[r].op = "create" => req[r].call \in {"reserve", "release"}
      BY <1>1, <1>2, <1>11, Zenon DEF HoldsClaim, ActiveRequest
    <2>2. req[r].pc # "idle" BY <1>2, Zenon DEF ActiveRequest
    <2>3. RequestMove(r) BY <1>11, <2>1, <2>2, Zenon DEF RequestMove
    <2> QED BY <1>6, <1>11, <2>3, Zenon
  <1>12. CASE InsertOrder(r)
    <2>1. \A x \in Orders : CreateMove(x)
      BY <1>8, <1>9, <1>12, Zenon DEF InsertOrder, OrderStatus, Transient
    <2>2. CASE status[o] = "none" /\ StartCall(r, "reserve")
      <3>1. /\ req'[r].order = o /\ req'[r].call = "reserve"
            /\ \A x \in Requests \ {r} : req'[x] = req[x]
        BY <1>1, <1>2, <2>2, StartStep, Zenon DEF Calls
      <3>2. RequestMove(r) BY <1>5, <1>12, <2>2, <3>1, Zenon DEF RequestMove, InsertOrder
      <3> QED BY <1>6, <1>10, <1>12, <2>1, <3>1, <3>2, Zenon DEF InsertOrder
    <2>3. CASE End(r) BY <1>7, <1>10, <1>12, <2>1, <2>3, Zenon DEF InsertOrder
    <2> QED BY <1>12, <2>2, <2>3, Zenon DEF InsertOrder
  <1>13. CASE ClaimOrder(r)
    <2>1. \A x \in Orders : CreateMove(x)
      BY <1>8, <1>9, <1>13, Zenon DEF ClaimOrder, OrderStatus, Transient
    <2>2. CASE StartCall(r, "confirm") \/ StartCall(r, "release")
      <3>1. req'[r].op = req[r].op /\ \A x \in Requests \ {r} : req'[x] = req[x]
        BY <1>1, <1>2, <2>2, StartStep, Zenon DEF Calls
      <3>2. RequestMove(r) BY <1>13, <3>1, QuietRequest, Zenon DEF ClaimOrder
      <3> QED BY <1>6, <1>10, <1>13, <2>1, <3>1, <3>2, Zenon DEF ClaimOrder
    <2>3. CASE End(r) BY <1>7, <1>10, <1>13, <2>1, <2>3, Zenon DEF ClaimOrder
    <2> QED BY <1>13, <2>2, <2>3, Zenon DEF ClaimOrder
  <1>14. CASE ServeCall(r)
    <2>1. req[r].pc = "call" /\ UNCHANGED <<status, timer, stray>>
      BY <1>14, Zenon DEF ServeCall
    <2>2. Sent(o, req[r].call) BY <1>3, <2>1, Zenon DEF Sent
    <2>3. \A x \in Orders : GoodsMove(x)
      BY <1>1, <1>3, <1>14, <2>1, <2>2, ServiceMove, Zenon DEF ServeCall
    <2>4. \A x \in Requests : RequestMove(x)
      <3>1. CASE Accepts(req[r].call, o) /\ At(r, "ok")
        <4>1. req[r].call = "release" => reservation'[o] = "released"
          BY <1>1, <1>3, <2>1, <3>1, ServiceStep, Zenon
        <4> QED BY <1>1, <1>2, <1>11, <2>1, <3>1, <4>1, AtStep, Zenon
      <3>2. CASE Refuses(req[r].call, o) /\ At(r, "err")
        BY <1>1, <1>2, <1>11, <2>1, <3>2, AtStep, Zenon
      <3> QED BY <1>14, <3>1, <3>2, Zenon DEF ServeCall
    <2> QED BY <2>1, <2>3, <2>4, QuietMove, Zenon DEF Moves
  <1>15. CASE LoseCall(r)
    <2>1. /\ req[r].pc \in {"call", "ok"} /\ stray' \subseteq stray \cup {<<o, req[r].call>>}
          /\ UNCHANGED <<inventoryVars, status, timer>>
      BY <1>15, Zenon DEF LoseCall
    <2>2. \A x \in Orders : StrayMove(x) BY <1>3, <2>1, Zenon DEF StrayMove
    <2>3. \A x \in Requests : RequestMove(x)
      BY <1>1, <1>2, <1>11, <1>15, <2>1, AtStep, RetryStep, Zenon DEF LoseCall
    <2> QED BY <1>5, <2>1, <2>2, <2>3, QuietMove, Zenon DEF Moves
  <1>16. CASE FailOrder(r)
    <2>1. \A x \in Orders : CreateMove(x)
      BY <1>3, <1>8, <1>9, <1>16, Zenon DEF FailOrder, OrderStatus, Transient
    <2> QED BY <1>7, <1>10, <1>16, <2>1, Zenon DEF FailOrder
  <1>17. CASE OpenOrder(r)
    <2>1. \A x \in Orders : CreateMove(x)
      BY <1>3, <1>8, <1>9, <1>17, Zenon DEF OpenOrder, OrderStatus, Transient
    <2>2. \A x \in Requests : RequestMove(x)
      <3>1. CASE StartCall(r, "release")
        <4>1. /\ req'[r].pc = "call" /\ req'[r].call = "release"
              /\ \A x \in Requests \ {r} : req'[x] = req[x]
          BY <1>1, <1>2, <3>1, StartStep, Zenon DEF Calls
        <4>2. RequestMove(r) BY <4>1, Zenon DEF RequestMove
        <4> QED BY <1>6, <4>1, <4>2, Zenon
      <3> QED BY <1>7, <1>17, <3>1, Zenon DEF OpenOrder
    <2>3. \A x \in Orders : TimerMove(x)
      <3>1. CASE UNCHANGED timer BY <3>1, QuietMove, Zenon
      <3>2. CASE /\ status[o] = "reserving" /\ Write(o, "pending")
                 /\ timer' = [timer EXCEPT ![o] = "open"]
        <4>1. status'[o] = "pending"
          BY <1>1, <1>3, <3>2, WriteType, Zenon DEF OrderStatus
        <4> QED BY <1>1, <3>2, <4>1, Zenon DEF TimerMove, SagaTypeOK
      <3> QED BY <1>17, <3>1, <3>2, Zenon DEF OpenOrder
    <2> QED BY <1>5, <1>17, <2>1, <2>2, <2>3, QuietMove, Zenon DEF Moves, OpenOrder
  <1>18. CASE CloseFailed(r)
    <2>1. \A x \in Orders : CreateMove(x)
      BY <1>3, <1>8, <1>9, <1>18, Zenon DEF CloseFailed, OrderStatus, Transient
    <2> QED BY <1>7, <1>10, <1>18, <2>1, Zenon DEF CloseFailed
  <1>19. CASE RevertClaim(r)
    <2>1. \A x \in Orders : CreateMove(x)
      BY <1>8, <1>9, <1>19, Zenon DEF RevertClaim, OrderStatus, Transient
    <2> QED BY <1>7, <1>10, <1>19, <2>1, Zenon DEF RevertClaim
  <1>20. CASE SettleOrder(r)
    <2> DEFINE end == IF req[r].op = "pay" THEN "paid" ELSE "cancelled"
    <2>1. req[r].pc = "ok" /\ req[r].op \in {"pay", "cancel"} /\ UNCHANGED <<inventoryVars, stray>>
      BY <1>20, Zenon DEF SettleOrder
    <2>2. \A x \in Orders : CreateMove(x)
      BY <1>8, <1>9, <1>20, Zenon DEF SettleOrder, OrderStatus, Transient
    <2>3. \A x \in Requests : RequestMove(x)
      <3>1. CASE At(r, "flag")
        <4>1. req'[r].op = req[r].op /\ \A x \in Requests \ {r} : req'[x] = req[x]
          BY <1>1, <1>2, <2>1, <3>1, AtStep, Zenon
        <4>2. RequestMove(r) BY <2>1, <4>1, QuietRequest, Zenon
        <4> QED BY <1>6, <4>1, <4>2, Zenon
      <3> QED BY <1>7, <1>20, <3>1, Zenon DEF SettleOrder
    <2>4. \A x \in Orders : TimerMove(x)
      <3>1. CASE UNCHANGED timer BY <3>1, QuietMove, Zenon
      <3>2. CASE Write(o, end) /\ CloseTimer(o)
        <4>1. end \in OrderStatus BY Zenon DEF OrderStatus
        <4> HIDE DEF end
        <4>2. status'[o] = end BY <1>1, <1>3, <3>2, <4>1, WriteType, Zenon
        <4>3. end \in {"paid", "cancelled"} BY Zenon DEF end
        <4> QED BY <1>1, <3>2, <4>2, <4>3, Zenon DEF TimerMove, CloseTimer, SagaTypeOK
      <3> QED BY <1>20, <3>1, <3>2, Zenon DEF SettleOrder
    <2> QED BY <1>5, <2>1, <2>2, <2>3, <2>4, QuietMove, Zenon DEF Moves
  <1>21. CASE FlagOrder(r)
    <2>1. \A x \in Orders : CreateMove(x)
      BY <1>8, <1>9, <1>21, Zenon DEF FlagOrder, OrderStatus, Transient
    <2> QED BY <1>7, <1>10, <1>21, <2>1, Zenon DEF FlagOrder
  <1>22. CASE Crash(r)
    <2>1. /\ stray' = stray \/ (req[r].pc = "call" /\ stray' = stray \cup {<<o, req[r].call>>})
          /\ UNCHANGED <<inventoryVars, status, timer>>
      BY <1>22, Zenon DEF Crash
    <2>2. \A x \in Orders : StrayMove(x) BY <1>3, <2>1 DEF StrayMove
    <2> QED BY <1>5, <1>7, <1>22, <2>1, <2>2, QuietMove, Zenon DEF Crash, Moves
  <1> QED
    BY <1>12, <1>13, <1>14, <1>15, <1>16, <1>17, <1>18, <1>19, <1>20, <1>21, <1>22,
       ZenonT(30) DEF Work

(* Every step of the system.                                               *)
LEMMA StepMoves ==
  ASSUME ClaimInv, [Next]_vars
  PROVE  Moves
  <1>1. SagaTypeOK /\ ReservationTypeOK BY Zenon DEF ClaimInv, SettleInv
  <1>2. ASSUME NEW r \in Requests, req'[r] = req[r] PROVE RequestMove(r)
    BY <1>2, QuietRequest, Zenon DEF ClaimInv, HoldsClaim
  <1>3. ASSUME NEW r \in Requests, NEW o \in Orders,
               NEW op \in {"create", "pay", "cancel"}, Begin(r, op, o)
        PROVE  Moves
    <2>1. /\ UNCHANGED <<status, timer, stray, reservation>> /\ req'[r].pc = "begin"
          /\ \A x \in Requests \ {r} : req'[x] = req[x]
      BY <1>1, <1>3, Zenon DEF Begin, inventoryVars, SagaTypeOK
    <2> QED BY <1>2, <2>1, QuietMove, QuietRequest, Zenon DEF Moves
  <1>4. ASSUME NEW o \in Orders, NEW call \in Calls, ServeStray(o, call)
        PROVE  Moves
    <2>1. UNCHANGED <<status, timer, stray, req>> /\ Sent(o, call)
      BY <1>4, Zenon DEF ServeStray, sagaVars, Sent
    <2>2. \A x \in Orders : GoodsMove(x)
      BY <1>1, <1>4, <2>1, ServiceMove, Zenon DEF ServeStray
    <2> QED BY <1>2, <2>1, <2>2, QuietMove, Zenon DEF Moves
  <1>5. ASSUME NEW o \in Orders, FinishOrder(o) PROVE Moves
    <2>1. /\ UNCHANGED <<timer, stray, reservation, req>> /\ status[o] = "paid"
          /\ \A x \in Orders \ {o} : status'[x] = status[x]
      BY <1>1, <1>5, WriteType, Zenon DEF FinishOrder, inventoryVars, OrderStatus
    <2>2. \A x \in Orders : CreateMove(x) BY <2>1, Zenon DEF CreateMove
    <2> QED BY <1>2, <2>1, <2>2, QuietMove, Zenon DEF Moves
  <1>6. CASE StockIn \/ UNCHANGED vars
    <2>1. UNCHANGED <<status, timer, stray, reservation, req>>
      BY <1>6, StockStep, Zenon DEF vars, sagaVars, inventoryVars
    <2> QED BY <1>2, <2>1, QuietMove, Zenon DEF Moves
  <1> QED BY <1>3, <1>4, <1>5, <1>6, WorkMoves, Zenon DEF Next

(* The saga starts with the invariant.                                     *)
LEMMA PromiseStart == Init => PromiseInv
  <1> SUFFICES ASSUME Init PROVE PromiseInv BY Zenon
  <1>1. \A o \in Orders : GoodsFit(o) BY Zenon DEF Init, Inventory!Init, GoodsFit
  <1>2. \A r \in Requests : Compensates(r) BY Zenon DEF Init, Compensates, NoRequest
  <1> QED BY <1>1, <1>2, ClaimStart, Zenon DEF PromiseInv

(* Every step keeps it, and is a step of OrderLife for every order.        *)
LEMMA PromiseStep ==
  ASSUME Trusted, PromiseInv, [Next]_vars
  PROVE  PromiseInv' /\ \A o \in Orders : Life!LifeStep(o)
  <1>1. ClaimInv BY Zenon DEF PromiseInv
  <1>2. /\ ClaimInv' /\ Moves /\ Keeps
        /\ \A o \in Orders : status'[o] # status[o] => <<status[o], status'[o]>> \in Edges
    BY <1>1, ClaimStep, StepMoves, TypeStep, Zenon DEF ClaimInv, SettleInv
  <1> QED BY <1>2, MovesKeep, MovesLive, Zenon

(* When no commit is reported as an error, the order service and the       *)
(* inventory service together implement OrderLife: outcomes are shown only *)
(* when the goods have moved, and stay.                                    *)
THEOREM PromiseKept ==
  ASSUME "unknown" \notin Faults PROVE Spec => KeepsPromise
  <1>1. Init => Life!LifeInit
    BY StageValues, GoodsValues DEF Init, Inventory!Init, Life!LifeInit
  <1>2. PromiseInv /\ [Next]_vars => PromiseInv' BY PromiseStep, Zenon DEF Trusted
  <1>3. PromiseInv /\ [Next]_vars => [\A o \in Orders : Life!LifeStep(o)]_(Life!lifeVars)
    BY PromiseStep, Zenon DEF Trusted
  <1> QED BY <1>1, <1>2, <1>3, PromiseStart, PTL DEF Spec, KeepsPromise, Life!LifeSpec

(* The phases of an order, value by value.                                 *)
LEMMA PhaseValues ==
  ASSUME NEW t
  PROVE  /\ PhaseOf("none", t) = "none" /\ PhaseOf("reserving", t) = "none"
         /\ PhaseOf("failed", t) = "none" /\ PhaseOf("pending", t) = "pending"
         /\ PhaseOf("paying", t) = "busy" /\ PhaseOf("cancelling", t) = "busy"
         /\ PhaseOf("paid", t) = "closed" /\ PhaseOf("finished", t) = "closed"
         /\ PhaseOf("cancelled", t) = "closed"
         /\ PhaseOf("reconciliation_required", t) = IF t = "none" THEN "none" ELSE "flagged"
  BY Zenon DEF PhaseOf

(* Every step is one that the timeout worker may count on.                 *)
LEMMA TimerKeeps ==
  ASSUME Trusted, ClaimInv, [Next]_vars, NEW o \in Orders
  PROVE  Contract!Rests(o) \/ Contract!ServiceStep(o)
  <1> DEFINE phase == [x \in Orders |-> PhaseOf(status[x], timer[x])]
  <1>1. phase[o] = PhaseOf(status[o], timer[o]) /\ phase'[o] = PhaseOf(status'[o], timer'[o])
    BY Zenon
  <1>2. /\ ClaimInv' /\ Moves
        /\ status'[o] # status[o] => <<status[o], status'[o]>> \in Edges
    BY ClaimStep, StepMoves, Zenon
  <1>3. /\ OrderFits(o) /\ OrderFits(o)' /\ TimerMove(o) /\ status[o] \in OrderStatus
    BY <1>2, Zenon DEF ClaimInv, SettleInv, SagaTypeOK, Moves
  <1>4. \/ phase'[o] = phase[o] /\ timer'[o] = timer[o]
        \/ /\ phase[o] = "none" /\ phase'[o] = "pending"
           /\ timer[o] = "none" /\ timer'[o] = "open"
        \/ phase[o] = "pending" /\ phase'[o] = "busy" /\ timer'[o] = timer[o]
        \/ phase[o] = "busy" /\ phase'[o] = "closed" /\ timer'[o] = "completed"
        \/ phase[o] = "busy" /\ phase'[o] = "flagged" /\ timer'[o] = timer[o]
        \/ phase[o] = "busy" /\ phase'[o] = "pending" /\ timer'[o] = timer[o]
    <2> HIDE DEF phase
    <2>a. /\ status[o] \in {"pending", "paying", "cancelling"} => timer[o] = "open"
          /\ status[o] \in {"paid", "finished", "cancelled"} => timer[o] = "completed"
          /\ status[o] \in {"none", "reserving", "failed"} => timer[o] = "none"
      BY <1>3, Zenon DEF OrderFits
    <2>b. /\ status'[o] \in {"pending", "paying", "cancelling"} => timer'[o] = "open"
          /\ status'[o] \in {"paid", "finished", "cancelled"} => timer'[o] = "completed"
      BY <1>3, Zenon DEF OrderFits
    <2>c. TimerMove(o) BY <1>3, Zenon
    <2>1. CASE status'[o] = status[o]
      <3>1. timer'[o] = timer[o] BY <2>a, <2>b, <2>c, <2>1 DEF TimerMove
      <3> QED BY <1>1, <2>1, <3>1, Zenon
    <2>2. CASE status'[o] \in {"paid", "cancelled"} /\ status[o] \in {"paying", "cancelling"}
      <3>1. timer'[o] = "completed" BY <2>b, <2>2, Zenon
      <3>2. phase[o] = "busy" BY <1>1, <2>2, PhaseValues
      <3>3. phase'[o] = "closed" BY <1>1, <2>2, PhaseValues
      <3> QED BY <3>1, <3>2, <3>3, Zenon
    <2>3. CASE status[o] = "reserving" /\ status'[o] = "pending"
      <3>1. timer[o] = "none" /\ timer'[o] = "open" BY <2>a, <2>b, <2>3, Zenon
      <3>2. phase[o] = "none" BY <1>1, <2>3, PhaseValues
      <3>3. phase'[o] = "pending" BY <1>1, <2>3, PhaseValues
      <3> QED BY <3>1, <3>2, <3>3, Zenon
    <2>4. CASE /\ status'[o] \notin {"paid", "cancelled"}
               /\ ~(status[o] = "reserving" /\ status'[o] = "pending")
               /\ <<status[o], status'[o]>> \in Edges
      <3>1. timer'[o] = timer[o] BY <2>c, <2>4, Zenon DEF TimerMove
      <3> QED BY <1>1, <2>4, <2>a, <3>1, PhaseValues, SMTT(30) DEF Edges, Transient
    <2>5. <<status[o], status'[o]>> \in Edges /\ status'[o] \in {"paid", "cancelled"}
          => status[o] \in {"paying", "cancelling"}
      BY Zenon DEF Edges, Transient
    <2>6. status'[o] # status[o] => <<status[o], status'[o]>> \in Edges BY <1>2, Zenon
    <2>7. \/ status'[o] = status[o]
          \/ status'[o] \in {"paid", "cancelled"} /\ status[o] \in {"paying", "cancelling"}
          \/ status[o] = "reserving" /\ status'[o] = "pending"
          \/ /\ status'[o] \notin {"paid", "cancelled"}
             /\ ~(status[o] = "reserving" /\ status'[o] = "pending")
             /\ <<status[o], status'[o]>> \in Edges
      BY <2>5, <2>6, Zenon
    <2> QED BY <2>1, <2>2, <2>3, <2>4, <2>7, Zenon
  <1> QED BY <1>4, Zenon DEF Contract!Rests, Contract!ServiceStep, Contract!Open,
             Contract!Claim,
        Contract!Settle, Contract!Flag, Contract!Revert

(* When no commit is reported as an error, the order service keeps its     *)
(* contract with the timeout worker.                                       *)
THEOREM ContractKept ==
  ASSUME "unknown" \notin Faults PROVE Spec => TimerContract
  <1>1. Init => Contract!TimerInit BY PhaseValues DEF Init, Contract!TimerInit
  <1>2. ClaimInv /\ [Next]_vars => ClaimInv' BY ClaimStep, Zenon DEF Trusted
  <1>3. ClaimInv /\ [Next]_vars =>
          [\A o \in Orders : Contract!Rests(o) \/ Contract!ServiceStep(o)]_(Contract!timerVars)
    BY TimerKeeps, Zenon DEF Trusted
  <1> QED BY <1>1, <1>2, <1>3, ClaimStart, PTL DEF Spec, TimerContract, Contract!TimerSpec

-----------------------------------------------------------------------------
(* While every call has been answered: what the status says of the goods,  *)
(* and that calls outlive only a process that died in them, whose order    *)
(* nobody acts on any more.                                                *)
GoodsTold(o) ==
  /\ status[o] = "none" => reservation[o] = "none"
  /\ status[o] = "pending" => reservation[o] = "pending"
  /\ status[o] = "failed" => reservation[o] \in {"none", "released"}
  /\ \A call \in Calls : <<o, call>> \in stray =>
       status[o] \in Transient /\ \A r \in Requests : ~Past(r, o)

(* What a request past its claim knows of the goods.                       *)
Before(op, call) == IF op = "create" /\ call = "reserve" THEN "none" ELSE "pending"

After(call) ==
  IF call = "reserve" THEN "pending" ELSE IF call = "confirm" THEN "confirmed" ELSE "released"

Told(r) ==
  req[r].pc \notin {"idle", "begin"} =>
    reservation[req[r].order] =
      IF req[r].pc \in {"call", "err"} THEN Before(req[r].op, req[r].call)
      ELSE After(req[r].call)

(* The inductive invariant behind HonestWhileAnswered.                     *)
AllTold == (\A o \in Orders : GoodsTold(o)) /\ (\A r \in Requests : Told(r))

HonestInv == ClaimInv /\ (~gaveUp => AllTold)

(* A call that is answered moves the goods as it was asked, or not at all. *)
LEMMA AnswerStep ==
  ASSUME ReservationTypeOK, NEW o \in Orders, NEW call \in Calls
  PROVE  /\ Accepts(call, o) /\ reservation[o] \in {"none", "pending"}
              /\ (call = "reserve" => reservation[o] = "none") => reservation'[o] = After(call)
         /\ Refuses(call, o) => reservation'[o] = reservation[o]
  BY Zenon DEF ReservationTypeOK, Calls, Accepts, Refuses, inventoryVars, After,
     Inventory!Reserve, Inventory!Confirm, Inventory!Release

(* A step of one request on its order leaves what all the others know.     *)
LEMMA ToldFrame ==
  ASSUME ClaimInv, AllTold, NEW r \in Requests, NEW o \in Orders,
         req[r] \in ActiveRequest, req[r].order = o, ActsLocally(r, o),
         req[r].pc = "begin" => reservation'[o] = reservation[o],
         GoodsTold(o)', Told(r)'
  PROVE  AllTold'
  <1>1. ASSUME NEW y \in Orders \ {o} PROVE GoodsTold(y)'
    <2>1. GoodsTold(y) BY Zenon DEF AllTold
    <2>2. status'[y] = status[y] /\ reservation'[y] = reservation[y]
      BY Zenon DEF ActsLocally
    <2>3. ASSUME NEW call \in Calls, <<y, call>> \in stray'
          PROVE  status'[y] \in Transient /\ \A x \in Requests : ~Past(x, y)'
      <3>1. <<y, call>> \in stray BY <2>3, Zenon DEF ActsLocally
      <3>2. \A x \in Requests : ~Past(x, y) BY <2>1, <3>1, Zenon DEF GoodsTold
      <3>3. ~Past(r, y)'
        <4>1. CASE req'[r] = NoRequest BY <4>1 DEF Past, NoRequest
        <4>2. CASE req'[r].order = o BY <4>2, Zenon DEF Past
        <4> QED BY <4>1, <4>2, Zenon DEF ActsLocally
      <3>4. ASSUME NEW x \in Requests \ {r} PROVE ~Past(x, y)'
        <4>1. req'[x] = req[x] BY Zenon DEF ActsLocally
        <4> QED BY <3>2, <4>1, Zenon DEF Past
      <3> QED BY <2>1, <2>2, <3>1, <3>3, <3>4, Zenon DEF GoodsTold
    <2> QED BY <2>1, <2>2, <2>3, Zenon DEF GoodsTold
  <1>2. ASSUME NEW x \in Requests \ {r} PROVE Told(x)'
    <2>1. req'[x] = req[x] /\ Told(x) BY Zenon DEF ActsLocally, AllTold
    <2>2. CASE req[x].pc \in {"idle", "begin"} BY <2>1, <2>2, Zenon DEF Told
    <2>3. CASE req[x].pc \notin {"idle", "begin"}
      <3>1. req[x].order \in Orders
        BY <2>3, Acting, Zenon DEF ClaimInv, SettleInv, ActiveRequest
      <3>2. CASE req[x].order # o
        <4>1. reservation'[req[x].order] = reservation[req[x].order]
          BY <3>1, <3>2, Zenon DEF ActsLocally
        <4> QED BY <2>1, <4>1, Zenon DEF Told
      <3>3. CASE req[x].order = o
        <4>1. req[r].pc = "begin"
          BY <2>3, <3>3, Zenon DEF ClaimInv, OneRequestActs, Past, ActiveRequest
        <4> QED BY <2>1, <3>3, <4>1, Zenon DEF Told
      <3> QED BY <3>2, <3>3, Zenon
    <2> QED BY <2>2, <2>3, Zenon
  <1> QED BY <1>1, <1>2, Zenon DEF AllTold

(* The acting request, step by step.                                       *)
LEMMA ToldWork ==
  ASSUME "unknown" \notin Faults, ClaimInv, AllTold,
         NEW r \in Requests, NEW o \in Orders, req[r].order = o,
         req[r] \in ActiveRequest, Work(r) \/ Crash(r), ~LoseCall(r)
  PROVE  /\ GoodsTold(o)' /\ Told(r)'
         /\ req[r].pc = "begin" => reservation'[o] = reservation[o]
  <1> USE DEF OrderStatus, Transient
  <1>1. SagaTypeOK /\ ReservationTypeOK BY Zenon DEF ClaimInv, SettleInv
  <1>2. /\ req[r].pc # "begin" => req[r].call \in Calls
        /\ req[r].pc # "idle" /\ req[r].op \in {"create", "pay", "cancel"}
    BY Zenon DEF ActiveRequest
  <1>3. GoodsTold(o) /\ Told(r) /\ HoldsClaim(r) BY Zenon DEF ClaimInv, AllTold
  <1>4. UNCHANGED inventoryVars => UNCHANGED reservation BY Zenon DEF inventoryVars
  <1>5. req[r].pc # "begin" =>
          /\ \A call \in Calls : <<o, call>> \notin stray
          /\ \A x \in Requests \ {r} : ~Past(x, o)
          /\ status[o] = ClaimOf(req[r].op)
    BY <1>2, <1>3, Zenon DEF GoodsTold, Past, ClaimInv, OneRequestActs, HoldsClaim
  <1>6. \A outcome \in Outcomes \cup RequestOutcomes : outcome \in {"ok", "rolledback"}
    BY Zenon DEF Outcomes, RequestOutcomes
  <1>7. ASSUME UNCHANGED <<status, stray, reservation>>, End(r)
        PROVE  GoodsTold(o)' /\ Told(r)'
    <2>1. req'[r] = NoRequest /\ \A x \in Requests \ {r} : req'[x] = req[x]
      BY <1>1, <1>7, EndStep, Zenon
    <2>2. req'[r].pc = "idle" BY <2>1 DEF NoRequest
    <2>3. \A x \in Requests : Past(x, o)' => Past(x, o)
      BY <2>1, <2>2, Zenon DEF Past
    <2> QED BY <1>3, <1>7, <2>2, <2>3, Zenon DEF GoodsTold, Told
  <1>8. ASSUME NEW s \in OrderStatus \ {"none"}, Write(o, s), End(r), req[r].pc # "begin",
               UNCHANGED <<stray, reservation>>,
               s = "pending" => reservation[o] = "pending",
               s = "failed" => reservation[o] \in {"none", "released"}
        PROVE  GoodsTold(o)' /\ Told(r)'
    <2>1. req'[r].pc = "idle" BY <1>1, <1>8, EndStep DEF NoRequest
    <2>2. status'[o] = s BY <1>1, <1>8, WriteType, Zenon
    <2> QED BY <1>5, <1>8, <2>1, <2>2, Zenon DEF GoodsTold, Told
  <1>9. CASE InsertOrder(r)
    <2>1. req[r].pc = "begin" /\ req[r].op = "create" /\ UNCHANGED <<stray, reservation>>
      BY <1>4, <1>9, Zenon DEF InsertOrder
    <2>2. CASE status[o] = "none" /\ Write(o, "reserving") /\ StartCall(r, "reserve")
      <3>1. /\ req'[r].op = "create" /\ req'[r].order = o /\ req'[r].pc = "call"
            /\ req'[r].call = "reserve"
        BY <1>1, <2>1, <2>2, StartStep, Zenon DEF Calls
      <3>2. status'[o] = "reserving" BY <1>1, <2>2, WriteType, Zenon
      <3>3. reservation[o] = "none" /\ \A call \in Calls : <<o, call>> \notin stray
        BY <1>3, <2>2, Zenon DEF GoodsTold
      <3> QED BY <2>1, <3>1, <3>2, <3>3, Zenon DEF GoodsTold, Told, Before
    <2>3. CASE UNCHANGED status /\ End(r) BY <1>7, <2>1, <2>3, Zenon
    <2> QED BY <1>6, <1>9, <2>2, <2>3, Zenon DEF InsertOrder
  <1>10. CASE ClaimOrder(r)
    <2> DEFINE claim == IF req[r].op = "pay" THEN "paying" ELSE "cancelling"
               call == IF req[r].op = "pay" THEN "confirm" ELSE "release"
    <2>1. req[r].pc = "begin" /\ req[r].op \in {"pay", "cancel"} /\ UNCHANGED <<stray, reservation>>
      BY <1>4, <1>10, Zenon DEF ClaimOrder
    <2>2. CASE status[o] = "pending" /\ Write(o, claim) /\ StartCall(r, call)
      <3>1. req'[r].op # "create" /\ req'[r].order = o /\ req'[r].pc = "call"
        BY <1>1, <2>1, <2>2, StartStep, Zenon DEF Calls
      <3>2. status'[o] \in {"paying", "cancelling"} BY <1>1, <2>2, WriteType, Zenon
      <3>3. reservation[o] = "pending" /\ \A c \in Calls : <<o, c>> \notin stray
        BY <1>3, <2>2, Zenon DEF GoodsTold
      <3> QED BY <2>1, <3>1, <3>2, <3>3, Zenon DEF GoodsTold, Told, Before
    <2>3. CASE UNCHANGED status /\ End(r) BY <1>7, <2>1, <2>3, Zenon
    <2> QED BY <1>6, <1>10, <2>2, <2>3, Zenon DEF ClaimOrder
  <1>11. CASE ServeCall(r)
    <2>1. /\ req[r].pc = "call" /\ req[r].call \in Calls /\ UNCHANGED <<status, stray>>
          /\ status[o] \in Transient
      BY <1>2, <1>3, <1>11, Zenon DEF ServeCall, HoldsClaim, ClaimOf
    <2>2. reservation[o] = Before(req[r].op, req[r].call) BY <1>3, <2>1, Zenon DEF Told
    <2>3. req[r].call = "reserve" => req[r].op = "create"
      BY <1>2, <2>1, Zenon DEF ClaimInv, SettleInv, CallFits
    <2>4. Told(r)'
      <3>1. CASE Accepts(req[r].call, o) /\ At(r, "ok")
        <4>1. req'[r].order = o /\ req'[r].pc = "ok" /\ req'[r].call = req[r].call
          BY <1>1, <2>1, <3>1, AtStep, Zenon
        <4>2. reservation'[o] = After(req[r].call)
          BY <1>1, <2>1, <2>2, <2>3, <3>1, AnswerStep, Zenon DEF Before
        <4> QED BY <4>1, <4>2, Zenon DEF Told
      <3>2. CASE Refuses(req[r].call, o) /\ At(r, "err")
        <4>1. /\ req'[r].order = o /\ req'[r].pc = "err" /\ req'[r].call = req[r].call
              /\ req'[r].op = req[r].op
          BY <1>1, <2>1, <3>2, AtStep, Zenon
        <4>2. reservation'[o] = Before(req[r].op, req[r].call)
          BY <1>1, <2>1, <2>2, <3>2, AnswerStep, Zenon
        <4> QED BY <4>1, <4>2, Zenon DEF Told
      <3> QED BY <1>11, <3>1, <3>2, Zenon DEF ServeCall
    <2> QED BY <1>5, <2>1, <2>4, Zenon DEF GoodsTold
  <1>12. CASE FailOrder(r)
    <2>1. /\ req[r].pc = "err" /\ UNCHANGED <<stray, reservation>> /\ End(r)
          /\ Write(o, "failed") \/ UNCHANGED status
      BY <1>4, <1>12, Zenon DEF FailOrder
    <2>2. reservation[o] = "none" BY <1>3, <1>12, Zenon DEF Told, FailOrder, Before
    <2> QED BY <1>7, <1>8, <2>1, <2>2, Zenon
  <1>13. CASE OpenOrder(r)
    <2>1. /\ req[r].pc = "ok" /\ req[r].op = "create" /\ UNCHANGED <<stray, reservation>>
          /\ reservation[o] = "pending" /\ status[o] = "reserving"
      BY <1>3, <1>4, <1>13, Zenon DEF OpenOrder, Told, After, HoldsClaim, ClaimOf
    <2>2. CASE Write(o, "pending") /\ End(r) BY <1>8, <2>1, <2>2, Zenon
    <2>3. CASE UNCHANGED status /\ StartCall(r, "release")
      <3>1. req'[r].order = o /\ req'[r].pc = "call" /\ req'[r].call = "release"
        BY <1>1, <2>3, StartStep, Zenon DEF Calls
      <3> QED BY <1>5, <2>1, <2>3, <3>1, Zenon DEF GoodsTold, Told, Before
    <2> QED BY <1>6, <1>13, <2>1, <2>2, <2>3, Zenon DEF OpenOrder
  <1>14. CASE CloseFailed(r)
    <2>1. /\ req[r].pc # "begin" /\ UNCHANGED <<stray, reservation>> /\ End(r)
          /\ \/ Write(o, "failed") /\ req[r].pc = "ok" /\ req[r].call = "release"
             \/ Write(o, "reconciliation_required")
             \/ UNCHANGED status
      BY <1>4, <1>14, Zenon DEF CloseFailed
    <2>2. req[r].pc = "ok" /\ req[r].call = "release" => reservation[o] = "released"
      BY <1>3, Zenon DEF Told, After
    <2> QED BY <1>7, <1>8, <2>1, <2>2, Zenon
  <1>15. CASE RevertClaim(r)
    <2>1. /\ req[r].pc = "err" /\ UNCHANGED <<stray, reservation>> /\ End(r)
          /\ Write(o, "pending") \/ UNCHANGED status
      BY <1>4, <1>15, Zenon DEF RevertClaim
    <2>2. reservation[o] = "pending" BY <1>3, <1>15, Zenon DEF RevertClaim, Told, Before
    <2> QED BY <1>7, <1>8, <2>1, <2>2, Zenon
  <1>16. CASE SettleOrder(r)
    <2>1. /\ req[r].pc = "ok" /\ UNCHANGED <<stray, reservation>>
          /\ status[o] \in {"paying", "cancelling"}
      BY <1>3, <1>4, <1>16, Zenon DEF SettleOrder, HoldsClaim, ClaimOf
    <2>2. CASE (Write(o, "paid") \/ Write(o, "cancelled")) /\ End(r)
      BY <1>8, <2>1, <2>2, Zenon
    <2>3. CASE UNCHANGED status /\ At(r, "flag")
      <3>1. req'[r].order = o /\ req'[r].pc = "flag" /\ req'[r].call = req[r].call
        BY <1>1, <2>1, <2>3, AtStep, Zenon
      <3>2. reservation[o] = After(req[r].call) BY <1>3, <2>1, Zenon DEF Told
      <3> QED BY <1>5, <2>1, <2>3, <3>1, <3>2, Zenon DEF GoodsTold, Told
    <2>4. status[o] = IF req[r].op = "pay" THEN "paying" ELSE "cancelling"
      BY <1>3, <1>16, Zenon DEF SettleOrder, HoldsClaim, ClaimOf
    <2> QED BY <1>6, <1>16, <2>2, <2>3, <2>4, Zenon DEF SettleOrder
  <1>17. CASE FlagOrder(r)
    <2>1. /\ req[r].pc = "flag" /\ UNCHANGED <<stray, reservation>> /\ End(r)
          /\ Write(o, "reconciliation_required") \/ UNCHANGED status
      BY <1>4, <1>17, Zenon DEF FlagOrder
    <2> QED BY <1>7, <1>8, <2>1, Zenon
  <1>18. CASE Crash(r)
    <2>1. UNCHANGED <<status, reservation>> /\ End(r) BY <1>4, <1>18, Zenon DEF Crash
    <2>2. CASE stray' = stray BY <1>7, <2>1, <2>2, Zenon
    <2>3. CASE req[r].pc = "call"
      <3>1. req'[r] = NoRequest /\ \A x \in Requests \ {r} : req'[x] = req[x]
        BY <1>1, <2>1, EndStep, Zenon
      <3>2. req'[r].pc = "idle" BY <3>1 DEF NoRequest
      <3>3. \A x \in Requests : ~Past(x, o)' BY <1>5, <2>3, <3>1, <3>2, Zenon DEF Past
      <3>4. status[o] \in Transient BY <1>2, <1>5, <2>3, Zenon DEF ClaimOf
      <3> QED BY <1>3, <2>1, <3>2, <3>3, <3>4, Zenon DEF GoodsTold, Told
    <2> QED BY <1>18, <2>1, <2>2, <2>3, Zenon DEF Crash
  <1>19. req[r].pc = "begin" => reservation'[o] = reservation[o]
    BY <1>2, <1>4, Zenon DEF Work, Crash, InsertOrder, ClaimOrder, ServeCall, FailOrder,
       OpenOrder, CloseFailed, RevertClaim, SettleOrder, FlagOrder
  <1> QED
    BY <1>9, <1>10, <1>11, <1>12, <1>13, <1>14, <1>15, <1>16, <1>17, <1>18, <1>19, ZenonT(30) DEF Work

(* Every step of the system in which no call is given up on.               *)
LEMMA ToldStep ==
  ASSUME "unknown" \notin Faults, ClaimInv, AllTold, [Next]_vars,
         \A r \in Requests : ~LoseCall(r)
  PROVE  AllTold'
  <1>1. SagaTypeOK /\ ReservationTypeOK BY Zenon DEF ClaimInv, SettleInv
  <1>2. SettleInv' /\ Keeps BY SettleStep, TypeStep, Zenon DEF ClaimInv, SettleInv
  <1>3. ASSUME NEW r \in Requests, Work(r) \/ Crash(r) PROVE AllTold'
    <2>1. req[r] \in ActiveRequest
      BY <1>1, <1>3, Acting, Zenon DEF Work, Crash, InsertOrder, ClaimOrder, ServeCall,
         LoseCall, FailOrder, OpenOrder, CloseFailed, RevertClaim, SettleOrder, FlagOrder,
         NoRequest
    <2>2. PICK o \in Orders : req[r].order = o BY <2>1, Zenon DEF ActiveRequest
    <2>3. ActsLocally(r, o) BY <1>2, <1>3, <2>1, <2>2, ClaimWork, Zenon DEF Trusted
    <2>4. /\ GoodsTold(o)' /\ Told(r)'
          /\ req[r].pc = "begin" => reservation'[o] = reservation[o]
      BY <1>3, <2>1, <2>2, ToldWork, Zenon
    <2> QED BY <2>1, <2>2, <2>3, <2>4, ToldFrame, Zenon
  <1>4. ASSUME UNCHANGED <<status, req, reservation, stray>> PROVE AllTold'
    BY <1>4, Zenon DEF AllTold, GoodsTold, Told, Past
  <1>5. ASSUME NEW r \in Requests, NEW o \in Orders,
               NEW op \in {"create", "pay", "cancel"}, Begin(r, op, o)
        PROVE  AllTold'
    <2>1. /\ UNCHANGED <<status, stray, reservation>> /\ req'[r].pc = "begin"
          /\ \A x \in Requests \ {r} : req'[x] = req[x]
      BY <1>1, <1>5, Zenon DEF Begin, inventoryVars, SagaTypeOK
    <2>2. \A x \in Requests, y \in Orders : Past(x, y)' => Past(x, y)
      BY <2>1, Zenon DEF Past
    <2>3. ASSUME NEW y \in Orders PROVE GoodsTold(y)'
      <3>1. GoodsTold(y) BY Zenon DEF AllTold
      <3> QED BY <2>1, <2>2, <3>1, Zenon DEF GoodsTold
    <2>4. ASSUME NEW x \in Requests PROVE Told(x)'
      <3>1. CASE x = r BY <2>1, <3>1, Zenon DEF Told
      <3>2. CASE x # r BY <2>1, <3>2, Zenon DEF Told, AllTold
      <3> QED BY <3>1, <3>2, Zenon
    <2> QED BY <2>3, <2>4, Zenon DEF AllTold
  <1>6. ASSUME NEW o \in Orders, NEW call \in Calls, ServeStray(o, call)
        PROVE  AllTold'
    <2>1. /\ UNCHANGED <<status, req, stray>> /\ <<o, call>> \in stray
          /\ \A y \in Orders \ {o} : reservation'[y] = reservation[y]
      BY <1>1, <1>6, ServiceLocal, Zenon DEF ServeStray, sagaVars
    <2>2. status[o] \in Transient /\ \A r \in Requests : ~Past(r, o)
      BY <2>1, Zenon DEF AllTold, GoodsTold
    <2>3. ASSUME NEW y \in Orders PROVE GoodsTold(y)'
      <3>1. \A x \in Requests : Past(x, y)' <=> Past(x, y) BY <2>1, Zenon DEF Past
      <3>2. GoodsTold(y) BY Zenon DEF AllTold
      <3>3. CASE y = o BY <2>1, <2>2, <3>1, <3>2, <3>3, ZenonT(30) DEF GoodsTold, Transient
      <3>4. CASE y # o BY <2>1, <3>1, <3>2, <3>4, Zenon DEF GoodsTold
      <3> QED BY <3>3, <3>4, Zenon
    <2>4. ASSUME NEW x \in Requests PROVE Told(x)'
      <3>1. CASE req[x].pc \in {"idle", "begin"} BY <2>1, <3>1, Zenon DEF Told
      <3>2. CASE req[x].pc \notin {"idle", "begin"}
        <4>1. req[x].order \in Orders BY <1>1, <3>2, Acting, Zenon DEF ActiveRequest
        <4>2. req[x].order # o BY <2>2, <3>2, Zenon DEF Past
        <4> QED BY <2>1, <4>1, <4>2, Zenon DEF Told, AllTold
      <3> QED BY <3>1, <3>2, Zenon
    <2> QED BY <2>3, <2>4, Zenon DEF AllTold
  <1>7. ASSUME NEW o \in Orders, FinishOrder(o) PROVE AllTold'
    <2>1. /\ UNCHANGED <<req, stray, reservation>> /\ status[o] = "paid"
          /\ status'[o] = "finished" /\ \A x \in Orders \ {o} : status'[x] = status[x]
      BY <1>1, <1>7, PlainWrite, Zenon DEF FinishOrder, inventoryVars, OrderStatus
    <2>2. ASSUME NEW y \in Orders PROVE GoodsTold(y)'
      <3>1. \A x \in Requests : Past(x, y)' <=> Past(x, y) BY <2>1, Zenon DEF Past
      <3>2. GoodsTold(y) BY Zenon DEF AllTold
      <3>3. CASE y = o BY <2>1, <3>1, <3>2, <3>3, Zenon DEF GoodsTold, Transient
      <3>4. CASE y # o BY <2>1, <3>1, <3>2, <3>4, Zenon DEF GoodsTold
      <3> QED BY <3>3, <3>4, Zenon
    <2> QED BY <2>1, <2>2, Zenon DEF AllTold, Told
  <1>8. CASE StockIn \/ UNCHANGED vars
    <2>1. UNCHANGED <<status, req, reservation, stray>>
      BY <1>8, StockStep, Zenon DEF vars, sagaVars, inventoryVars
    <2> QED BY <1>4, <2>1, Zenon
  <1> QED BY <1>3, <1>5, <1>6, <1>7, <1>8, Zenon DEF Next

(* What is told is honest: held goods are those of an open order, of one   *)
(* somebody acts on, or of one that the snapshot counts.                   *)
LEMMA ToldIsHonest == ClaimInv /\ AllTold => StatusIsHonest
  <1> SUFFICES ASSUME ClaimInv, AllTold, NEW o \in Orders
               PROVE  /\ status[o] = "pending" => reservation[o] = "pending"
                      /\ status[o] = "failed" => reservation[o] \in {"none", "released"}
                      /\ reservation[o] = "pending" =>
                           \/ status[o] = "pending" \/ \E r \in Requests : Past(r, o)
                           \/ o \in Snapshot.stuck_transient \cup Snapshot.reconciliation_required
    BY Zenon DEF StatusIsHonest
  <1>1. GoodsTold(o) /\ SettlementAgrees /\ status[o] \in OrderStatus
    BY Zenon DEF ClaimInv, SettleInv, SagaTypeOK, AllTold
  <1>2. reservation[o] = "pending" =>
          status[o] \in Transient \cup {"pending", "reconciliation_required"}
    BY <1>1, Zenon DEF GoodsTold, SettlementAgrees, OrderStatus, Transient
  <1>3. /\ status[o] = "reconciliation_required" => o \in Snapshot.reconciliation_required
        /\ status[o] \in Transient /\ (\A r \in Requests : ~Past(r, o)) =>
             o \in Snapshot.stuck_transient
    BY Zenon DEF Snapshot
  <1> QED BY <1>1, <1>2, <1>3, Zenon DEF GoodsTold

(* When no commit is reported as an error, and until a call is given up    *)
(* on, pending and failed tell the truth about the stock, and stock held   *)
(* for any other order is acted on or counted by the reliability snapshot. *)
THEOREM StatusHonest ==
  ASSUME "unknown" \notin Faults PROVE Answered => []HonestWhileAnswered
  <1>1. AnsweredInit => HonestInv
    <2> SUFFICES ASSUME AnsweredInit PROVE HonestInv BY Zenon
    <2>1. Init BY Zenon DEF AnsweredInit
    <2>2. \A r \in Requests : req[r].pc = "idle" BY <2>1 DEF Init, NoRequest
    <2>3. \A o \in Orders : GoodsTold(o) BY <2>1, Zenon DEF Init, Inventory!Init, GoodsTold
    <2> QED BY <2>1, <2>2, <2>3, ClaimStart, Zenon DEF HonestInv, AllTold, Told
  <1>2. HonestInv /\ [AnsweredNext]_<<vars, gaveUp>> => HonestInv'
    <2> SUFFICES ASSUME HonestInv, [AnsweredNext]_<<vars, gaveUp>> PROVE HonestInv' BY Zenon
    <2>1. [Next]_vars BY Zenon DEF AnsweredNext
    <2>2. ClaimInv' BY <2>1, ClaimStep, Zenon DEF HonestInv, Trusted
    <2>3. ASSUME ~gaveUp' PROVE AllTold'
      <3>1. CASE AnsweredNext
        <4>1. ~gaveUp /\ \A r \in Requests : ~LoseCall(r) BY <2>3, <3>1, Zenon DEF AnsweredNext
        <4> QED BY <2>1, <4>1, ToldStep, Zenon DEF HonestInv
      <3>2. CASE UNCHANGED <<vars, gaveUp>>
        <4>1. UNCHANGED <<status, req, reservation, stray>> /\ ~gaveUp
          BY <2>3, <3>2, Zenon DEF vars, sagaVars, inventoryVars
        <4> QED BY <4>1, Zenon DEF HonestInv, AllTold, GoodsTold, Told, Past
      <3> QED BY <3>1, <3>2, Zenon
    <2> QED BY <2>2, <2>3, Zenon DEF HonestInv
  <1>3. HonestInv => HonestWhileAnswered
    BY ToldIsHonest, Zenon DEF HonestInv, HonestWhileAnswered
  <1> QED BY <1>1, <1>2, <1>3, PTL DEF Answered
=============================================================================
