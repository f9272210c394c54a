---------------------------- MODULE RepairProofs ----------------------------
(***************************************************************************)
(* Proofs about the reconciliation workers while no saga was misled: what  *)
(* the workers can rely on, that tasks match their orders, and that all    *)
(* steps are those of OrderLife.                                           *)
(***************************************************************************)
EXTENDS ReconciliationProofs, RepairHistory

(* What a task row that exists says about its order: it is flagged, or was *)
(* and shows the outcome.                                                  *)
TaskFits(o, p) ==
  /\ p = "finalize_payment" =>
       /\ status[o] \in {"reconciliation_required", "paid", "finished"}
       /\ reservation[o] = "confirmed" /\ timer[o] # "none"
  /\ p = "finalize_cancel" =>
       /\ status[o] \in {"reconciliation_required", "cancelled"}
       /\ reservation[o] = "released" /\ timer[o] # "none"
  /\ p = "release_inventory_and_fail" =>
       /\ status[o] \in {"reconciliation_required", "failed"}
       /\ reservation[o] = "released" \/
            (reservation[o] = "pending" /\ status[o] = "reconciliation_required")
       /\ timer[o] = "none"

(* The columns of a task: it is open while its order is flagged and        *)
(* completed afterwards.                                                   *)
JobFits(o, p) ==
  /\ p \notin task[o] => job[o][p] = NewJob
  /\ p \in task[o] =>
       /\ TaskFits(o, p)
       /\ job[o][p].status \in
            IF status[o] = "reconciliation_required" THEN {"pending", "failed"} ELSE {"completed"}

(* A worker is only ever at a task that exists.  It completes one when the *)
(* goods have moved, and gives up on one only if another worker has        *)
(* completed it.                                                           *)
WorkerFits(w) ==
  worker[w] # Idle =>
    /\ \A t \in {worker[w].at} \cup worker[w].batch : t[2] \in task[t[1]]
    /\ worker[w].pc = "complete" =>
         reservation[worker[w].at[1]] =
           IF worker[w].at[2] = "finalize_payment" THEN "confirmed" ELSE "released"
    /\ worker[w].pc = "unresolve" =>
         status[worker[w].at[1]] # "reconciliation_required"

(* The inductive invariant behind TasksMatchUnlessMisled.                  *)
RepairInv ==
  /\ PromiseInv
  /\ JobInv
  /\ \A o \in Orders, p \in Repairs : JobFits(o, p)
  /\ \A w \in Workers : WorkerFits(w)

(* It holds until a saga is misled.                                        *)
UnlessMisled == misled \/ RepairInv

-----------------------------------------------------------------------------
(* The trigger only adds tasks, and only for an order that is flagged.     *)
LEMMA TaskMove ==
  ASSUME SagaTypeOK, [Next]_vars, NEW o \in Orders
  PROVE  /\ task[o] \subseteq task'[o]
         /\ task'[o] # task[o] => status'[o] = "reconciliation_required"
  <1>1. ASSUME NEW x \in Orders, NEW s \in OrderStatus, Write(x, s)
        PROVE  /\ task[o] \subseteq task'[o]
               /\ task'[o] # task[o] => status'[o] = "reconciliation_required"
    <2>1. CASE x # o BY <1>1, <2>1, WriteType, Zenon
    <2>2. CASE x = o
      <3>1. task'[o] = task[o] \/
              (s = "reconciliation_required" /\ task'[o] = task[o] \cup {PlanFor(status[o])})
        BY <1>1, <2>2, Zenon DEF Write, SagaTypeOK
      <3>2. status'[o] = s BY <1>1, <2>2, WriteType, Zenon
      <3> QED BY <3>1, <3>2, Zenon
    <2> QED BY <2>1, <2>2, Zenon
  <1>2. UNCHANGED task \/ \E x \in Orders, s \in OrderStatus : Write(x, s)
    <2>1. ASSUME NEW r \in Requests, Work(r)
          PROVE  UNCHANGED task \/ \E x \in Orders, s \in OrderStatus : Write(x, s)
      <3> USE DEF OrderStatus, Transient
      <3>1. req[r] \in ActiveRequest
        BY <2>1, Acting, Zenon DEF Work, InsertOrder, ClaimOrder, ServeCall, LoseCall,
           FailOrder, OpenOrder, CloseFailed, RevertClaim, SettleOrder, FlagOrder, NoRequest
      <3>2. req[r].order \in Orders BY <3>1, Zenon DEF ActiveRequest
      <3>3. CASE InsertOrder(r) BY <3>2, <3>3, Zenon DEF InsertOrder
      <3>4. CASE ClaimOrder(r) BY <3>2, <3>4, Zenon DEF ClaimOrder
      <3>5. CASE ServeCall(r) \/ LoseCall(r) BY <3>5, Zenon DEF ServeCall, LoseCall
      <3>6. CASE FailOrder(r) BY <3>2, <3>6, Zenon DEF FailOrder
      <3>7. CASE OpenOrder(r) BY <3>2, <3>7, Zenon DEF OpenOrder
      <3>8. CASE CloseFailed(r) BY <3>2, <3>8, Zenon DEF CloseFailed
      <3>9. CASE RevertClaim(r) BY <3>2, <3>9, Zenon DEF RevertClaim
      <3>10. CASE SettleOrder(r) BY <3>2, <3>10, Zenon DEF SettleOrder
      <3>11. CASE FlagOrder(r) BY <3>2, <3>11, Zenon DEF FlagOrder
      <3> QED BY <2>1, <3>3, <3>4, <3>5, <3>6, <3>7, <3>8, <3>9, <3>10, <3>11, ZenonT(30) DEF Work
    <2>2. ASSUME NEW x \in Orders, FinishOrder(x)
          PROVE  \E y \in Orders, s \in OrderStatus : Write(y, s)
      BY <2>2, Zenon DEF FinishOrder, OrderStatus
    <2>3. ASSUME NEW r \in Requests, NEW x \in Orders,
                 NEW op \in {"create", "pay", "cancel"}, Begin(r, op, x)
          PROVE  UNCHANGED task
      BY <2>3, Zenon DEF Begin
    <2>4. ASSUME NEW r \in Requests, Crash(r) PROVE UNCHANGED task BY <2>4, Zenon DEF Crash
    <2>5. ASSUME NEW x \in Orders, NEW call \in Calls, ServeStray(x, call) PROVE UNCHANGED task
      BY <2>5, Zenon DEF ServeStray, sagaVars
    <2>6. StockIn \/ UNCHANGED vars => UNCHANGED task BY StockStep, Zenon DEF vars, sagaVars
    <2> QED BY <2>1, <2>2, <2>3, <2>4, <2>5, <2>6, ZenonT(30) DEF Next
  <1> QED BY <1>1, <1>2, Zenon

(* A step on an order that has a task cannot disturb a request, which is   *)
(* past its claim only on orders without one.                              *)
LEMMA RepairFrame ==
  ASSUME PromiseInv, SettleInv', Keeps, UNCHANGED req, NEW o \in Orders, task[o] # {},
         \A y \in Orders \ {o} :
           /\ status'[y] = status[y] /\ task'[y] = task[y]
           /\ timer'[y] = timer[y] /\ reservation'[y] = reservation[y]
           /\ \A call \in Calls : <<y, call>> \in stray' => <<y, call>> \in stray,
         OrderFits(o)', GoodsFit(o)'
  PROVE  PromiseInv'
  <1>1. \A r \in Requests : req[r].pc \notin {"idle", "begin"} =>
          req[r].order \in Orders /\ req[r].order # o
    <2> SUFFICES ASSUME NEW r \in Requests, req[r].pc \notin {"idle", "begin"}
                 PROVE  req[r].order \in Orders /\ req[r].order # o
      BY Zenon
    <2>1. req[r].order \in Orders
      BY Acting, Zenon DEF PromiseInv, ClaimInv, SettleInv, ActiveRequest
    <2>2. status[req[r].order] \in {"reserving", "paying", "cancelling"}
      BY Zenon DEF PromiseInv, ClaimInv, HoldsClaim, ClaimOf
    <2>3. status[o] \notin {"reserving", "paying", "cancelling"}
      BY Zenon DEF PromiseInv, ClaimInv, OrderFits
    <2> QED BY <2>1, <2>2, <2>3, Zenon
  <1>2. OneRequestActs' BY Zenon DEF PromiseInv, ClaimInv, OneRequestActs, Past
  <1>3. ASSUME NEW r \in Requests PROVE HoldsClaim(r)' /\ Compensates(r)'
    <2>1. HoldsClaim(r) /\ Compensates(r) BY Zenon DEF PromiseInv, ClaimInv
    <2>2. CASE req[r].pc \in {"idle", "begin"} BY <2>2, Zenon DEF HoldsClaim, Compensates
    <2>3. CASE req[r].pc \notin {"idle", "begin"}
      <3>1. /\ status'[req[r].order] = status[req[r].order]
            /\ reservation'[req[r].order] = reservation[req[r].order]
            /\ <<req[r].order, "release">> \in stray' => <<req[r].order, "release">> \in stray
        BY <1>1, <2>3, Zenon DEF Calls
      <3> QED BY <2>1, <2>3, <3>1, Zenon DEF HoldsClaim, Compensates
    <2> QED BY <2>2, <2>3, Zenon
  <1>4. ASSUME NEW y \in Orders \ {o} PROVE OrderFits(y)' /\ GoodsFit(y)'
    <2>1. OrderFits(y) /\ GoodsFit(y) BY Zenon DEF PromiseInv, ClaimInv
    <2>2. /\ status'[y] = status[y] /\ task'[y] = task[y]
          /\ timer'[y] = timer[y] /\ reservation'[y] = reservation[y]
          /\ <<y, "confirm">> \in stray' => <<y, "confirm">> \in stray
          /\ <<y, "release">> \in stray' => <<y, "release">> \in stray
          /\ \A call \in Calls : <<y, call>> \in stray' => <<y, call>> \in stray
      BY Zenon DEF Calls
    <2>3. OrderFits(y)' BY <2>1, <2>2, Zenon DEF OrderFits
    <2>4. GoodsFit(y)' BY <2>1, <2>2, Zenon DEF GoodsFit
    <2> QED BY <2>3, <2>4, Zenon
  <1> QED BY <1>2, <1>3, <1>4, Zenon DEF PromiseInv, ClaimInv

(* An order that does not move takes a step of OrderLife.                  *)
LEMMA LifeRests ==
  ASSUME NEW o \in Orders, status'[o] = status[o], reservation'[o] = reservation[o]
  PROVE  Life!LifeStep(o)
  <1> DEFINE stage == [x \in Orders |-> StageOf(status[x])]
             goods == [x \in Orders |-> GoodsOf(reservation[x])]
  <1>1. stage'[o] = stage[o] /\ goods'[o] = goods[o] BY Zenon
  <1> QED BY <1>1, Zenon DEF Life!LifeStep

(* A row that is leased, reported failed or left alone.                    *)
LEMMA RowFits ==
  ASSUME NEW o \in Orders, NEW p \in Repairs, JobFits(o, p), RowMove(o, p, {"failed"}),
         p \in task'[o] <=> p \in task[o],
         p \in task[o] =>
           /\ status'[o] = "reconciliation_required" <=> status[o] = "reconciliation_required"
           /\ TaskFits(o, p)'
  PROVE  JobFits(o, p)'
  <1>1. CASE p \notin task[o]
    <2>1. job'[o][p] = job[o][p] BY <1>1, Zenon DEF JobFits, RowMove
    <2> QED BY <1>1, <2>1, Zenon DEF JobFits
  <1>2. CASE p \in task[o] /\ status[o] = "reconciliation_required"
    BY <1>2, Zenon DEF JobFits, RowMove
  <1>3. CASE p \in task[o] /\ status[o] # "reconciliation_required"
    BY <1>3, Zenon DEF JobFits, RowMove, Closed
  <1> QED BY <1>1, <1>2, <1>3, Zenon

(* What a worker knows about its tasks, when it did not move.              *)
LEMMA WorkerRests ==
  ASSUME WorkTypeOK, Keeps, NEW w \in Workers, WorkerFits(w), worker'[w] = worker[w],
         \A o \in Orders :
           /\ task[o] \subseteq task'[o]
           /\ task[o] # {} /\ status[o] # "reconciliation_required" =>
                status'[o] # "reconciliation_required"
  PROVE  WorkerFits(w)'
  <1>1. CASE worker[w] = Idle
    <2>1. Idle' = Idle BY Zenon DEF Idle
    <2> QED BY <1>1, <2>1, Zenon DEF WorkerFits
  <1>2. CASE worker[w] # Idle
    <2>1. /\ worker[w].at \in Tasks /\ worker[w].batch \subseteq Tasks
          /\ worker[w].at[1] \in Orders
      BY <1>2, AtTask, Zenon
    <2>2. \A t \in Tasks : t[1] \in Orders BY Zenon DEF Tasks
    <2>3. \A t \in {worker[w].at} \cup worker[w].batch : t[2] \in task'[t[1]]
      BY <1>2, <2>1, <2>2, Zenon DEF WorkerFits
    <2>4. worker[w].at[2] \in task[worker[w].at[1]] BY <1>2, Zenon DEF WorkerFits
    <2>5. worker[w].pc = "complete" =>
            reservation'[worker[w].at[1]] =
              IF worker[w].at[2] = "finalize_payment" THEN "confirmed" ELSE "released"
      BY <1>2, <2>1, Zenon DEF WorkerFits, Keeps
    <2>6. worker[w].pc = "unresolve" =>
            status'[worker[w].at[1]] # "reconciliation_required"
      BY <1>2, <2>1, <2>4, Zenon DEF WorkerFits
    <2> QED BY <2>3, <2>5, <2>6, Zenon DEF WorkerFits
  <1> QED BY <1>1, <1>2, Zenon

(* A flagged order has one task, and it fits.                              *)
LEMMA FlaggedFits ==
  ASSUME NEW o \in Orders, NEW p \in task[o], OrderFits(o),
         status[o] = "reconciliation_required"
  PROVE  TaskFits(o, p) /\ task[o] = {p}
  <1>1. CASE task[o] = {"finalize_payment"} BY <1>1, Zenon DEF OrderFits, TaskFits
  <1>2. CASE task[o] = {"finalize_cancel"} BY <1>2, Zenon DEF OrderFits, TaskFits
  <1>3. CASE task[o] = {"release_inventory_and_fail"} BY <1>3, Zenon DEF OrderFits, TaskFits
  <1> QED BY <1>1, <1>2, <1>3, Zenon DEF OrderFits

LEMMA FlaggedFitsThen ==
  ASSUME NEW o \in Orders, NEW p \in task'[o], OrderFits(o)',
         status'[o] = "reconciliation_required"
  PROVE  TaskFits(o, p)'
  <1>1. CASE task'[o] = {"finalize_payment"} BY <1>1, Zenon DEF OrderFits, TaskFits
  <1>2. CASE task'[o] = {"finalize_cancel"} BY <1>2, Zenon DEF OrderFits, TaskFits
  <1>3. CASE task'[o] = {"release_inventory_and_fail"} BY <1>3, Zenon DEF OrderFits, TaskFits
  <1> QED BY <1>1, <1>2, <1>3, ZenonT(30) DEF OrderFits

(* A step of the saga keeps what the workers rely on.                      *)
LEMMA SagaRepairs ==
  ASSUME RepairInv, Trusted, [Next]_vars, UNCHANGED worker, JobInv',
         \A o \in Orders, p \in Repairs : RowMove(o, p, {"failed"})
  PROVE  RepairInv' /\ \A o \in Orders : Life!LifeStep(o)
  <1>1. /\ PromiseInv' /\ \A o \in Orders : Life!LifeStep(o)
    BY PromiseStep, Zenon DEF RepairInv
  <1>2. \A o \in Orders : status'[o] # status[o] => <<status[o], status'[o]>> \in Edges
    BY ClaimStep, Zenon DEF RepairInv, PromiseInv
  <1>3. SagaTypeOK /\ ReservationTypeOK
    BY Zenon DEF RepairInv, PromiseInv, ClaimInv, SettleInv
  <1>4. Keeps BY <1>3, TypeStep, Zenon
  <1>5. \A o \in Orders : /\ task[o] \subseteq task'[o]
                          /\ task'[o] # task[o] => status'[o] = "reconciliation_required"
    BY <1>3, TaskMove, Zenon
  <1>6. ASSUME NEW o \in Orders, task[o] # {}
        PROVE  \/ status'[o] = status[o]
               \/ status[o] = "paid" /\ status'[o] = "finished"
    BY <1>2, <1>6, Zenon DEF RepairInv, PromiseInv, ClaimInv, OrderFits, Edges, Transient
  <1>7. ASSUME NEW w \in Workers PROVE WorkerFits(w)'
    BY <1>4, <1>5, <1>6, WorkerRests, ZenonT(30) DEF RepairInv, JobInv
  <1>8. ASSUME NEW o \in Orders, NEW p \in Repairs PROVE JobFits(o, p)'
    <2>1. JobFits(o, p) /\ OrderFits(o)' /\ RowMove(o, p, {"failed"})
      BY <1>1, Zenon DEF RepairInv, PromiseInv, ClaimInv
    <2>2. CASE p \in task'[o] /\ p \notin task[o]
      <3>1. status'[o] = "reconciliation_required" BY <1>5, <2>2, ZenonT(30)
      <3>2. TaskFits(o, p)'
        BY <2>1, <2>2, <3>1, FlaggedFitsThen, ZenonT(30)
      <3>3. job'[o][p] = NewJob /\ NewJob.status = "pending"
        BY <2>1, <2>2, Zenon DEF JobFits, RowMove, NewJob
      <3> QED BY <2>2, <3>1, <3>2, <3>3, ZenonT(30) DEF JobFits
    <2>3. CASE p \in task[o]
      <3>1. p \in task'[o] /\ TaskFits(o, p) BY <1>5, <2>1, <2>3, ZenonT(30) DEF JobFits
      <3>2. status'[o] = status[o] \/ (status[o] = "paid" /\ status'[o] = "finished")
        BY <1>6, <2>3, Zenon
      <3>3. CASE status'[o] = "reconciliation_required"
        <4>1. TaskFits(o, p)' BY <2>1, <3>1, <3>3, FlaggedFitsThen, ZenonT(30)
        <4>2. status[o] = "reconciliation_required" BY <3>2, <3>3, Zenon
        <4> QED BY <2>1, <2>3, <3>1, <3>3, <4>1, <4>2, RowFits, ZenonT(30)
      <3>4. CASE status'[o] # "reconciliation_required"
        <4>1. status[o] # "reconciliation_required" BY <3>2, <3>4, Zenon
        <4>2. reservation'[o] = reservation[o]
          BY <3>1, <1>4, <4>1, RepairValues, ZenonT(30) DEF TaskFits, Keeps
        <4>3. TaskFits(o, p)'
          BY <2>1, <3>1, <3>2, <3>4, <4>1, <4>2, ZenonT(30) DEF TaskFits, OrderFits
        <4> QED BY <2>1, <2>3, <3>1, <3>4, <4>1, <4>3, RowFits, ZenonT(30)
      <3> QED BY <3>3, <3>4, Zenon
    <2>4. CASE p \notin task'[o]
      <3>1. p \notin task[o] BY <1>5, <2>4, Zenon
      <3> QED BY <2>1, <2>4, <3>1, RowFits, ZenonT(30)
    <2> QED BY <2>2, <2>3, <2>4, ZenonT(30)
  <1> QED BY <1>1, <1>7, <1>8, Zenon DEF RepairInv

-----------------------------------------------------------------------------
(* A worker that holds a batch takes a step, or dies.                      *)
WorksOn(w) == Repair(w) \/ LoseRepair(w) \/ CrashWorker(w)

(* A worker at work on task p of order o: the task exists, and fits.       *)
Knows(w, o, p) ==
  /\ o \in Orders /\ p \in Repairs /\ p \in task[o]
  /\ worker[w] # Idle /\ worker[w] \in ActiveWorker
  /\ worker[w].at = <<o, p>> /\ worker[w].at \in Tasks
  /\ JobFits(o, p) /\ TaskFits(o, p) /\ OrderFits(o) /\ GoodsFit(o)
  /\ SettleInv' /\ JobInv' /\ Keeps /\ UNCHANGED req
  /\ \A x \in Workers \ {w} : worker'[x] = worker[x]
  /\ SagaTypeOK /\ ReservationTypeOK /\ WorkTypeOK

LEMMA WorkerKnows ==
  ASSUME RepairInv, NEW w \in Workers, WorksOn(w), NEW o, NEW p,
         o = worker[w].at[1], p = worker[w].at[2]
  PROVE  Knows(w, o, p)
  <1>0. SagaTypeOK /\ ReservationTypeOK /\ WorkTypeOK /\ JobInv /\ SettleInv
    BY Zenon DEF RepairInv, PromiseInv, ClaimInv, SettleInv, JobInv
  <1>1. worker[w] # Idle \/ worker[w].pc # "idle"
    BY Zenon DEF WorksOn, Repair, LoadOrder, ServeRepair, CompleteTask, MarkFailed,
       MarkUnresolved, LoseRepair, CrashWorker
  <1>2. /\ o \in Orders /\ p \in Repairs
        /\ worker[w] # Idle /\ worker[w] \in ActiveWorker
        /\ worker[w].at = <<o, p>> /\ worker[w].at \in Tasks
    BY <1>0, <1>1, AtTask, ZenonT(30)
  <1>3. p \in task[o] BY <1>2, Zenon DEF RepairInv, WorkerFits
  <1>4. JobFits(o, p) /\ TaskFits(o, p) /\ OrderFits(o) /\ GoodsFit(o)
    BY <1>2, <1>3, Zenon DEF RepairInv, PromiseInv, ClaimInv, JobFits
  <1>5. ASSUME NEW x \in Workers PROVE CompletesRightly(x)
    <2>0. Idle.pc # "complete" BY Zenon DEF Idle
    <2>1. CASE worker[x] = Idle BY <2>0, <2>1, Zenon DEF CompletesRightly
    <2>2. CASE worker[x] # Idle BY <2>2, Zenon DEF RepairInv, WorkerFits, CompletesRightly
    <2> QED BY <2>1, <2>2, Zenon
  <1>6. RepairSettleInv' BY <1>0, <1>5, RepairSettles, ZenonT(30) DEF RepairSettleInv, WorksOn
  <1>7. Keeps BY <1>0, RepairTypes, Zenon DEF WorksOn
  <1>8. UNCHANGED req /\ \A x \in Workers \ {w} : worker'[x] = worker[x]
    BY <1>0, RepairRows, Zenon DEF WorksOn
  <1> QED BY <1>0, <1>2, <1>3, <1>4, <1>6, <1>7, <1>8, ZenonT(30) DEF RepairSettleInv, Knows

(* What is left to show of a step of a worker: what it did to its order,   *)
(* to the row of its task, and where it went.                              *)
LEMMA WorkerFrame ==
  ASSUME RepairInv, NEW w \in Workers, WorksOn(w), PromiseInv',
         \A y \in Orders :
           /\ task'[y] = task[y]
           /\ status[y] # "reconciliation_required" => status'[y] # "reconciliation_required",
         \A y \in Orders, q \in Repairs : JobFits(y, q)',
         \/ worker'[w] = Idle
         \/ /\ {worker'[w].at} \cup worker'[w].batch \subseteq {worker[w].at} \cup worker[w].batch
            /\ worker'[w].pc = "complete" =>
                 reservation'[worker'[w].at[1]] =
                   IF worker'[w].at[2] = "finalize_payment" THEN "confirmed" ELSE "released"
            /\ worker'[w].pc = "unresolve" =>
                 status'[worker'[w].at[1]] # "reconciliation_required"
  PROVE  RepairInv'
  <1>1. /\ JobInv' /\ Keeps /\ WorkTypeOK /\ worker[w] # Idle
        /\ \A x \in Workers \ {w} : worker'[x] = worker[x]
    BY WorkerKnows, Zenon DEF Knows
  <1>2. ASSUME NEW x \in Workers \ {w} PROVE WorkerFits(x)'
    BY <1>1, WorkerRests, Zenon DEF RepairInv
  <1>3. WorkerFits(w)'
    <2>1. Idle' = Idle BY Zenon DEF Idle
    <2>2. CASE worker'[w] = Idle BY <2>1, <2>2, Zenon DEF WorkerFits
    <2>3. CASE worker'[w] # Idle
      <3>1. worker[w].at \in Tasks /\ worker[w].batch \subseteq Tasks BY <1>1, AtTask, Zenon
      <3>2. \A t \in Tasks : t[1] \in Orders BY Zenon DEF Tasks
      <3>3. \A t \in {worker[w].at} \cup worker[w].batch : t[2] \in task'[t[1]]
        BY <1>1, <3>1, <3>2, ZenonT(30) DEF RepairInv, WorkerFits
      <3>4. \A t \in {worker'[w].at} \cup worker'[w].batch : t[2] \in task'[t[1]]
        BY <2>3, <3>3, Zenon
      <3> QED BY <2>3, <3>4, Zenon DEF WorkerFits
    <2> QED BY <2>2, <2>3, Zenon
  <1> QED BY <1>1, <1>2, <1>3, ZenonT(30) DEF RepairInv

(* A worker step that leaves the orders and the stock alone.               *)
LEMMA QuietRepair ==
  ASSUME RepairInv, NEW w \in Workers, WorksOn(w), UNCHANGED vars,
         \A y \in Orders, q \in Repairs : RowMove(y, q, {"failed"}),
         \/ worker'[w] = Idle
         \/ /\ {worker'[w].at} \cup worker'[w].batch \subseteq {worker[w].at} \cup worker[w].batch
            /\ worker'[w].pc = "complete" =>
                 reservation[worker'[w].at[1]] =
                   IF worker'[w].at[2] = "finalize_payment" THEN "confirmed" ELSE "released"
            /\ worker'[w].pc = "unresolve" =>
                 status[worker'[w].at[1]] # "reconciliation_required"
  PROVE  RepairInv' /\ \A o \in Orders : Life!LifeStep(o)
  <1>1. UNCHANGED <<status, task, timer, reservation>>
    BY Zenon DEF vars, sagaVars, inventoryVars
  <1>2. Trusted BY <1>1, Zenon DEF Trusted, Misleads
  <1>3. PromiseInv' /\ \A o \in Orders : Life!LifeStep(o)
    BY <1>2, PromiseStep, Zenon DEF RepairInv
  <1>4. ASSUME NEW y \in Orders, NEW q \in Repairs PROVE JobFits(y, q)'
    <2>1. JobFits(y, q) BY Zenon DEF RepairInv
    <2>2. q \in task[y] => TaskFits(y, q)' BY <1>1, <2>1, Zenon DEF JobFits, TaskFits
    <2> QED BY <1>1, <2>1, <2>2, RowFits, ZenonT(30)
  <1> QED BY <1>1, <1>3, <1>4, WorkerFrame, ZenonT(30)

(* A call that is given up on, or whose worker dies, is under way.         *)
LEMMA SendRepair ==
  ASSUME RepairInv, NEW w \in Workers, LoseRepair(w) \/ CrashWorker(w)
  PROVE  RepairInv' /\ \A o \in Orders : Life!LifeStep(o)
  <1>0. PICK o, p : o = worker[w].at[1] /\ p = worker[w].at[2] BY Zenon
  <1>1. WorksOn(w) BY Zenon DEF WorksOn
  <1>k. Knows(w, o, p) BY <1>0, <1>1, WorkerKnows, ZenonT(30)
  <1>2. /\ o \in Orders /\ p \in Repairs /\ p \in task[o]
        /\ worker[w] \in ActiveWorker /\ WorkTypeOK
        /\ TaskFits(o, p) /\ OrderFits(o) /\ GoodsFit(o)
        /\ SettleInv' /\ Keeps
    BY <1>k, Zenon DEF Knows
  <1>3. /\ stray' \subseteq stray \cup {<<o, RepairCall(p)>>}
        /\ UNCHANGED <<inventoryVars, status, lines, task, timer, req, job>>
        /\ worker' = [worker EXCEPT ![w] = Idle] \/ WorkerAt(w, "call") \/ WorkerAt(w, "fail")
    BY <1>0, Zenon DEF LoseRepair, CrashWorker
  <1>4. UNCHANGED <<reservation, status, task, timer, job, req>>
    BY <1>3, Zenon DEF inventoryVars
  <1>5. \/ worker'[w] = Idle
        \/ /\ worker'[w].at = worker[w].at /\ worker'[w].batch = worker[w].batch
           /\ worker'[w].pc \in {"call", "fail"}
    BY <1>2, <1>3, WorkerAtStep, IdleStep, ZenonT(30)
  <1>6. PromiseInv'
    <2>1. \A y \in Orders \ {o}, call \in Calls : <<y, call>> \in stray' => <<y, call>> \in stray
      BY <1>3
    <2>2. <<o, "confirm">> \in stray' => <<o, "confirm">> \in stray \/ p = "finalize_payment"
      <3>1. RepairCall(p) = "confirm" => p = "finalize_payment" BY Zenon DEF RepairCall
      <3> QED BY <1>3, <3>1
    <2>3. OrderFits(o)' BY <1>2, <1>4, <2>2, ZenonT(30) DEF OrderFits, TaskFits
    <2>4. status[o] # "none" BY <1>2, Zenon DEF OrderFits
    <2>5. status[o] = "failed" => reservation[o] = "released"
      BY <1>2, RepairValues, ZenonT(30) DEF TaskFits
    <2>6. GoodsFit(o)' BY <1>2, <1>4, <2>4, <2>5, ZenonT(30) DEF GoodsFit
    <2> QED BY <1>2, <1>4, <2>1, <2>3, <2>6, RepairFrame, ZenonT(30) DEF RepairInv
  <1>7. ASSUME NEW y \in Orders, NEW q \in Repairs PROVE JobFits(y, q)'
    BY <1>4, Zenon DEF RepairInv, JobFits, TaskFits
  <1>8. RepairInv' BY <1>1, <1>4, <1>5, <1>6, <1>7, WorkerFrame, ZenonT(30)
  <1> QED BY <1>4, <1>8, LifeRests, ZenonT(30)

(* The inventory service moves the goods only when they are to be given    *)
(* back; the other two repairs repeat what has happened.                   *)
LEMMA ServeRepairMoves ==
  ASSUME RepairInv, NEW w \in Workers, ServeRepair(w)
  PROVE  RepairInv' /\ \A o \in Orders : Life!LifeStep(o)
  <1>0. PICK o, p : o = worker[w].at[1] /\ p = worker[w].at[2] BY Zenon
  <1>1. WorksOn(w) BY Zenon DEF WorksOn, Repair
  <1>k. Knows(w, o, p) BY <1>0, <1>1, WorkerKnows, ZenonT(30)
  <1>2. /\ o \in Orders /\ p \in Repairs /\ p \in task[o]
        /\ worker[w] \in ActiveWorker /\ WorkTypeOK /\ ReservationTypeOK
        /\ TaskFits(o, p) /\ OrderFits(o) /\ GoodsFit(o)
        /\ SettleInv' /\ Keeps
    BY <1>k, Zenon DEF Knows
  <1>3. /\ UNCHANGED <<status, task, timer, req, stray, job>>
        /\ Accepts(RepairCall(p), o) \/ Refuses(RepairCall(p), o)
        /\ \/ Accepts(RepairCall(p), o) /\ WorkerAt(w, "complete")
           \/ WorkerAt(w, "fail")
    BY <1>0, Zenon DEF ServeRepair, sagaVars
  <1>4. RepairCall(p) \in Calls BY <1>2, RepairValues, ZenonT(30)
  <1>5. \A y \in Orders \ {o} : reservation'[y] = reservation[y]
    BY <1>2, <1>3, <1>4, ServiceLocal, ZenonT(30)
  <1>6. \/ reservation'[o] = reservation[o]
        \/ /\ p = "release_inventory_and_fail" /\ status[o] = "reconciliation_required"
           /\ reservation[o] = "pending" /\ reservation'[o] = "released"
    <2>1. CASE reservation[o] \in {"confirmed", "released"} BY <1>2, <2>1, ZenonT(30) DEF Keeps
    <2>2. CASE reservation[o] = "pending" /\ Refuses(RepairCall(p), o)
      BY <2>2, Zenon DEF Refuses, inventoryVars
    <2>3. CASE reservation[o] = "pending" /\ Accepts(RepairCall(p), o)
      <3>1. p = "release_inventory_and_fail" /\ status[o] = "reconciliation_required"
        BY <1>2, <2>3, RepairValues, ZenonT(30) DEF TaskFits
      <3> QED BY <1>2, <1>4, <2>3, <3>1, ServiceStep, RepairValues, ZenonT(30)
    <2> QED BY <1>2, <1>3, <2>1, <2>2, <2>3, RepairValues, ZenonT(30) DEF TaskFits
  <1>7. TaskFits(o, p)' BY <1>2, <1>3, <1>6, Zenon DEF TaskFits
  <1>8. PromiseInv'
    <2>1. OrderFits(o)' BY <1>2, <1>3, <1>6, Zenon DEF OrderFits
    <2>2. GoodsFit(o)' BY <1>2, <1>3, <1>6, ZenonT(30) DEF GoodsFit
    <2> QED BY <1>2, <1>3, <1>5, <2>1, <2>2, RepairFrame, ZenonT(30) DEF RepairInv
  <1>9. ASSUME NEW y \in Orders, NEW q \in Repairs PROVE JobFits(y, q)'
    <2>1. JobFits(y, q) BY Zenon DEF RepairInv
    <2>2. CASE reservation'[y] = reservation[y]
      BY <1>3, <2>1, <2>2, Zenon DEF JobFits, TaskFits
    <2>3. CASE reservation'[y] # reservation[y]
      <3>1. y = o /\ status[o] = "reconciliation_required" BY <1>5, <1>6, <2>3, ZenonT(30)
      <3>2. task[o] = {p} BY <1>2, <3>1, FlaggedFits, ZenonT(30)
      <3>3. q \in task[y] => TaskFits(y, q)' BY <1>7, <3>1, <3>2, ZenonT(30)
      <3> QED BY <1>3, <2>1, <3>3, Zenon DEF JobFits
    <2> QED BY <2>2, <2>3, Zenon
  <1>10. /\ worker'[w].at = worker[w].at /\ worker'[w].batch = worker[w].batch
         /\ worker'[w].pc \in {"complete", "fail"}
         /\ worker'[w].pc = "complete" =>
              reservation'[o] = IF p = "finalize_payment" THEN "confirmed" ELSE "released"
    <2>1. CASE WorkerAt(w, "fail") BY <1>2, <2>1, WorkerAtStep, ZenonT(30)
    <2>2. CASE Accepts(RepairCall(p), o) /\ WorkerAt(w, "complete")
      <3>1. reservation'[o] = IF p = "finalize_payment" THEN "confirmed" ELSE "released"
        BY <1>2, <1>4, <2>2, ServiceStep, RepairValues, ZenonT(30)
      <3> QED BY <1>2, <2>2, <3>1, WorkerAtStep, ZenonT(30)
    <2> QED BY <1>3, <2>1, <2>2, ZenonT(30)
  <1>11. RepairInv' BY <1>0, <1>1, <1>3, <1>8, <1>9, <1>10, WorkerFrame, ZenonT(30)
  <1>12. Life!LifeStep(o)
    <2>1. CASE reservation'[o] = reservation[o] BY <1>2, <1>3, <2>1, LifeRests, ZenonT(30)
    <2>2. CASE /\ status[o] = "reconciliation_required"
               /\ reservation[o] = "pending" /\ reservation'[o] = "released"
      <3> DEFINE stage == [x \in Orders |-> StageOf(status[x])]
                 goods == [x \in Orders |-> GoodsOf(reservation[x])]
      <3>1. /\ stage[o] = "review" /\ goods[o] = "held" /\ goods'[o] = "returned"
            /\ stage'[o] = stage[o]
        BY <1>2, <1>3, <2>2, StageValues, GoodsValues, ZenonT(30)
      <3> QED BY <3>1, Zenon DEF Life!LifeStep, Life!GiveBack
    <2> QED BY <1>6, <2>1, <2>2, Zenon
  <1> QED BY <1>3, <1>5, <1>11, <1>12, LifeRests, ZenonT(30)

(* Completing a task shows the outcome of a flagged order whose goods have *)
(* moved.                                                                  *)
LEMMA CompleteMoves ==
  ASSUME RepairInv, NEW w \in Workers, CompleteTask(w), NEW o, NEW p,
         o = worker[w].at[1] /\ p = worker[w].at[2], Completes(w, o, p)
  PROVE  RepairInv' /\ \A x \in Orders : Life!LifeStep(x)
  <1>1. WorksOn(w) BY Zenon DEF WorksOn, Repair
  <1>k. Knows(w, o, p) BY <1>1, WorkerKnows, Zenon
  <1>2. /\ o \in Orders /\ p \in Repairs /\ p \in task[o]
        /\ worker[w] # Idle /\ worker[w] \in ActiveWorker
        /\ worker[w].at = <<o, p>> /\ worker[w].at \in Tasks
        /\ JobFits(o, p) /\ TaskFits(o, p) /\ OrderFits(o) /\ GoodsFit(o)
        /\ SettleInv' /\ Keeps /\ UNCHANGED req /\ WorkTypeOK /\ SagaTypeOK
    BY <1>k, Zenon DEF Knows
  <1>3. status[o] = "reconciliation_required" /\ task[o] = {p}
    <2>1. w # Nobody BY NobodyAssumption, Zenon
    <2>2. job[o][p].status \notin Closed BY <1>2, <2>1, Zenon DEF Completes, RepairInv, JobInv
    <2>3. status[o] = "reconciliation_required" BY <1>2, <2>2, Zenon DEF JobFits, Closed
    <2> QED BY <1>2, <2>3, FlaggedFits, Zenon
  <1>4. reservation[o] = IF p = "finalize_payment" THEN "confirmed" ELSE "released"
    BY <1>2, Zenon DEF RepairInv, WorkerFits, CompleteTask
  <1>5. /\ status'[o] = Target(p) /\ task'[o] = task[o]
        /\ \A x \in Orders \ {o} : status'[x] = status[x] /\ task'[x] = task[x]
    BY <1>2, PlainWrite, RepairValues, Zenon DEF Completes
  <1>6. /\ UNCHANGED <<reservation, stray>>
        /\ NextTask(w) \/ WorkerAt(w, "fail")
    <2>1. UNCHANGED <<inventoryVars, stray>> BY <1>2, CompleteStep, Zenon
    <2>2. NextTask(w) \/ WorkerAt(w, "fail") BY <1>2, <1>3, CompleteStep, Zenon
    <2> QED BY <2>1, <2>2, Zenon DEF inventoryVars
  <1>7. /\ \A x \in Orders \ {o} : timer'[x] = timer[x]
        /\ p # "release_inventory_and_fail" => timer'[o] = "completed"
        /\ p = "release_inventory_and_fail" => timer'[o] = "none"
    <2>1. timer \in [Orders -> {"none", "open", "completed"}] BY <1>2, Zenon DEF SagaTypeOK
    <2>2. CASE p = "release_inventory_and_fail"
      BY <1>2, <2>2, Zenon DEF Completes, TaskFits
    <2>3. CASE p # "release_inventory_and_fail"
      <3>1. timer[o] \in {"open", "completed"}
        BY <1>2, <2>1, <2>3, RepairValues, ZenonT(30) DEF TaskFits
      <3>2. timer' = [timer EXCEPT ![o] = IF timer[o] = "open" THEN "completed" ELSE timer[o]]
        BY <2>3, Zenon DEF Completes, CloseTimer
      <3> QED BY <1>2, <2>1, <2>3, <3>1, <3>2, ZenonT(30)
    <2> QED BY <2>2, <2>3, Zenon
  <1>8. TaskFits(o, p)'
    <2>1. reservation' = reservation BY <1>6, Zenon
    <2>2. CASE p = "finalize_payment"
      <3>1. status'[o] = "paid" BY <1>5, <2>2, RepairValues, Zenon
      <3> QED BY <1>4, <1>7, <2>1, <2>2, <3>1, ZenonT(30) DEF TaskFits
    <2>3. CASE p = "finalize_cancel"
      <3>1. status'[o] = "cancelled" BY <1>5, <2>3, RepairValues, Zenon
      <3> QED BY <1>4, <1>7, <2>1, <2>3, <3>1, ZenonT(30) DEF TaskFits
    <2>4. CASE p = "release_inventory_and_fail"
      <3>1. status'[o] = "failed" BY <1>5, <2>4, RepairValues, Zenon
      <3> QED BY <1>4, <1>7, <2>1, <2>4, <3>1, ZenonT(30) DEF TaskFits
    <2> QED BY <1>2, <2>2, <2>3, <2>4, RepairValues, Zenon
  <1>9. PromiseInv'
    <2>1. OrderFits(o)'
      <3>1. CASE p = "finalize_payment"
        BY <1>2, <1>3, <1>4, <1>5, <1>6, <1>7, <3>1, RepairValues, ZenonT(30) DEF OrderFits
      <3>2. CASE p = "finalize_cancel"
        BY <1>2, <1>3, <1>4, <1>5, <1>6, <1>7, <3>2, RepairValues, ZenonT(30) DEF OrderFits
      <3>3. CASE p = "release_inventory_and_fail"
        <4>1. timer[o] = "none" BY <1>2, <3>3, Zenon DEF TaskFits
        <4> QED BY <1>2, <1>3, <1>4, <1>5, <1>6, <1>7, <3>3, <4>1, RepairValues, ZenonT(30)
                DEF OrderFits
      <3> QED BY <1>2, <3>1, <3>2, <3>3, RepairValues, ZenonT(30)
    <2>2. GoodsFit(o)'
      <3>1. Target(p) \in {"failed", "paid", "cancelled"} BY <1>2, RepairValues, Zenon
      <3>2. Target(p) = "failed" => reservation[o] = "released"
        BY <1>2, <1>4, RepairValues, Zenon
      <3> QED BY <1>5, <1>6, <3>1, <3>2, ZenonT(30) DEF GoodsFit
    <2> QED BY <1>2, <1>5, <1>6, <1>7, <2>1, <2>2, RepairFrame, ZenonT(30) DEF RepairInv
  <1>10. ASSUME NEW y \in Orders, NEW q \in Repairs PROVE JobFits(y, q)'
    <2>1. JobFits(y, q) BY Zenon DEF RepairInv
    <2>2. LeasedRow(y, q, w, <<o, p>>, "completed", TRUE)
      BY <1>2, LeasedStep, Zenon DEF Completes
    <2>3. <<o, p>>[1] = o /\ <<o, p>>[2] = p OBVIOUS
    <2>4. CASE y = o /\ q = p
      <3>1. job'[o][p].status = "completed"
        BY <2>2, <2>3, <2>4, Zenon DEF LeasedRow, Completes
      <3>2. status'[o] # "reconciliation_required" BY <1>2, <1>5, RepairValues, ZenonT(30)
      <3> QED BY <1>2, <1>5, <1>8, <2>4, <3>1, <3>2, ZenonT(30) DEF JobFits
    <2>5. CASE ~(y = o /\ q = p)
      <3>1. job'[y][q] = job[y][q] BY <2>2, <2>3, <2>5, ZenonT(30) DEF LeasedRow
      <3>2. CASE y = o
        <4>1. q \notin task[o] BY <1>3, <2>5, <3>2, ZenonT(30)
        <4> QED BY <1>5, <2>1, <3>1, <3>2, <4>1, ZenonT(30) DEF JobFits
      <3>3. CASE y # o
        BY <1>5, <1>6, <1>7, <2>1, <3>1, <3>3, ZenonT(30) DEF JobFits, TaskFits
      <3> QED BY <3>2, <3>3, Zenon
    <2> QED BY <2>4, <2>5, Zenon
  <1>11. RepairInv'
    <2>1. Target(p) # "reconciliation_required" BY <1>2, RepairValues, Zenon
    <2>2. \/ worker'[w] = Idle
          \/ /\ {worker'[w].at} \cup worker'[w].batch \subseteq {worker[w].at} \cup worker[w].batch
             /\ worker'[w].pc \in {"load", "fail"}
      BY <1>2, <1>6, NextTaskStep, WorkerAtStep, ZenonT(30)
    <2> QED BY <1>1, <1>5, <1>9, <1>10, <2>1, <2>2, WorkerFrame, ZenonT(30)
  <1>12. Life!LifeStep(o)
    <2> DEFINE stage == [x \in Orders |-> StageOf(status[x])]
               goods == [x \in Orders |-> GoodsOf(reservation[x])]
    <2>1. stage[o] = "review" /\ goods'[o] = goods[o]
      BY <1>2, <1>3, <1>6, StageValues, ZenonT(30)
    <2>2. /\ stage'[o] = StageOf(status'[o]) /\ goods[o] = GoodsOf(reservation[o])
      BY <1>2, Zenon
    <2>3. \/ goods[o] = "sold" /\ stage'[o] = "paid"
          \/ goods[o] = "returned" /\ stage'[o] \in {"cancelled", "failed"}
      <3> HIDE DEF stage, goods
      <3>1. CASE p = "finalize_payment"
        BY <1>4, <1>5, <2>2, <3>1, RepairValues, StageValues, GoodsValues, ZenonT(30)
      <3>2. CASE p = "finalize_cancel"
        BY <1>4, <1>5, <2>2, <3>2, RepairValues, StageValues, GoodsValues, ZenonT(30)
      <3>3. CASE p = "release_inventory_and_fail"
        BY <1>4, <1>5, <2>2, <3>3, RepairValues, StageValues, GoodsValues, ZenonT(30)
      <3> QED BY <1>2, <3>1, <3>2, <3>3, RepairValues, ZenonT(30)
    <2> QED BY <2>1, <2>3, Zenon DEF Life!LifeStep, Life!Show
  <1> QED BY <1>5, <1>6, <1>11, <1>12, LifeRests, ZenonT(30)

(* Every step of a worker.                                                 *)
LEMMA WorkerMoves ==
  ASSUME RepairInv, NEW w \in Workers, WorksOn(w)
  PROVE  RepairInv' /\ \A o \in Orders : Life!LifeStep(o)
  <1>0. PICK o, p : o = worker[w].at[1] /\ p = worker[w].at[2] BY Zenon
  <1>1. Knows(w, o, p) BY <1>0, WorkerKnows, Zenon
  <1>2. /\ o \in Orders /\ p \in Repairs /\ p \in task[o]
        /\ worker[w] # Idle /\ worker[w] \in ActiveWorker
        /\ worker[w].at = <<o, p>> /\ worker[w].at \in Tasks
        /\ JobFits(o, p) /\ TaskFits(o, p) /\ WorkTypeOK
    BY <1>1, Zenon DEF Knows
  <1>3. JobInv BY Zenon DEF RepairInv
  <1>4. UNCHANGED job => \A y \in Orders, q \in Repairs : RowMove(y, q, {"failed"})
    BY Zenon DEF RowMove
  <1>5. CASE LoadOrder(w)
    <2>1. UNCHANGED vars /\ UNCHANGED job BY <1>5, Zenon DEF LoadOrder
    <2>2. PICK pc \in {"call", "complete", "fail", "unresolve"} :
            /\ WorkerAt(w, pc)
            /\ pc = "complete" => status[o] = Target(p)
            /\ pc = "unresolve" => status[o] # "reconciliation_required"
      BY <1>0, <1>2, <1>5, LoadStep, ZenonT(30)
    <2>3. worker'[w].at = worker[w].at /\ worker'[w].batch = worker[w].batch /\ worker'[w].pc = pc
      BY <1>2, <2>2, WorkerAtStep, Zenon
    <2>4. pc = "complete" =>
            reservation[o] = IF p = "finalize_payment" THEN "confirmed" ELSE "released"
      BY <1>2, <2>2, RepairValues, Zenon DEF TaskFits
    <2> QED BY <1>0, <1>4, <2>1, <2>2, <2>3, <2>4, QuietRepair, ZenonT(30)
  <1>6. CASE MarkFailed(w)
    <2>1. UNCHANGED vars /\ NextTask(w) BY <1>6, Zenon DEF MarkFailed
    <2>2. UNCHANGED job \/ job' = Leased(w, worker[w].at, "failed", FALSE)
      BY <1>6, Zenon DEF MarkFailed
    <2>3. \A y \in Orders, q \in Repairs : RowMove(y, q, {"failed"})
      BY <1>2, <1>3, <1>4, <2>2, LeaseMoves, ZenonT(30) DEF RowsMove, Closed
    <2> QED BY <1>2, <2>1, <2>3, NextTaskStep, QuietRepair, ZenonT(30)
  <1>7. CASE MarkUnresolved(w)
    <2>1. UNCHANGED vars /\ NextTask(w) BY <1>7, Zenon DEF MarkUnresolved
    <2>2. UNCHANGED job \/ job' = Leased(w, worker[w].at, "unresolved", TRUE)
      BY <1>7, Zenon DEF MarkUnresolved
    <2>3. job[o][p].owner # w
      <3>1. status[o] # "reconciliation_required"
        BY <1>0, <1>2, <1>7, ZenonT(30) DEF RepairInv, WorkerFits, MarkUnresolved
      <3>2. job[o][p].status = "completed" BY <1>2, <3>1, Zenon DEF JobFits
      <3> QED BY <1>2, <1>3, <3>2, NobodyAssumption, ZenonT(30) DEF JobInv, Closed
    <2>4. UNCHANGED job BY <1>0, <2>2, <2>3, ZenonT(30) DEF Leased
    <2> QED BY <1>2, <1>4, <2>1, <2>4, NextTaskStep, QuietRepair, ZenonT(30)
  <1>8. CASE CompleteTask(w)
    <2>1. CASE Completes(w, o, p) BY <1>0, <1>8, <2>1, CompleteMoves, ZenonT(30)
    <2>2. CASE UNCHANGED <<status, task, timer, job>>
      <3>1. UNCHANGED vars
        BY <1>8, <2>2, Zenon DEF CompleteTask, vars, sagaVars
      <3>2. \/ NextTask(w) \/ WorkerAt(w, "fail")
            \/ WorkerAt(w, "unresolve") /\ status[o] # "reconciliation_required"
        BY <1>0, <1>2, <1>8, CompleteStep, ZenonT(30)
      <3>3. CASE NextTask(w) BY <1>2, <1>4, <2>2, <3>1, <3>3, NextTaskStep, QuietRepair, ZenonT(30)
      <3>4. CASE WorkerAt(w, "fail")
        BY <1>2, <1>4, <2>2, <3>1, <3>4, WorkerAtStep, QuietRepair, ZenonT(30)
      <3>5. CASE WorkerAt(w, "unresolve") /\ status[o] # "reconciliation_required"
        BY <1>0, <1>2, <1>4, <2>2, <3>1, <3>5, WorkerAtStep, QuietRepair, ZenonT(30)
      <3> QED BY <3>2, <3>3, <3>4, <3>5, ZenonT(30)
    <2> QED BY <1>0, <1>2, <1>8, <2>1, <2>2, CompleteStep, ZenonT(30)
  <1> QED BY <1>5, <1>6, <1>7, <1>8, ServeRepairMoves, SendRepair, Zenon DEF WorksOn, Repair

(* Every step of the system, as long as no saga is misled.                 *)
LEMMA RepairStep ==
  ASSUME RepairInv, Trusted, [WorkerNext]_allVars
  PROVE  RepairInv' /\ \A o \in Orders : Life!LifeStep(o)
  <1>1. JobInv /\ JobInv' BY JobStep, Zenon DEF RepairInv
  <1>2. ASSUME [Next]_vars, UNCHANGED worker, \E ends \in {{}, {"failed"}} : RowsMove(ends)
        PROVE  RepairInv' /\ \A o \in Orders : Life!LifeStep(o)
    <2>1. \A o \in Orders, p \in Repairs : RowMove(o, p, {"failed"})
      BY <1>2, Zenon DEF RowsMove, RowMove
    <2> QED BY <1>1, <1>2, <2>1, SagaRepairs, ZenonT(30)
  <1>3. CASE (Next /\ UNCHANGED workerVars) \/ UNCHANGED allVars
    <2>1. [Next]_vars /\ UNCHANGED worker /\ UNCHANGED job
      BY <1>3, Zenon DEF workerVars, allVars
    <2>2. RowsMove({}) BY <1>1, <2>1, QuietRows, Zenon
    <2> QED BY <1>2, <2>1, <2>2, Zenon
  <1>4. ASSUME NEW o \in Orders, NEW p \in Repairs, LeaseExpires(o, p) \/ AttemptDue(o, p)
        PROVE  RepairInv' /\ \A x \in Orders : Life!LifeStep(x)
    BY <1>1, <1>2, <1>4, TimeMoves, ZenonT(30)
  <1>5. ASSUME NEW w \in Workers, ClaimTasks(w)
        PROVE  RepairInv' /\ \A x \in Orders : Life!LifeStep(x)
    <2>1. /\ RowsMove({}) /\ UNCHANGED vars /\ worker'[w].pc = "load"
          /\ \A t \in {worker'[w].at} \cup worker'[w].batch : t \in Tasks /\ t[2] \in task[t[1]]
          /\ \A x \in Workers \ {w} : worker'[x] = worker[x]
      BY <1>1, <1>5, ClaimMoves, Zenon
    <2>2. UNCHANGED <<status, task, timer, reservation>>
      BY <2>1, Zenon DEF vars, sagaVars, inventoryVars
    <2>3. PromiseInv' /\ \A o \in Orders : Life!LifeStep(o)
      BY <2>1, PromiseStep, Zenon DEF RepairInv
    <2>4. ASSUME NEW y \in Orders, NEW q \in Repairs PROVE JobFits(y, q)'
      <3>1. JobFits(y, q) /\ RowMove(y, q, {"failed"})
        BY <2>1, Zenon DEF RepairInv, RowsMove, RowMove
      <3>2. q \in task[y] => TaskFits(y, q)' BY <2>2, <3>1, Zenon DEF JobFits, TaskFits
      <3> QED BY <2>2, <3>1, <3>2, RowFits, ZenonT(30)
    <2>5. Keeps BY <2>1, TypeStep, Zenon DEF RepairInv, PromiseInv, ClaimInv, SettleInv
    <2>6. ASSUME NEW x \in Workers \ {w} PROVE WorkerFits(x)'
      BY <1>1, <2>1, <2>2, <2>5, WorkerRests, ZenonT(30) DEF RepairInv, JobInv
    <2>7. WorkerFits(w)' BY <2>1, <2>2, Zenon DEF WorkerFits
    <2> QED BY <1>1, <2>3, <2>4, <2>6, <2>7, ZenonT(30) DEF RepairInv
  <1> QED BY <1>3, <1>4, <1>5, WorkerMoves, ZenonT(30) DEF WorkerNext, WorksOn

LEMMA RepairStart == WorkerInit => RepairInv
  <1> SUFFICES ASSUME WorkerInit PROVE RepairInv BY Zenon
  <1>1. PromiseInv /\ JobInv BY PromiseStart, JobStart, Zenon DEF WorkerInit
  <1>2. ASSUME NEW o \in Orders, NEW p \in Repairs PROVE JobFits(o, p)
    BY Zenon DEF WorkerInit, Init, JobFits
  <1>3. ASSUME NEW w \in Workers PROVE WorkerFits(w) BY Zenon DEF WorkerInit, WorkerFits
  <1> QED BY <1>1, <1>2, <1>3, ZenonT(30) DEF RepairInv

(* The invariant says what the tasks of flagged orders promise.            *)
LEMMA RepairMatches == RepairInv => TasksMatchOrders
  <1> SUFFICES ASSUME RepairInv, NEW o \in Orders, NEW p \in task[o] \cap Repairs
               PROVE  CASE job[o][p].status \in {"pending", "failed"} -> Classify(o, p) = "ready"
                        [] job[o][p].status = "completed" -> Repaired(o, p)
                        [] OTHER -> FALSE
    BY Zenon DEF TasksMatchOrders
  <1>1. JobFits(o, p) /\ TaskFits(o, p) /\ OrderFits(o) /\ p \in Repairs
    BY Zenon DEF RepairInv, PromiseInv, ClaimInv, JobFits
  <1>2. CASE status[o] = "reconciliation_required"
    <2>1. job[o][p].status \in {"pending", "failed"} BY <1>1, <1>2, Zenon DEF JobFits
    <2>2. Classify(o, p) = "ready" BY <1>1, <1>2, ClassifyValues, Zenon
    <2>3. job[o][p].status # "completed" BY <2>1, Zenon
    <2> QED BY <2>1, <2>2, <2>3, Zenon
  <1>3. CASE status[o] # "reconciliation_required"
    <2>1. job[o][p].status = "completed" BY <1>1, <1>3, Zenon DEF JobFits
    <2>2. Repaired(o, p)
      <3>1. CASE p = "finalize_payment"
        BY <1>1, <1>3, <3>1, RepairValues, ZenonT(30) DEF TaskFits, OrderFits, Repaired
      <3>2. CASE p = "finalize_cancel"
        BY <1>1, <1>3, <3>2, RepairValues, ZenonT(30) DEF TaskFits, OrderFits, Repaired
      <3>3. CASE p = "release_inventory_and_fail"
        BY <1>1, <1>3, <3>3, RepairValues, ZenonT(30) DEF TaskFits, OrderFits, Repaired
      <3> QED BY <1>1, <3>1, <3>2, <3>3, RepairValues, ZenonT(30)
    <2>3. job[o][p].status \notin {"pending", "failed"} BY <2>1, Zenon
    <2> QED BY <2>1, <2>2, <2>3, Zenon
  <1> QED BY <1>2, <1>3, Zenon

LEMMA RecordedStep ==
  ASSUME UnlessMisled, [RecordedNext]_<<allVars, misled>>
  PROVE  UnlessMisled' /\ (misled' \/ \A o \in Orders : Life!LifeStep(o))
  <1>1. CASE misled
    <2>1. misled' BY <1>1, Zenon DEF RecordedNext
    <2> QED BY <2>1, Zenon DEF UnlessMisled
  <1>2. CASE ~misled /\ misled' BY <1>2, Zenon DEF UnlessMisled
  <1>3. CASE ~misled /\ ~misled'
    <2>1. RepairInv BY <1>3, Zenon DEF UnlessMisled
    <2>2. CASE RecordedNext
      <3>1. WorkerNext /\ ~Misleads BY <1>3, <2>2, Zenon DEF RecordedNext
      <3> QED BY <2>1, <3>1, RepairStep, Zenon DEF Trusted, UnlessMisled
    <2>3. CASE UNCHANGED <<allVars, misled>>
      <3>1. UNCHANGED allVars /\ UNCHANGED status
        BY <2>3, Zenon DEF allVars, vars, sagaVars
      <3>2. Trusted BY <3>1, Zenon DEF Trusted, Misleads
      <3> QED BY <2>1, <3>1, <3>2, RepairStep, ZenonT(30) DEF UnlessMisled
    <2> QED BY <2>2, <2>3, Zenon
  <1> QED BY <1>1, <1>2, <1>3, Zenon

(* As long as no saga took a committed transaction for failed: a task is   *)
(* open exactly while its order is flagged, and completed only when the    *)
(* repair has come about in both services, for any number of workers and   *)
(* any faults of theirs.                                                   *)
THEOREM TasksMatch == Recorded => []TasksMatchUnlessMisled
  <1>1. UnlessMisled => TasksMatchUnlessMisled
    BY RepairMatches, Zenon DEF UnlessMisled, TasksMatchUnlessMisled
  <1>2. RecordedInit => UnlessMisled BY RepairStart, Zenon DEF RecordedInit, UnlessMisled
  <1>3. UnlessMisled /\ [RecordedNext]_<<allVars, misled>> => UnlessMisled'
    BY RecordedStep, Zenon
  <1> QED BY <1>1, <1>2, <1>3, PTL DEF Recorded

(* And until then every step, of a saga, of a worker or of a late call, is *)
(* a step of OrderLife for every order.                                    *)
THEOREM RepairsKeepPromise == Recorded => RepairKeepsPromise
  <1>1. RecordedInit => UnlessMisled BY RepairStart, Zenon DEF RecordedInit, UnlessMisled
  <1>2. UnlessMisled /\ [RecordedNext]_<<allVars, misled>> => UnlessMisled'
    BY RecordedStep, Zenon
  <1>3. UnlessMisled /\ [RecordedNext]_<<allVars, misled>> =>
          [misled' \/ \A o \in Orders : Life!LifeStep(o)]_allVars
    BY RecordedStep, Zenon
  <1> QED BY <1>1, <1>2, <1>3, PTL DEF Recorded, RepairKeepsPromise

=============================================================================
