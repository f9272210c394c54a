----------------------- MODULE ReconciliationProofs -----------------------
(***************************************************************************)
(* Proofs about the reconciliation workers beside the order saga, for any  *)
(* number of orders, requests and workers and under every fault: a closed  *)
(* task stays closed, and an order and its reservation agree.              *)
(***************************************************************************)
EXTENDS OrderSagaProofs, Reconciliation

(* The types of the task rows and of the workers.                          *)
WorkTypeOK ==
  /\ job \in [Orders -> [Repairs -> JobType]]
  /\ worker \in [Workers -> ActiveWorker \cup {Idle}]

Closed == {"completed", "unresolved"}

(* A closed task is leased to nobody, and waits for nothing.               *)
JobInv ==
  /\ WorkTypeOK
  /\ \A o \in Orders, p \in Repairs : job[o][p].status \in Closed =>
       job[o][p].owner = Nobody /\ ~job[o][p].live /\ job[o][p].due

(* A worker completes a payment or a cancellation only when the goods have *)
(* moved.                                                                  *)
CompletesRightly(w) ==
  worker[w].pc = "complete" =>
    /\ worker[w].at[2] = "finalize_payment" => reservation[worker[w].at[1]] = "confirmed"
    /\ worker[w].at[2] = "finalize_cancel" => reservation[worker[w].at[1]] = "released"

(* The inductive invariant behind SettlementAgrees with workers.           *)
RepairSettleInv == SettleInv /\ JobInv /\ \A w \in Workers : CompletesRightly(w)

-----------------------------------------------------------------------------
(* The task that a worker is at, and the ones it still has.                *)
LEMMA AtTask ==
  ASSUME WorkTypeOK, NEW w \in Workers, worker[w] # Idle \/ worker[w].pc # "idle"
  PROVE  /\ worker[w] \in ActiveWorker /\ worker[w] # Idle
         /\ worker[w].at \in Tasks /\ worker[w].batch \subseteq Tasks
         /\ worker[w].at[1] \in Orders /\ worker[w].at[2] \in Repairs
         /\ worker[w].at = <<worker[w].at[1], worker[w].at[2]>>
  <1>1. worker[w] \in ActiveWorker BY DEF WorkTypeOK, Idle
  <1>2. /\ worker[w].at \in Tasks /\ worker[w].batch \subseteq Tasks
        /\ worker[w].pc # "idle"
    BY <1>1, Zenon DEF ActiveWorker
  <1>3. Idle.pc = "idle" BY Zenon DEF Idle
  <1>4. worker[w].at \in Orders \X Repairs BY <1>2, Zenon DEF Tasks
  <1>5. /\ worker[w].at[1] \in Orders /\ worker[w].at[2] \in Repairs
        /\ worker[w].at = <<worker[w].at[1], worker[w].at[2]>>
    BY <1>4
  <1> QED BY <1>1, <1>2, <1>3, <1>5, Zenon

(* A worker goes on with the same task, or to another one of its batch.    *)
LEMMA WorkerAtStep ==
  ASSUME WorkTypeOK, NEW w \in Workers, worker[w] \in ActiveWorker,
         NEW pc \in {"call", "complete", "fail", "unresolve"}, WorkerAt(w, pc)
  PROVE  /\ worker' \in [Workers -> ActiveWorker \cup {Idle}]
         /\ worker'[w] # Idle /\ worker'[w].pc = pc
         /\ worker'[w].at = worker[w].at /\ worker'[w].batch = worker[w].batch
         /\ \A x \in Workers \ {w} : worker'[x] = worker[x]
  <1> DEFINE e == [worker[w] EXCEPT !.pc = pc]
  <1>1. /\ e \in ActiveWorker /\ e.pc = pc /\ e.at = worker[w].at /\ e.batch = worker[w].batch
    BY Zenon DEF ActiveWorker
  <1>2. worker' = [worker EXCEPT ![w] = e] BY Zenon DEF WorkerAt
  <1>3. e # Idle BY <1>1 DEF Idle
  <1> HIDE DEF e
  <1> QED BY <1>1, <1>2, <1>3, Zenon DEF WorkTypeOK

LEMMA TakeStep ==
  ASSUME WorkTypeOK, NEW w \in Workers, NEW b \in SUBSET Tasks, NEW t \in b,
         worker' = [worker EXCEPT ![w] = [pc |-> "load", at |-> t, batch |-> b \ {t}]]
  PROVE  /\ worker' \in [Workers -> ActiveWorker \cup {Idle}]
         /\ worker'[w] # Idle /\ worker'[w].pc = "load"
         /\ {worker'[w].at} \cup worker'[w].batch \subseteq b
         /\ \A x \in Workers \ {w} : worker'[x] = worker[x]
  <1> DEFINE e == [pc |-> "load", at |-> t, batch |-> b \ {t}]
  <1>1. e \in ActiveWorker /\ e.pc = "load" /\ e.at = t /\ e.batch = b \ {t}
    BY Zenon DEF ActiveWorker
  <1>2. e # Idle BY <1>1 DEF Idle
  <1> HIDE DEF e
  <1>3. worker' = [worker EXCEPT ![w] = e] BY Zenon DEF e
  <1>4. worker'[w] = e BY <1>3, Zenon DEF WorkTypeOK
  <1>5. {e.at} \cup e.batch \subseteq b BY <1>1, Zenon
  <1> QED BY <1>1, <1>2, <1>3, <1>4, <1>5, Zenon DEF WorkTypeOK

LEMMA IdleStep ==
  ASSUME WorkTypeOK, NEW w \in Workers, worker' = [worker EXCEPT ![w] = Idle]
  PROVE  /\ worker' \in [Workers -> ActiveWorker \cup {Idle}]
         /\ worker'[w] = Idle /\ worker'[w].pc = "idle"
         /\ \A x \in Workers \ {w} : worker'[x] = worker[x]
  <1>1. Idle.pc = "idle" BY Zenon DEF Idle
  <1> QED BY <1>1, Zenon DEF WorkTypeOK

LEMMA NextTaskStep ==
  ASSUME WorkTypeOK, NEW w \in Workers, worker[w] \in ActiveWorker, NextTask(w)
  PROVE  /\ worker' \in [Workers -> ActiveWorker \cup {Idle}]
         /\ \/ worker'[w] = Idle /\ worker'[w].pc = "idle"
            \/ /\ worker'[w] # Idle /\ worker'[w].pc = "load"
               /\ {worker'[w].at} \cup worker'[w].batch \subseteq worker[w].batch
         /\ \A x \in Workers \ {w} : worker'[x] = worker[x]
  <1>1. CASE worker' = [worker EXCEPT ![w] = Idle]
    BY <1>1, IdleStep, Zenon
  <1>2. CASE \E t \in worker[w].batch :
               worker' = [worker EXCEPT ![w] =
                 [pc |-> "load", at |-> t, batch |-> worker[w].batch \ {t}]]
    <2>1. worker[w].batch \in SUBSET Tasks BY Zenon DEF ActiveWorker
    <2> QED BY <1>2, <2>1, TakeStep, ZenonT(30)
  <1> QED BY <1>1, <1>2, Zenon DEF NextTask

(* An update WHERE lease_owner = w touches a row only if w leases it.      *)
LeasedRow(o, p, w, t, s, due) ==
  \/ job'[o][p] = job[o][p] /\ ~(o = t[1] /\ p = t[2] /\ job[o][p].owner = w)
  \/ /\ o = t[1] /\ p = t[2] /\ job[o][p].owner = w
     /\ job'[o][p].status = s /\ job'[o][p].owner = Nobody
     /\ job'[o][p].live = FALSE /\ job'[o][p].due = due

LEMMA LeasedStep ==
  ASSUME WorkTypeOK, NEW w \in Workers, NEW t \in Tasks,
         NEW s \in {"failed", "completed", "unresolved"}, NEW due \in BOOLEAN,
         job' = Leased(w, t, s, due)
  PROVE  /\ job' \in [Orders -> [Repairs -> JobType]]
         /\ \A o \in Orders, p \in Repairs : LeasedRow(o, p, w, t, s, due)
  <1> DEFINE e == [status |-> s, owner |-> Nobody, live |-> FALSE, due |-> due]
  <1>1. e \in JobType /\ e.status = s /\ e.owner = Nobody /\ e.live = FALSE /\ e.due = due
    BY Zenon DEF JobType
  <1>2. t[1] \in Orders /\ t[2] \in Repairs BY Zenon DEF Tasks
  <1>3. job' = job \/ job' = [job EXCEPT ![t[1]][t[2]] = e] BY Zenon DEF Leased
  <1>4. job[t[1]][t[2]].owner = w => job' = [job EXCEPT ![t[1]][t[2]] = e]
    BY Zenon DEF Leased
  <1>5. job[t[1]][t[2]].owner # w => job' = job BY Zenon DEF Leased
  <1> HIDE DEF e
  <1> DEFINE f == [job[t[1]] EXCEPT ![t[2]] = e]
  <1>6. f \in [Repairs -> JobType] /\ f[t[2]] = e /\ \A p \in Repairs \ {t[2]} : f[p] = job[t[1]][p]
    BY <1>1, <1>2, Zenon DEF WorkTypeOK
  <1>7. [job EXCEPT ![t[1]][t[2]] = e] = [job EXCEPT ![t[1]] = f] BY Zenon
  <1> HIDE DEF f
  <1>8. [job EXCEPT ![t[1]] = f] \in [Orders -> [Repairs -> JobType]]
    BY <1>2, <1>6, Zenon DEF WorkTypeOK
  <1>9. job' \in [Orders -> [Repairs -> JobType]] BY <1>3, <1>7, <1>8, Zenon DEF WorkTypeOK
  <1>10. CASE job[t[1]][t[2]].owner # w BY <1>5, <1>9, <1>10, Zenon DEF LeasedRow
  <1>11. CASE job[t[1]][t[2]].owner = w
    <2>1. job' = [job EXCEPT ![t[1]][t[2]] = e] BY <1>4, <1>11, Zenon
    <2>2. job'[t[1]][t[2]] = e BY <1>2, <1>6, <1>7, <2>1, Zenon DEF WorkTypeOK
    <2>3. \A o \in Orders, p \in Repairs : ~(o = t[1] /\ p = t[2]) => job'[o][p] = job[o][p]
      BY <1>2, <1>6, <1>7, <2>1, ZenonT(30) DEF WorkTypeOK
    <2> QED BY <1>1, <1>9, <1>11, <2>2, <2>3, ZenonT(30) DEF LeasedRow
  <1> QED BY <1>10, <1>11, Zenon

(* What a step may do to a row that is not closed: it keeps the status, or *)
(* ends in one of those given, and a row that is closed by it is not       *)
(* leased.                                                                 *)
RowMove(o, p, ends) ==
  \/ job'[o][p] = job[o][p]
  \/ /\ job[o][p].status \notin Closed
     /\ p \in task[o] \/ job[o][p] # NewJob
     /\ job'[o][p].status \in ends \cup {job[o][p].status}
     /\ job'[o][p].status \in Closed =>
          job'[o][p].owner = Nobody /\ ~job'[o][p].live /\ job'[o][p].due

RowsMove(ends) ==
  /\ job' \in [Orders -> [Repairs -> JobType]]
  /\ \A o \in Orders, p \in Repairs : RowMove(o, p, ends)

(* A worker that lost its lease changes no row, so none that is closed.    *)
LEMMA LeaseMoves ==
  ASSUME JobInv, NEW w \in Workers, NEW t \in Tasks,
         NEW s \in {"failed", "completed", "unresolved"}, NEW due \in BOOLEAN,
         s \in Closed => due, job' = Leased(w, t, s, due)
  PROVE  RowsMove({s})
  <1>1. WorkTypeOK BY Zenon DEF JobInv
  <1>2. w # Nobody BY NobodyAssumption, Zenon
  <1>3. NewJob.owner = Nobody BY Zenon DEF NewJob
  <1>4. /\ job' \in [Orders -> [Repairs -> JobType]]
        /\ \A o \in Orders, p \in Repairs : LeasedRow(o, p, w, t, s, due)
    BY <1>1, LeasedStep, Zenon
  <1>5. ASSUME NEW o \in Orders, NEW p \in Repairs PROVE RowMove(o, p, {s})
    <2>1. CASE job'[o][p] = job[o][p] BY <2>1, Zenon DEF RowMove
    <2>2. CASE /\ job[o][p].owner = w /\ job'[o][p].status = s
               /\ job'[o][p].owner = Nobody /\ job'[o][p].live = FALSE /\ job'[o][p].due = due
      <3>1. job[o][p].status \notin Closed BY <1>2, <2>2, Zenon DEF JobInv
      <3>2. job[o][p] # NewJob BY <1>2, <1>3, <2>2, Zenon
      <3> QED BY <2>2, <3>1, <3>2, Zenon DEF RowMove
    <2>3. LeasedRow(o, p, w, t, s, due) BY <1>4, Zenon
    <2> QED BY <2>1, <2>2, <2>3, Zenon DEF LeasedRow
  <1> QED BY <1>5, <1>4, Zenon DEF RowsMove

LEMMA QuietRows ==
  ASSUME JobInv, job' = job, NEW ends
  PROVE  RowsMove(ends)
  BY Zenon DEF JobInv, WorkTypeOK, RowsMove, RowMove

(* A claim leases tasks that exist and are open.                           *)
LEMMA ClaimMoves ==
  ASSUME JobInv, NEW w \in Workers, ClaimTasks(w)
  PROVE  /\ RowsMove({})
         /\ UNCHANGED vars
         /\ worker' \in [Workers -> ActiveWorker \cup {Idle}]
         /\ worker'[w].pc = "load"
         /\ \A t \in {worker'[w].at} \cup worker'[w].batch : t \in Tasks /\ t[2] \in task[t[1]]
         /\ \A x \in Workers \ {w} : worker'[x] = worker[x]
  <1>1. PICK batch \in SUBSET {t \in Tasks : Eligible(t[1], t[2])} :
          /\ job' = [o \in Orders |-> [p \in Repairs |->
               IF <<o, p>> \in batch THEN [job[o][p] EXCEPT !.owner = w, !.live = TRUE]
               ELSE job[o][p]]]
          /\ \E t \in batch :
               worker' = [worker EXCEPT ![w] = [pc |-> "load", at |-> t, batch |-> batch \ {t}]]
    BY Zenon DEF ClaimTasks
  <1>2. WorkTypeOK /\ batch \in SUBSET Tasks BY Zenon DEF JobInv
  <1>3. /\ worker' \in [Workers -> ActiveWorker \cup {Idle}]
        /\ worker'[w].pc = "load"
        /\ {worker'[w].at} \cup worker'[w].batch \subseteq batch
        /\ \A x \in Workers \ {w} : worker'[x] = worker[x]
    BY <1>1, <1>2, TakeStep, Zenon
  <1>4. ASSUME NEW o \in Orders, NEW p \in Repairs
        PROVE  /\ job'[o][p] \in JobType
               /\ RowMove(o, p, {})
    <2> DEFINE e == [job[o][p] EXCEPT !.owner = w, !.live = TRUE]
    <2>1. job[o][p] \in JobType BY <1>2, Zenon DEF WorkTypeOK
    <2>2. e \in JobType /\ e.status = job[o][p].status BY <2>1, Zenon DEF JobType
    <2>3. job'[o][p] = IF <<o, p>> \in batch THEN e ELSE job[o][p] BY <1>1, Zenon
    <2> HIDE DEF e
    <2>4. CASE <<o, p>> \in batch
      <3>1. Eligible(o, p)
        <4>1. Eligible(<<o, p>>[1], <<o, p>>[2]) BY <2>4, Zenon
        <4> QED BY <4>1
      <3>2. p \in task[o] /\ job[o][p].status \notin Closed
        BY <3>1, Zenon DEF Eligible, Closed
      <3> QED BY <2>2, <2>3, <2>4, <3>2, Zenon DEF RowMove
    <2>5. CASE <<o, p>> \notin batch BY <2>1, <2>3, <2>5, Zenon DEF RowMove
    <2> QED BY <2>4, <2>5, Zenon
  <1>5. job' \in [Orders -> [Repairs -> JobType]]
    <2>1. ASSUME NEW o \in Orders PROVE job'[o] \in [Repairs -> JobType]
      BY <1>1, <1>4, Zenon
    <2> QED BY <1>1, <2>1, Zenon
  <1>6. \A t \in batch : t \in Tasks /\ t[2] \in task[t[1]] BY Zenon DEF Eligible
  <1> QED BY <1>3, <1>4, <1>5, <1>6, Zenon DEF RowsMove, ClaimTasks

(* Time closes nothing.                                                    *)
LEMMA TimeMoves ==
  ASSUME JobInv, NEW o \in Orders, NEW p \in Repairs, LeaseExpires(o, p) \/ AttemptDue(o, p)
  PROVE  RowsMove({}) /\ UNCHANGED vars /\ UNCHANGED worker
  <1>1. PICK e \in JobType :
          /\ job' = [job EXCEPT ![o][p] = e] /\ e.status = job[o][p].status
          /\ job[o][p].live \/ ~job[o][p].due
    <2>1. job[o][p] \in JobType BY Zenon DEF JobInv, WorkTypeOK
    <2>2. CASE LeaseExpires(o, p)
      <3> DEFINE d == [job[o][p] EXCEPT !.live = FALSE]
      <3>1. d \in JobType /\ d.status = job[o][p].status BY <2>1, Zenon DEF JobType
      <3>2. job' = [job EXCEPT ![o][p] = d] /\ job[o][p].live BY <2>2, Zenon DEF LeaseExpires
      <3> HIDE DEF d
      <3> QED BY <3>1, <3>2, Zenon
    <2>3. CASE AttemptDue(o, p)
      <3> DEFINE d == [job[o][p] EXCEPT !.due = TRUE]
      <3>1. d \in JobType /\ d.status = job[o][p].status BY <2>1, Zenon DEF JobType
      <3>2. job' = [job EXCEPT ![o][p] = d] /\ ~job[o][p].due BY <2>3, Zenon DEF AttemptDue
      <3> HIDE DEF d
      <3> QED BY <3>1, <3>2, Zenon
    <2> QED BY <2>2, <2>3, Zenon
  <1> DEFINE f == [job[o] EXCEPT ![p] = e]
  <1>2. f \in [Repairs -> JobType] /\ f[p] = e /\ \A x \in Repairs \ {p} : f[x] = job[o][x]
    BY Zenon DEF JobInv, WorkTypeOK
  <1>3. job' = [job EXCEPT ![o] = f] BY <1>1, Zenon
  <1> HIDE DEF f
  <1>4. job' \in [Orders -> [Repairs -> JobType]] BY <1>2, <1>3, Zenon DEF JobInv, WorkTypeOK
  <1>5. job[o][p].status \notin Closed BY <1>1, Zenon DEF JobInv
  <1>6. job[o][p] # NewJob BY <1>1 DEF NewJob
  <1>7. ASSUME NEW x \in Orders, NEW y \in Repairs PROVE RowMove(x, y, {})
    <2>1. CASE x = o /\ y = p
      <3>1. job'[x][y] = e BY <1>2, <1>3, <2>1, Zenon DEF JobInv, WorkTypeOK
      <3> QED BY <1>1, <1>5, <1>6, <2>1, <3>1, Zenon DEF RowMove
    <2>2. CASE ~(x = o /\ y = p)
      <3>1. job'[x][y] = job[x][y] BY <1>2, <1>3, <2>2, Zenon DEF JobInv, WorkTypeOK
      <3> QED BY <3>1, Zenon DEF RowMove
    <2> QED BY <2>1, <2>2, Zenon
  <1> QED BY <1>4, <1>7, Zenon DEF RowsMove, LeaseExpires, AttemptDue

(* Every step of a worker, row by row.                                     *)
LEMMA RepairRows ==
  ASSUME JobInv, NEW w \in Workers, Repair(w) \/ LoseRepair(w) \/ CrashWorker(w)
  PROVE  /\ WorkTypeOK'
         /\ RowsMove({"failed", "completed", "unresolved"})
         /\ \A x \in Workers \ {w} : worker'[x] = worker[x]
         /\ UNCHANGED <<lines, req>>
  <1>1. WorkTypeOK BY Zenon DEF JobInv
  <1>2. /\ worker[w] \in ActiveWorker /\ worker[w].at \in Tasks
        /\ worker[w].at = <<worker[w].at[1], worker[w].at[2]>>
    <2>1. worker[w] # Idle \/ worker[w].pc # "idle"
      BY Zenon DEF Repair, LoadOrder, ServeRepair, CompleteTask, MarkFailed, MarkUnresolved,
         LoseRepair, CrashWorker
    <2> QED BY <1>1, <2>1, AtTask, Zenon
  <1> DEFINE all == {"failed", "completed", "unresolved"}
             Goal == /\ worker' \in [Workers -> ActiveWorker \cup {Idle}]
                     /\ RowsMove(all)
                     /\ \A x \in Workers \ {w} : worker'[x] = worker[x]
                     /\ UNCHANGED <<lines, req>>
  <1>3. UNCHANGED job => RowsMove(all) BY QuietRows, Zenon
  <1>4. UNCHANGED sagaVars => UNCHANGED <<lines, req>> BY Zenon DEF sagaVars
  <1>5. UNCHANGED vars => UNCHANGED <<lines, req>> BY Zenon DEF vars, sagaVars
  <1>6. ASSUME NEW pc \in {"call", "complete", "fail", "unresolve"}, WorkerAt(w, pc)
        PROVE  /\ worker' \in [Workers -> ActiveWorker \cup {Idle}]
               /\ \A x \in Workers \ {w} : worker'[x] = worker[x]
    BY <1>1, <1>2, <1>6, WorkerAtStep, ZenonT(30)
  <1>7. ASSUME NEW s \in all, NEW due \in BOOLEAN, s \in Closed => due,
               job' = Leased(w, worker[w].at, s, due)
        PROVE  RowsMove(all)
    <2>1. RowsMove({s}) BY <1>2, <1>7, LeaseMoves, Zenon
    <2> QED BY <2>1, ZenonT(30) DEF RowsMove, RowMove
  <1>8. CASE LoadOrder(w)
    <2>1. \E pc \in {"call", "complete", "fail", "unresolve"} : WorkerAt(w, pc)
      BY <1>8 DEF LoadOrder, Classify
    <2> QED BY <1>3, <1>5, <1>6, <1>8, <2>1, ZenonT(30) DEF LoadOrder, WorkTypeOK, RowsMove
  <1>9. CASE ServeRepair(w)
    BY <1>3, <1>4, <1>6, <1>9, Zenon DEF ServeRepair, WorkTypeOK, RowsMove
  <1>10. CASE LoseRepair(w)
    BY <1>3, <1>6, <1>10, Zenon DEF LoseRepair, WorkTypeOK, RowsMove
  <1>11. CASE CrashWorker(w)
    BY <1>1, <1>3, <1>11, IdleStep, Zenon DEF CrashWorker, WorkTypeOK, RowsMove
  <1>12. CASE CompleteTask(w)
    <2>1. job' = job \/ job' = Leased(w, worker[w].at, "completed", TRUE)
      BY <1>2, <1>12, Zenon DEF CompleteTask
    <2>2. RowsMove(all) BY <1>3, <1>7, <2>1, Zenon DEF Closed
    <2>3. NextTask(w) \/ \E pc \in {"fail", "unresolve"} : WorkerAt(w, pc)
      BY <1>12, Zenon DEF CompleteTask
    <2> QED BY <1>1, <1>2, <1>6, <1>12, <2>2, <2>3, NextTaskStep, ZenonT(30)
            DEF CompleteTask, WorkTypeOK, RowsMove
  <1>13. CASE MarkFailed(w)
    <2>1. job' = job \/ job' = Leased(w, worker[w].at, "failed", FALSE)
      BY <1>13, Zenon DEF MarkFailed
    <2>2. RowsMove(all) BY <1>3, <1>7, <2>1, Zenon DEF Closed
    <2> QED BY <1>1, <1>2, <1>5, <1>13, <2>2, NextTaskStep, ZenonT(30)
            DEF MarkFailed, WorkTypeOK, RowsMove
  <1>14. CASE MarkUnresolved(w)
    <2>1. job' = job \/ job' = Leased(w, worker[w].at, "unresolved", TRUE)
      BY <1>14, Zenon DEF MarkUnresolved
    <2>2. RowsMove(all) BY <1>3, <1>7, <2>1, Zenon DEF Closed
    <2> QED BY <1>1, <1>2, <1>5, <1>14, <2>2, NextTaskStep, ZenonT(30)
            DEF MarkUnresolved, WorkTypeOK, RowsMove
  <1> QED BY <1>8, <1>9, <1>10, <1>11, <1>12, <1>13, <1>14, ZenonT(30) DEF Repair

(* Rows that move like this leave what is closed alone.                    *)
LEMMA RowsKeep ==
  ASSUME JobInv, WorkTypeOK', NEW ends, RowsMove(ends)
  PROVE  /\ JobInv'
         /\ \A o \in Orders, p \in Repairs :
              job[o][p].status \in {"completed", "unresolved"} => job'[o][p] = job[o][p]
  <1>1. ASSUME NEW o \in Orders, NEW p \in Repairs
        PROVE  /\ job'[o][p].status \in Closed =>
                    job'[o][p].owner = Nobody /\ ~job'[o][p].live /\ job'[o][p].due
               /\ job[o][p].status \in Closed => job'[o][p] = job[o][p]
    <2>1. RowMove(o, p, ends) BY Zenon DEF RowsMove
    <2> QED BY <2>1, Zenon DEF JobInv, RowMove
  <1> QED BY <1>1, Zenon DEF JobInv, Closed

(* So does every step of the system.                                       *)
LEMMA JobStep ==
  ASSUME JobInv, [WorkerNext]_allVars
  PROVE  /\ JobInv'
         /\ \A o \in Orders, p \in Repairs :
              job[o][p].status \in {"completed", "unresolved"} => job'[o][p] = job[o][p]
  <1>1. WorkTypeOK' /\ \E ends : RowsMove(ends)
    <2>1. CASE UNCHANGED workerVars
      BY <2>1, QuietRows, Zenon DEF workerVars, JobInv, WorkTypeOK
    <2>2. ASSUME NEW w \in Workers, ClaimTasks(w) PROVE WorkTypeOK' /\ \E ends : RowsMove(ends)
      BY <2>2, ClaimMoves, Zenon DEF RowsMove, WorkTypeOK
    <2>3. ASSUME NEW w \in Workers, Repair(w) \/ LoseRepair(w) \/ CrashWorker(w)
          PROVE  WorkTypeOK' /\ \E ends : RowsMove(ends)
      BY <2>3, RepairRows, Zenon
    <2>4. ASSUME NEW o \in Orders, NEW p \in Repairs, LeaseExpires(o, p) \/ AttemptDue(o, p)
          PROVE  WorkTypeOK' /\ \E ends : RowsMove(ends)
      BY <2>4, TimeMoves, Zenon DEF RowsMove, WorkTypeOK, JobInv
    <2>5. UNCHANGED allVars => UNCHANGED workerVars BY Zenon DEF allVars
    <2> QED BY <2>1, <2>2, <2>3, <2>4, <2>5, ZenonT(30) DEF WorkerNext
  <1> QED BY <1>1, RowsKeep, Zenon

LEMMA JobStart == WorkerInit => JobInv
  <1> SUFFICES ASSUME WorkerInit PROVE JobInv BY Zenon
  <1>1. NewJob \in JobType /\ NewJob.status \notin Closed BY DEF NewJob, JobType, Closed
  <1>2. WorkTypeOK BY <1>1, Zenon DEF WorkerInit, WorkTypeOK
  <1> QED BY <1>1, <1>2, Zenon DEF WorkerInit, JobInv

(* For any number of workers and any faults, a task that was completed or  *)
(* given up is never touched again.                                        *)
THEOREM ClosedTasksStay == WorkerSpec => ClosedTaskIsFinal
  <1>1. JobInv /\ [WorkerNext]_allVars => JobInv' BY JobStep, Zenon
  <1>2. JobInv /\ [WorkerNext]_allVars =>
          [\A o \in Orders, p \in Repairs :
             job[o][p].status \in {"completed", "unresolved"} => job'[o][p] = job[o][p]]_allVars
    BY JobStep, Zenon
  <1> QED BY <1>1, <1>2, JobStart, PTL DEF WorkerSpec, ClosedTaskIsFinal

-----------------------------------------------------------------------------
(* The three repairs, value by value.                                      *)
LEMMA RepairValues ==
  /\ Repairs = {"release_inventory_and_fail", "finalize_cancel", "finalize_payment"}
  /\ Target("release_inventory_and_fail") = "failed"
  /\ Target("finalize_cancel") = "cancelled" /\ Target("finalize_payment") = "paid"
  /\ RepairCall("release_inventory_and_fail") = "release"
  /\ RepairCall("finalize_cancel") = "release" /\ RepairCall("finalize_payment") = "confirm"
  /\ \A p \in Repairs : Target(p) \in OrderStatus /\ RepairCall(p) \in Calls
  <1>1. Repairs = {"release_inventory_and_fail", "finalize_cancel", "finalize_payment"}
    BY DEF Repairs, Plans
  <1>2. /\ Target("release_inventory_and_fail") = "failed"
        /\ Target("finalize_cancel") = "cancelled" /\ Target("finalize_payment") = "paid"
    BY Zenon DEF Target
  <1>3. /\ RepairCall("release_inventory_and_fail") = "release"
        /\ RepairCall("finalize_cancel") = "release" /\ RepairCall("finalize_payment") = "confirm"
    BY Zenon DEF RepairCall
  <1> QED BY <1>1, <1>2, <1>3, Zenon DEF OrderStatus, Transient, Calls

(* How the classification comes about.                                     *)
LEMMA ClassifyValues ==
  ASSUME NEW o, NEW p \in Repairs
  PROVE  /\ Classify(o, p) = "ready" <=> status[o] = "reconciliation_required"
         /\ Classify(o, p) = "already_final" <=>
              status[o] # "reconciliation_required" /\ status[o] = Target(p)
         /\ Classify(o, p) \in {"ready", "already_final", "state_mismatch"}
  <1>1. CASE status[o] = "reconciliation_required"
    <2>1. Target(p) # "reconciliation_required" BY RepairValues, Zenon
    <2>2. Classify(o, p) = "ready" BY <1>1, <2>1, Zenon DEF Classify
    <2> QED BY <1>1, <2>2, Zenon
  <1>2. CASE status[o] # "reconciliation_required" /\ status[o] = Target(p)
    BY <1>2, Zenon DEF Classify
  <1>3. CASE status[o] # "reconciliation_required" /\ status[o] # Target(p)
    <2>1. Classify(o, p) = "state_mismatch" BY <1>3, Zenon DEF Classify
    <2> QED BY <1>3, <2>1, Zenon
  <1> QED BY <1>1, <1>2, <1>3, Zenon

(* What reading the order leads to.                                        *)
LEMMA LoadStep ==
  ASSUME WorkTypeOK, NEW w \in Workers, worker[w].at[2] \in Repairs, LoadOrder(w)
  PROVE  LET o == worker[w].at[1]
             p == worker[w].at[2]
         IN  /\ UNCHANGED vars /\ UNCHANGED job
             /\ \E pc \in {"call", "complete", "fail", "unresolve"} :
                  /\ WorkerAt(w, pc)
                  /\ pc = "complete" => status[o] = Target(p)
                  /\ pc = "unresolve" =>
                       status[o] # "reconciliation_required" /\ status[o] # Target(p)
  <1> DEFINE o == worker[w].at[1]
             p == worker[w].at[2]
             next == [ready |-> "call", already_final |-> "complete",
                      state_mismatch |-> "unresolve"]
  <1>1. \/ WorkerAt(w, next[Classify(o, p)]) \/ WorkerAt(w, "fail") BY Zenon DEF LoadOrder
  <1>2. /\ next["ready"] = "call" /\ next["already_final"] = "complete"
        /\ next["state_mismatch"] = "unresolve"
    OBVIOUS
  <1> HIDE DEF next
  <1>3. \E pc \in {"call", "complete", "fail", "unresolve"} :
          /\ WorkerAt(w, pc)
          /\ pc = "complete" => status[o] = Target(p)
          /\ pc = "unresolve" =>
               status[o] # "reconciliation_required" /\ status[o] # Target(p)
    <2>1. CASE WorkerAt(w, "fail") BY <2>1, Zenon
    <2>2. CASE WorkerAt(w, next[Classify(o, p)]) /\ Classify(o, p) = "ready"
      BY <1>2, <2>2, Zenon
    <2>3. CASE WorkerAt(w, next[Classify(o, p)]) /\ Classify(o, p) = "already_final"
      <3>1. status[o] = Target(p) BY <2>3, ClassifyValues, Zenon
      <3>2. WorkerAt(w, "complete") BY <1>2, <2>3, Zenon
      <3> QED BY <3>1, <3>2, Zenon
    <2>4. CASE WorkerAt(w, next[Classify(o, p)]) /\ Classify(o, p) = "state_mismatch"
      <3>1. status[o] # "reconciliation_required" /\ status[o] # Target(p)
        BY <2>4, Zenon DEF Classify
      <3> QED BY <1>2, <2>4, <3>1, Zenon
    <2> QED BY <1>1, <2>1, <2>2, <2>3, <2>4, ClassifyValues, ZenonT(30)
  <1> QED BY <1>3, Zenon DEF LoadOrder

(* What completing a task writes, if anything.                             *)
Completes(w, o, p) ==
  /\ job[o][p].owner = w
  /\ status[o] \in {"reconciliation_required", Target(p)}
  /\ Write(o, Target(p))
  /\ IF p # "release_inventory_and_fail" THEN CloseTimer(o) ELSE UNCHANGED timer
  /\ job' = Leased(w, <<o, p>>, "completed", TRUE)

LEMMA CompleteStep ==
  ASSUME NEW w \in Workers, worker[w].at[2] \in Repairs, CompleteTask(w)
  PROVE  LET o == worker[w].at[1]
             p == worker[w].at[2]
         IN  /\ \/ Completes(w, o, p)
                \/ UNCHANGED <<status, task, timer, job>>
             /\ \/ NextTask(w) \/ WorkerAt(w, "fail")
                \/ /\ WorkerAt(w, "unresolve")
                   /\ status[o] # "reconciliation_required" /\ status[o] # Target(p)
                   /\ UNCHANGED <<status, task, timer, job>>
             /\ UNCHANGED <<inventoryVars, lines, req, stray>>
  BY ClassifyValues, Zenon DEF CompleteTask, Completes

(* A repair keeps the types, and what the inventory service never undoes.  *)
LEMMA RepairTypes ==
  ASSUME SagaTypeOK, ReservationTypeOK, JobInv, NEW w \in Workers,
         Repair(w) \/ LoseRepair(w) \/ CrashWorker(w)
  PROVE  SagaTypeOK' /\ Keeps
  <1> DEFINE o == worker[w].at[1]
             p == worker[w].at[2]
  <1>1. o \in Orders /\ p \in Repairs /\ RepairCall(p) \in Calls /\ Target(p) \in OrderStatus
    <2>1. worker[w] # Idle \/ worker[w].pc # "idle"
      BY Zenon DEF Repair, LoadOrder, ServeRepair, CompleteTask, MarkFailed, MarkUnresolved,
         LoseRepair, CrashWorker
    <2> QED BY <2>1, AtTask, RepairValues, Zenon DEF JobInv
  <1> HIDE DEF o, p
  <1>2. UNCHANGED inventoryVars => Keeps
    BY Zenon DEF inventoryVars, ReservationTypeOK, Keeps
  <1>3. UNCHANGED sagaVars => SagaTypeOK' BY Zenon DEF sagaVars, SagaTypeOK
  <1>4. UNCHANGED vars => UNCHANGED inventoryVars /\ UNCHANGED sagaVars BY Zenon DEF vars
  <1>5. CASE LoadOrder(w) \/ MarkFailed(w) \/ MarkUnresolved(w)
    BY <1>2, <1>3, <1>4, <1>5, Zenon DEF LoadOrder, MarkFailed, MarkUnresolved
  <1>6. CASE ServeRepair(w)
    <2>1. Accepts(RepairCall(p), o) \/ Refuses(RepairCall(p), o)
      BY <1>6, Zenon DEF ServeRepair, o, p
    <2> QED BY <1>1, <1>3, <1>6, <2>1, ServiceStep, Zenon DEF ServeRepair
  <1>7. CASE LoseRepair(w) \/ CrashWorker(w)
    <2>1. /\ stray' = stray \/ stray' = stray \cup {<<o, RepairCall(p)>>}
          /\ UNCHANGED <<inventoryVars, status, lines, task, timer, req>>
      BY <1>7, Zenon DEF LoseRepair, CrashWorker, o, p
    <2>2. stray' \subseteq Orders \X Calls BY <1>1, <2>1 DEF SagaTypeOK
    <2> QED BY <1>2, <2>1, <2>2, Zenon DEF SagaTypeOK
  <1>8. CASE CompleteTask(w)
    <2>1. /\ Completes(w, o, p) \/ UNCHANGED <<status, task, timer, job>>
          /\ UNCHANGED <<inventoryVars, lines, req, stray>>
      BY <1>1, <1>8, CompleteStep, Zenon DEF o, p
    <2>2. CASE UNCHANGED <<status, task, timer, job>>
      BY <1>2, <2>1, <2>2, Zenon DEF SagaTypeOK
    <2>3. CASE Completes(w, o, p)
      <3>1. timer' \in [Orders -> {"none", "open", "completed"}]
        BY <1>1, <2>3, Zenon DEF Completes, CloseTimer, SagaTypeOK
      <3>2. status' \in [Orders -> OrderStatus] /\ task' \in [Orders -> SUBSET Plans]
        BY <1>1, <2>3, WriteType, Zenon DEF Completes
      <3> QED BY <1>2, <2>1, <3>1, <3>2, Zenon DEF SagaTypeOK
    <2> QED BY <2>1, <2>2, <2>3, Zenon
  <1> QED BY <1>5, <1>6, <1>7, <1>8, Zenon DEF Repair

(* What a goroutine knows of its call does not depend on the workers.      *)
LEMMA FitsQuietly ==
  ASSUME SettleInv, Keeps, UNCHANGED req
  PROVE  CallFits'
  <1>1. \A r \in Requests : req[r].pc # "idle" => req[r].order \in Orders
    BY Acting, Zenon DEF SettleInv, ActiveRequest
  <1> QED BY <1>1 DEF SettleInv, CallFits, Keeps, SagaTypeOK, NoRequest

(* What a worker knows about its task, when it did not move.               *)
LEMMA RightlyQuietly ==
  ASSUME RepairSettleInv, Keeps, NEW w \in Workers, worker'[w] = worker[w]
  PROVE  CompletesRightly(w)'
  <1>1. WorkTypeOK BY Zenon DEF RepairSettleInv, JobInv
  <1>2. CASE worker[w].pc # "complete" BY <1>2, Zenon DEF CompletesRightly
  <1>3. CASE worker[w].pc = "complete"
    <2>1. worker[w].at[1] \in Orders BY <1>1, <1>3, AtTask, Zenon
    <2> QED BY <1>3, <2>1, Zenon DEF RepairSettleInv, CompletesRightly, Keeps
  <1> QED BY <1>2, <1>3, Zenon

(* A step of a worker keeps the invariant.                                 *)
LEMMA RepairSettles ==
  ASSUME RepairSettleInv, NEW w \in Workers, Repair(w) \/ LoseRepair(w) \/ CrashWorker(w)
  PROVE  RepairSettleInv'
  <1> DEFINE o == worker[w].at[1]
             p == worker[w].at[2]
  <1>0. SettleInv /\ JobInv /\ SagaTypeOK /\ ReservationTypeOK /\ WorkTypeOK
    BY Zenon DEF RepairSettleInv, SettleInv, JobInv
  <1>1. /\ o \in Orders /\ p \in Repairs /\ RepairCall(p) \in Calls /\ Target(p) \in OrderStatus
        /\ worker[w] \in ActiveWorker
    <2>1. worker[w] # Idle \/ worker[w].pc # "idle"
      BY Zenon DEF Repair, LoadOrder, ServeRepair, CompleteTask, MarkFailed, MarkUnresolved,
         LoseRepair, CrashWorker
    <2> QED BY <1>0, <2>1, AtTask, RepairValues, ZenonT(30)
  <1>2. SagaTypeOK' /\ Keeps /\ ReservationTypeOK' BY <1>0, RepairTypes, Zenon DEF Keeps
  <1>3. /\ JobInv' /\ UNCHANGED req
        /\ \A x \in Workers \ {w} : worker'[x] = worker[x]
    BY <1>0, RepairRows, RowsKeep, Zenon
  <1>4. CallFits' BY <1>0, <1>2, <1>3, FitsQuietly, Zenon
  <1>5. \A x \in Workers \ {w} : CompletesRightly(x)' BY <1>2, <1>3, RightlyQuietly, Zenon
  <1>6. UNCHANGED status => SettlementAgrees'
    BY <1>2, Zenon DEF RepairSettleInv, SettleInv, SettlementAgrees, Keeps
  <1>7. worker'[w].pc # "complete" => CompletesRightly(w)' BY Zenon DEF CompletesRightly
  <1> SUFFICES SettlementAgrees' /\ CompletesRightly(w)'
    BY <1>2, <1>3, <1>4, <1>5, Zenon DEF RepairSettleInv, SettleInv
  <1> HIDE DEF o, p
  <1>8. CASE LoadOrder(w)
    <2>1. PICK pc \in {"call", "complete", "fail", "unresolve"} :
            WorkerAt(w, pc) /\ (pc = "complete" => status[o] = Target(p))
      BY <1>0, <1>1, <1>8, LoadStep, Zenon DEF o, p
    <2>2. UNCHANGED <<status, reservation>>
      BY <1>8, Zenon DEF LoadOrder, vars, sagaVars, inventoryVars
    <2>3. worker'[w].pc = pc /\ worker'[w].at = worker[w].at
      BY <1>0, <1>1, <2>1, WorkerAtStep, Zenon
    <2>4. ASSUME pc = "complete"
          PROVE  /\ p = "finalize_payment" => reservation[o] = "confirmed"
                 /\ p = "finalize_cancel" => reservation[o] = "released"
      BY <1>0, <1>1, <2>1, <2>4, RepairValues, ZenonT(30) DEF SettleInv, SettlementAgrees
    <2> QED BY <1>6, <2>2, <2>3, <2>4, Zenon DEF CompletesRightly, o, p
  <1>9. CASE ServeRepair(w)
    <2>1. UNCHANGED status BY <1>9, Zenon DEF ServeRepair, sagaVars
    <2>2. \/ Accepts(RepairCall(p), o) /\ WorkerAt(w, "complete")
          \/ WorkerAt(w, "fail")
      BY <1>9, Zenon DEF ServeRepair, o, p
    <2>3. CASE WorkerAt(w, "fail")
      <3>1. worker'[w].pc = "fail" BY <1>0, <1>1, <2>3, WorkerAtStep, Zenon
      <3> QED BY <1>6, <1>7, <2>1, <3>1, Zenon
    <2>4. CASE Accepts(RepairCall(p), o) /\ WorkerAt(w, "complete")
      <3>1. worker'[w].at = worker[w].at BY <1>0, <1>1, <2>4, WorkerAtStep, Zenon
      <3>2. /\ p = "finalize_payment" => reservation'[o] = "confirmed"
            /\ p = "finalize_cancel" => reservation'[o] = "released"
        BY <1>0, <1>1, <2>4, ServiceStep, RepairValues, ZenonT(30)
      <3> QED BY <1>6, <2>1, <3>1, <3>2, Zenon DEF CompletesRightly, o, p
    <2> QED BY <2>2, <2>3, <2>4, Zenon
  <1>10. CASE LoseRepair(w)
    <2>1. worker'[w].pc \in {"call", "fail"}
      BY <1>0, <1>1, <1>10, WorkerAtStep, Zenon DEF LoseRepair
    <2> QED BY <1>6, <1>7, <1>10, <2>1, Zenon DEF LoseRepair
  <1>11. CASE CrashWorker(w)
    <2>1. worker'[w].pc = "idle" BY <1>0, <1>11, IdleStep, Zenon DEF CrashWorker
    <2> QED BY <1>6, <1>7, <1>11, <2>1, Zenon DEF CrashWorker
  <1>12. CASE MarkFailed(w) \/ MarkUnresolved(w)
    <2>1. NextTask(w) /\ UNCHANGED status
      BY <1>12, Zenon DEF MarkFailed, MarkUnresolved, vars, sagaVars
    <2>2. worker'[w].pc \in {"idle", "load"} BY <1>0, <1>1, <2>1, NextTaskStep, Zenon
    <2> QED BY <1>6, <1>7, <2>1, <2>2, Zenon
  <1>13. CASE CompleteTask(w)
    <2>1. /\ Completes(w, o, p) \/ UNCHANGED <<status, task, timer, job>>
          /\ NextTask(w) \/ WorkerAt(w, "fail") \/ WorkerAt(w, "unresolve")
      BY <1>1, <1>13, CompleteStep, Zenon DEF o, p
    <2>2. worker'[w].pc \in {"idle", "load", "fail", "unresolve"}
      BY <1>0, <1>1, <2>1, NextTaskStep, WorkerAtStep, ZenonT(30)
    <2>3. CASE Completes(w, o, p)
      <3>1. /\ status'[o] = Target(p)
            /\ \A x \in Orders \ {o} : status'[x] = status[x]
        BY <1>0, <1>1, <2>3, WriteType, ZenonT(30) DEF Completes
      <3>2. /\ p = "finalize_payment" => reservation[o] = "confirmed"
            /\ p = "finalize_cancel" => reservation[o] = "released"
        BY <1>13, Zenon DEF RepairSettleInv, CompletesRightly, CompleteTask, o, p
      <3>3. /\ status'[o] \in {"paid", "finished"} => reservation'[o] = "confirmed"
            /\ status'[o] = "cancelled" => reservation'[o] = "released"
        BY <1>1, <1>2, <3>1, <3>2, RepairValues, ZenonT(30) DEF Keeps
      <3>4. SettlementAgrees'
        BY <1>0, <1>2, <3>1, <3>3, Zenon DEF SettleInv, SettlementAgrees, Keeps
      <3> QED BY <1>7, <2>2, <3>4, Zenon
    <2>4. CASE UNCHANGED <<status, task, timer, job>> BY <1>6, <1>7, <2>2, <2>4, ZenonT(30)
    <2> QED BY <2>1, <2>3, <2>4, Zenon
  <1> QED BY <1>8, <1>9, <1>10, <1>11, <1>12, <1>13, Zenon DEF Repair

(* So does every step of the system.                                       *)
LEMMA RepairSettleStep ==
  ASSUME RepairSettleInv, [WorkerNext]_allVars
  PROVE  RepairSettleInv'
  <1>1. JobInv' BY JobStep, Zenon DEF RepairSettleInv
  <1>2. ASSUME [Next]_vars PROVE SettleInv' /\ Keeps
    BY <1>2, SettleStep, TypeStep, Zenon DEF RepairSettleInv, SettleInv
  <1>3. CASE [Next]_vars /\ UNCHANGED worker
    <2>1. \A w \in Workers : CompletesRightly(w)' BY <1>2, <1>3, RightlyQuietly, Zenon
    <2> QED BY <1>1, <1>2, <1>3, <2>1, Zenon DEF RepairSettleInv
  <1>4. ASSUME NEW w \in Workers, ClaimTasks(w) PROVE RepairSettleInv'
    <2>1. /\ UNCHANGED vars /\ worker'[w].pc = "load"
          /\ \A x \in Workers \ {w} : worker'[x] = worker[x]
      BY <1>4, ClaimMoves, Zenon DEF RepairSettleInv
    <2>2. \A x \in Workers \ {w} : CompletesRightly(x)' BY <1>2, <2>1, RightlyQuietly, Zenon
    <2>3. CompletesRightly(w)' BY <2>1, Zenon DEF CompletesRightly
    <2> QED BY <1>1, <1>2, <2>1, <2>2, <2>3, ZenonT(30) DEF RepairSettleInv
  <1>5. ASSUME NEW o \in Orders, NEW p \in Repairs, LeaseExpires(o, p) \/ AttemptDue(o, p)
        PROVE  RepairSettleInv'
    <2>1. UNCHANGED vars /\ UNCHANGED worker BY <1>5, TimeMoves, Zenon DEF RepairSettleInv
    <2> QED BY <1>3, <2>1, Zenon
  <1>6. CASE (Next /\ UNCHANGED workerVars) \/ UNCHANGED allVars
    BY <1>3, <1>6, Zenon DEF workerVars, allVars
  <1> QED BY <1>4, <1>5, <1>6, RepairSettles, Zenon DEF WorkerNext

LEMMA RepairSettleStart == WorkerInit => RepairSettleInv
  <1> SUFFICES ASSUME WorkerInit PROVE RepairSettleInv BY Zenon
  <1>1. \A w \in Workers : worker[w].pc = "idle" BY Zenon DEF WorkerInit, Idle
  <1> QED BY <1>1, SettleStart, JobStart, Zenon DEF WorkerInit, RepairSettleInv,
             CompletesRightly

(* With the workers at work, and whatever fails, a paid order has its      *)
(* stock confirmed and a cancelled one has it released.                    *)
THEOREM RepairsSettle == WorkerSpec => []SettlementAgrees
  <1>1. RepairSettleInv => SettlementAgrees BY Zenon DEF RepairSettleInv, SettleInv
  <1>2. RepairSettleInv /\ [WorkerNext]_allVars => RepairSettleInv' BY RepairSettleStep, Zenon
  <1> QED BY <1>1, <1>2, RepairSettleStart, PTL DEF WorkerSpec
=============================================================================
