--------------------------- MODULE Reconciliation ---------------------------
(***************************************************************************)
(* The reconciliation workers (internal/ordersvc/reconciliation_worker.go) *)
(* composed with the order saga and the inventory service.  A worker       *)
(* leases a batch of due tasks and then repairs one order after the other: *)
(* it reads the order, repeats the inventory call and records the result.  *)
(*                                                                         *)
(* The trigger of migration 00003 creates the tasks: task[o] of OrderSaga  *)
(* is the set of actions that order o has a row for.  job[o][p] holds the  *)
(* columns of that row; before the row exists it has the values that the   *)
(* trigger inserts.  A row of an unsupported action is inserted unresolved *)
(* and no worker claims it.                                                *)
(***************************************************************************)
EXTENDS OrderSaga

CONSTANTS Workers,      \* replicas of the worker, by WorkerID
          BatchSize,    \* ReconciliationWorkerConfig.BatchSize
          WorkerFaults  \* the failures that the workers can meet in a run

(* normalized brings the batch size into its range; the durations it fills *)
(* in are moments that come in the end.                                    *)
Normalized == BatchSize \in 1..100

(* As the faults of the saga; slow: a lease runs out on a worker that is   *)
(* still at the task.                                                      *)
ASSUME WorkerAssumption ==
  /\ Normalized
  /\ WorkerFaults \subseteq {"rolledback", "unknown", "lost", "crash", "slow"}

VARIABLES job,          \* the columns of each reconciliation task
          worker        \* what each worker is doing

workerVars == <<job, worker>>

allVars == <<vars, workerVars>>

Repairs == Plans \ {"unsupported"}

Tasks == Orders \X Repairs

Nobody == "nobody"

(* NULL is not the name of a worker.                                       *)
ASSUME NobodyAssumption == Nobody \notin Workers

(* lease: live while lease_until is ahead; due: next_attempt_at has passed. *)
JobType == [status : {"pending", "failed", "completed", "unresolved"},
            owner : Workers \cup {Nobody}, live : BOOLEAN, due : BOOLEAN]

NewJob == [status |-> "pending", owner |-> Nobody, live |-> FALSE, due |-> TRUE]

(* pc: about to read the order ("load"), waiting for the inventory service *)
(* ("call"), about to complete the task ("complete"), to mark it failed    *)
(* ("fail") or to mark it unresolved ("unresolve").                        *)
Idle == [pc |-> "idle", at |-> <<"none", "none">>, batch |-> {}]

ActiveWorker == [pc : {"load", "call", "complete", "fail", "unresolve"},
                 at : Tasks, batch : SUBSET Tasks]

WorkerTypeOK ==
  /\ TypeOK
  /\ job \in [Orders -> [Repairs -> JobType]]
  /\ worker \in [Workers -> ActiveWorker \cup {Idle}]

WorkerInit ==
  /\ Init
  /\ job = [o \in Orders |-> [p \in Repairs |-> NewJob]]
  /\ worker = [w \in Workers |-> Idle]

-----------------------------------------------------------------------------
WorkerOutcomes == {"ok"} \cup (WorkerFaults \cap {"rolledback", "unknown"})

WorkerAt(w, pc) == worker' = [worker EXCEPT ![w].pc = pc]

(* The worker goes on to another task of its batch.                        *)
NextTask(w) ==
  IF worker[w].batch = {} THEN worker' = [worker EXCEPT ![w] = Idle]
  ELSE \E t \in worker[w].batch :
         worker' = [worker EXCEPT ![w] = [pc |-> "load", at |-> t, batch |-> @.batch \ {t}]]

(* The row of task t as an update WHERE lease_owner = w leaves it.         *)
Leased(w, t, s, due) ==
  IF job[t[1]][t[2]].owner = w
    THEN [job EXCEPT ![t[1]][t[2]] = [status |-> s, owner |-> Nobody, live |-> FALSE, due |-> due]]
    ELSE job

(* reconciliationTargetState, and the call that gets there.                *)
Target(p) ==
  CASE p = "release_inventory_and_fail" -> "failed"
    [] p = "finalize_cancel" -> "cancelled"
    [] p = "finalize_payment" -> "paid"

(* Mutant of RepairCall: only a cancellation is taken to give stock back.  *)
RepairCallConfirms(p) == IF p = "finalize_cancel" THEN "release" ELSE "confirm"

RepairCall(p) == IF p = "finalize_payment" THEN "confirm" ELSE "release"

(* planReconciliation, the classification that a dry run reports.          *)
Classify(o, p) ==
  CASE status[o] = "reconciliation_required" -> "ready"
    [] status[o] = Target(p) -> "already_final"
    [] OTHER -> "state_mismatch"

(* Mutants of Eligible: failed tasks are not tried again, and closed tasks *)
(* are selected like open ones.                                            *)
EligibleOnce(o, p) == p \in task[o] /\ job[o][p].status = "pending" /\ ~job[o][p].live

EligibleAny(o, p) == p \in task[o] /\ job[o][p].due /\ ~job[o][p].live

(* The tasks that claim, and a dry run, select.                            *)
Eligible(o, p) ==
  /\ p \in task[o]
  /\ job[o][p].status \in {"pending", "failed"}
  /\ job[o][p].due
  /\ ~job[o][p].live

(* claim: rows that another claiming transaction has locked are skipped,   *)
(* so the batch need not be all of them.                                   *)
ClaimTasks(w) ==
  /\ worker[w] = Idle
  /\ \E batch \in SUBSET {t \in Tasks : Eligible(t[1], t[2])} :
       /\ batch # {} /\ Cardinality(batch) <= BatchSize
       /\ job' = [o \in Orders |-> [p \in Repairs |->
            IF <<o, p>> \in batch THEN [job[o][p] EXCEPT !.owner = w, !.live = TRUE]
            ELSE job[o][p]]]
       /\ \E t \in batch :
            worker' = [worker EXCEPT ![w] = [pc |-> "load", at |-> t, batch |-> batch \ {t}]]
  /\ UNCHANGED vars

(* processTask reads the order and decides by its status.                  *)
LoadOrder(w) ==
  LET o == worker[w].at[1]
      p == worker[w].at[2]
      next == [ready |-> "call", already_final |-> "complete", state_mismatch |-> "unresolve"]
  IN  /\ worker[w].pc = "load"
      /\ \/ WorkerAt(w, next[Classify(o, p)])
         \/ "rolledback" \in WorkerFaults /\ WorkerAt(w, "fail")
      /\ UNCHANGED <<vars, job>>

(* The inventory service runs the call.                                    *)
ServeRepair(w) ==
  LET o == worker[w].at[1]
      call == RepairCall(worker[w].at[2])
  IN  /\ worker[w].pc = "call"
      /\ \/ Accepts(call, o) /\ WorkerAt(w, "complete")
         \/ Refuses(call, o) /\ WorkerAt(w, "fail")
      /\ UNCHANGED <<sagaVars, job>>

(* The call fails in transport after its last attempt; the server may      *)
(* still run it.  Until then the executor repeats it.                      *)
LoseRepair(w) ==
  /\ "lost" \in WorkerFaults
  /\ worker[w].pc = "call"
  /\ stray' = stray \cup {<<worker[w].at[1], RepairCall(worker[w].at[2])>>}
  /\ WorkerAt(w, "call") \/ WorkerAt(w, "fail")
  /\ UNCHANGED <<inventoryVars, status, lines, task, timer, req, job>>

(* Mutant of CompleteTask: the order is not written.                       *)
CompleteTaskOnly(w) ==
  /\ worker[w].pc = "complete"
  /\ job' = Leased(w, worker[w].at, "completed", TRUE)
  /\ NextTask(w)
  /\ UNCHANGED vars

(* completeTask: order, timeout row and task in one transaction, which is  *)
(* rolled back when the order is in neither status or the lease is lost.   *)
CompleteTask(w) ==
  LET o == worker[w].at[1]
      p == worker[w].at[2]
      fits == Classify(o, p) # "state_mismatch"
      mine == job[o][p].owner = w
  IN  /\ worker[w].pc = "complete"
      /\ \E outcome \in WorkerOutcomes :
           /\ IF fits /\ mine /\ outcome # "rolledback"
                THEN /\ Write(o, Target(p))
                     /\ IF p # "release_inventory_and_fail" THEN CloseTimer(o) ELSE UNCHANGED timer
                     /\ job' = Leased(w, <<o, p>>, "completed", TRUE)
                ELSE UNCHANGED <<status, task, timer, job>>
           /\ CASE outcome # "ok" -> WorkerAt(w, "fail")
                [] outcome = "ok" /\ ~fits -> WorkerAt(w, "unresolve")
                [] outcome = "ok" /\ fits /\ ~mine -> WorkerAt(w, "fail")
                [] OTHER -> NextTask(w)
      /\ UNCHANGED <<inventoryVars, lines, req, stray>>

(* markFailed and markUnresolved; an error of the update is only logged.   *)
MarkFailed(w) ==
  /\ worker[w].pc = "fail"
  /\ \E outcome \in WorkerOutcomes :
       job' = IF outcome = "rolledback" THEN job ELSE Leased(w, worker[w].at, "failed", FALSE)
  /\ NextTask(w)
  /\ UNCHANGED vars

MarkUnresolved(w) ==
  /\ worker[w].pc = "unresolve"
  /\ \E outcome \in WorkerOutcomes :
       job' = IF outcome = "rolledback" THEN job ELSE Leased(w, worker[w].at, "unresolved", TRUE)
  /\ NextTask(w)
  /\ UNCHANGED vars

(* The worker dies with its leases; a call may still be served.            *)
CrashWorker(w) ==
  /\ "crash" \in WorkerFaults
  /\ worker[w] # Idle
  /\ stray' = IF worker[w].pc = "call"
                THEN stray \cup {<<worker[w].at[1], RepairCall(worker[w].at[2])>>} ELSE stray
  /\ worker' = [worker EXCEPT ![w] = Idle]
  /\ UNCHANGED <<inventoryVars, status, lines, task, timer, req, job>>

-----------------------------------------------------------------------------
(* A worker is at the task, or still to come to it.                        *)
Busy(o, p) == \E w \in Workers : <<o, p>> \in {worker[w].at} \cup worker[w].batch

(* Time: a lease runs out, a retry delay ends.                             *)
LeaseExpires(o, p) ==
  /\ job[o][p].live
  /\ \/ "slow" \in WorkerFaults
     \/ ~Busy(o, p)
  /\ job' = [job EXCEPT ![o][p].live = FALSE]
  /\ UNCHANGED <<vars, worker>>

AttemptDue(o, p) ==
  /\ ~job[o][p].due
  /\ job' = [job EXCEPT ![o][p].due = TRUE]
  /\ UNCHANGED <<vars, worker>>

Repair(w) ==
  \/ LoadOrder(w) \/ ServeRepair(w) \/ CompleteTask(w) \/ MarkFailed(w) \/ MarkUnresolved(w)

WorkerNext ==
  \/ Next /\ UNCHANGED workerVars
  \/ \E w \in Workers : ClaimTasks(w) \/ Repair(w) \/ LoseRepair(w) \/ CrashWorker(w)
  \/ \E o \in Orders, p \in Repairs : LeaseExpires(o, p) \/ AttemptDue(o, p)

WorkerSpec == WorkerInit /\ [][WorkerNext]_allVars

(* Workers poll and report what went wrong; delays end.  What is tried     *)
(* again and again works out in the end: a worker is not killed, and the   *)
(* database and the inventory service do not fail, every time.  Nothing is *)
(* asked of the requests of order-service.                                 *)
WorkerFairness ==
  /\ WF_allVars(\E o \in Orders, p \in Repairs : LeaseExpires(o, p) \/ AttemptDue(o, p))
  /\ \A w \in Workers : WF_allVars(MarkFailed(w) \/ MarkUnresolved(w))
  /\ SF_allVars(\E w \in Workers : ClaimTasks(w))
  /\ SF_allVars(\E w \in Workers : LoadOrder(w) /\ worker'[w].pc # "fail")
  /\ SF_allVars(\E w \in Workers : ServeRepair(w) /\ worker'[w].pc # "fail")
  /\ SF_allVars(\E w \in Workers : CompleteTask(w) /\ worker'[w].pc # "fail")

-----------------------------------------------------------------------------
(* The repair of task p of order o has come about, in both services.       *)
Repaired(o, p) ==
  /\ status[o] = Target(p) \/ (p = "finalize_payment" /\ status[o] = "finished")
  /\ reservation[o] = IF p = "finalize_payment" THEN "confirmed" ELSE "released"
  /\ timer[o] # "open"

(* A task is open exactly while its order is flagged, and when it is       *)
(* completed its repair has come about.  So a dry run lists only tasks     *)
(* that are ready, and no worker meets a state mismatch, although leases   *)
(* run out, workers die between the inventory call and the local           *)
(* transaction, and two workers repair the same order.                     *)
TasksMatchOrders ==
  \A o \in Orders : \A p \in task[o] \cap Repairs :
    CASE job[o][p].status \in {"pending", "failed"} -> Classify(o, p) = "ready"
      [] job[o][p].status = "completed" -> Repaired(o, p)
      [] OTHER -> FALSE

(* A task that was completed or given up is never touched again: a worker  *)
(* that lost its lease cannot reopen what another one has closed.          *)
ClosedTaskIsFinal ==
  [][\A o \in Orders, p \in Repairs :
       job[o][p].status \in {"completed", "unresolved"} => job'[o][p] = job[o][p]]_allVars
=============================================================================
