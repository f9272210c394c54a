---------------------------- MODULE TimeoutOutbox ----------------------------
(***************************************************************************)
(* The timeout of pending orders: the outbox rows of order-service, the    *)
(* worker replicas (internal/ordersvc/worker.go, publisher_confirm.go) and *)
(* RabbitMQ with its delay and cancel queues.                              *)
(*                                                                         *)
(* Of an order only what matters here is kept, the phases of OrderTimer:   *)
(* it is pending, claimed by a Pay or cancel saga ("busy"), flagged for    *)
(* repair or closed.  OrderSaga has the rest.  A worker is one goroutine,  *)
(* which claims and publishes a batch or handles one delivery at a time.   *)
(* Time is the freedom of leases, retry delays and message TTLs to run out *)
(* at any moment.                                                          *)
(***************************************************************************)
EXTENDS Integers, FiniteSets

CONSTANTS Orders,       \* orders, each with at most one outbox row
          Workers,      \* worker replicas, by WorkerID
          BatchSize,    \* WorkerConfig.BatchSize
          MaxFailures   \* bound: failures of the environment in a behaviour

(* NewWorker replaces a batch size that is not positive; the durations it  *)
(* replaces likewise are moments that come in the end.                     *)
Normalized == BatchSize \in Nat \ {0}

ASSUME OutboxAssumption == Normalized /\ MaxFailures \in Nat

(* The owner of a row without a lease (NULL).                              *)
Nobody == "nobody"

(* The replicas are some number of processes.                              *)
ASSUME WorkersAssumption == IsFiniteSet(Workers) /\ Nobody \notin Workers

VARIABLES order,        \* "none", "pending", "busy", "flagged" or "closed"
          row,          \* the order_timeout_outbox_v2 row of each order
          delay,        \* messages of the order in the delay queue
          ready,        \* messages of the order in the cancel queue
          worker,       \* what each worker is doing
          failures,     \* failures so far
          waived        \* orders whose timeout came while a saga held them

vars == <<order, row, delay, ready, worker, failures, waived>>

RowStatus == {"none", "pending", "published", "failed", "completed"}

(* lease: no one's, running or run out; due: next_attempt_at has passed.   *)
RowType == [status : RowStatus, owner : Workers \cup {Nobody},
            live : BOOLEAN, due : BOOLEAN]

(* pc of a worker: between events ("idle"); publishing the event "at" of   *)
(* its batch, told of success ("acked") or of an error ("failing"), giving *)
(* the rest of the batch back ("releasing"); or handling a delivery: about *)
(* to call order-service ("delivered"), waiting for it ("waiting"),        *)
(* refused ("refused"), told that the order is resolved ("resolved"), or   *)
(* about to acknowledge ("acking").                                        *)
Publishing == {"publishing", "acked", "failing", "releasing"}

Handling == {"delivered", "waiting", "refused", "resolved", "acking"}

NoOrder == "no order"

Idle == [pc |-> "idle", at |-> NoOrder, batch |-> {}]

TypeOK ==
  /\ order \in [Orders -> {"none", "pending", "busy", "flagged", "closed"}]
  /\ row \in [Orders -> RowType]
  /\ delay \in [Orders -> Nat]
  /\ ready \in [Orders -> Nat]
  /\ worker \in [Workers -> [pc : {"idle"} \cup Publishing \cup Handling,
                             at : Orders \cup {NoOrder},
                             batch : SUBSET Orders]]
  /\ failures \in 0..MaxFailures
  /\ waived \subseteq Orders

Init ==
  /\ order = [o \in Orders |-> "none"]
  /\ row = [o \in Orders |-> [status |-> "none", owner |-> Nobody,
                              live |-> FALSE, due |-> TRUE]]
  /\ delay = [o \in Orders |-> 0]
  /\ ready = [o \in Orders |-> 0]
  /\ worker = [w \in Workers |-> Idle]
  /\ failures = 0
  /\ waived = {}

-----------------------------------------------------------------------------
(* One of the failures that the environment is allowed.                    *)
Fail == failures < MaxFailures /\ failures' = failures + 1

At(w, pc) == worker' = [worker EXCEPT ![w].pc = pc]

Stop(w) == worker' = [worker EXCEPT ![w] = Idle]

(* The worker waiting for order-service to cancel o, if any, is answered.  *)
Answer(o, pc) ==
  worker' = [w \in Workers |->
    IF worker[w].pc = "waiting" /\ worker[w].at = o
      THEN [worker[w] EXCEPT !.pc = pc] ELSE worker[w]]

-----------------------------------------------------------------------------
(* Order-service.  Create opens the order and inserts the outbox row in    *)
(* one transaction.                                                        *)
Open(o) ==
  /\ order[o] = "none"
  /\ order' = [order EXCEPT ![o] = "pending"]
  /\ row' = [row EXCEPT ![o].status = "pending"]
  /\ UNCHANGED <<delay, ready, worker, failures, waived>>

(* A client's Pay or cancel moves the order on.                            *)
Claim(o) ==
  /\ order[o] = "pending"
  /\ order' = [order EXCEPT ![o] = "busy"]
  /\ UNCHANGED <<row, delay, ready, worker, failures, waived>>

(* The saga settles the order and completes its row, whoever leases it.    *)
Settle(o) ==
  /\ order[o] = "busy"
  /\ order' = [order EXCEPT ![o] = "closed"]
  /\ row' = [row EXCEPT ![o].status = "completed"]
  /\ Answer(o, "resolved")
  /\ UNCHANGED <<delay, ready, failures, waived>>

(* The saga cannot record its result and flags the order; the row stays.   *)
Flag(o) ==
  /\ order[o] = "busy"
  /\ Fail
  /\ order' = [order EXCEPT ![o] = "flagged"]
  /\ Answer(o, "refused")
  /\ UNCHANGED <<row, delay, ready, waived>>

(* The call to the inventory service failed: the order is pending again.   *)
Revert(o) ==
  /\ order[o] = "busy"
  /\ Fail
  /\ order' = [order EXCEPT ![o] = "pending"]
  /\ Answer(o, "refused")
  /\ UNCHANGED <<row, delay, ready, waived>>

(* A reconciliation worker settles a flagged order, and its row.           *)
Repair(o) ==
  /\ order[o] = "flagged"
  /\ order' = [order EXCEPT ![o] = "closed"]
  /\ row' = [row EXCEPT ![o].status = "completed"]
  /\ UNCHANGED <<delay, ready, worker, failures, waived>>

-----------------------------------------------------------------------------
(* Mutant of Claimable: a lease that is still running is not respected.    *)
ClaimableLeased(o) == row[o].status \in {"pending", "failed"} /\ row[o].due

(* claimPending: rows to publish that nobody holds a running lease on.     *)
Claimable(o) ==
  /\ row[o].status \in {"pending", "failed"}
  /\ row[o].due
  /\ ~row[o].live

(* The batch is leased in one transaction; rows that another claiming      *)
(* transaction has locked are skipped, so it need not be all of them.      *)
ClaimBatch(w) ==
  /\ worker[w] = Idle
  /\ \E batch \in SUBSET {o \in Orders : Claimable(o)} :
       /\ batch # {} /\ Cardinality(batch) <= BatchSize
       /\ row' = [o \in Orders |->
            IF o \in batch THEN [row[o] EXCEPT !.owner = w, !.live = TRUE] ELSE row[o]]
       /\ \E o \in batch :
            worker' = [worker EXCEPT ![w] =
              [pc |-> "publishing", at |-> o, batch |-> batch \ {o}]]
  /\ UNCHANGED <<order, delay, ready, failures, waived>>

(* Mutant of Publish: a confirmation that does not come is taken for one.  *)
PublishUnconfirmed(w) ==
  LET o == worker[w].at
  IN  /\ worker[w].pc = "publishing"
      /\ \/ /\ delay' = [delay EXCEPT ![o] = @ + 1]
            /\ UNCHANGED failures
         \/ /\ Fail
            /\ UNCHANGED delay
      /\ At(w, "acked")
      /\ UNCHANGED <<order, row, ready, waived>>

(* Publish waits for the broker's confirmation.  Without one the broker    *)
(* may have taken the message or not.                                      *)
Publish(w) ==
  LET o == worker[w].at
  IN  /\ worker[w].pc = "publishing"
      /\ \/ /\ delay' = [delay EXCEPT ![o] = @ + 1]
            /\ At(w, "acked")
            /\ UNCHANGED failures
         \/ /\ Fail
            /\ delay' \in {delay, [delay EXCEPT ![o] = @ + 1]}
            /\ At(w, "failing")
      /\ UNCHANGED <<order, row, ready, waived>>

(* The row as an update WHERE lease_owner = w leaves it.                   *)
Leased(w, o, status, due) ==
  IF row[o].owner = w
    THEN [row EXCEPT ![o] = [status |-> status, owner |-> Nobody, live |-> FALSE, due |-> due]]
    ELSE row

(* Mutant of MarkPublished: the lease is given up and the status kept.     *)
MarkPublishedUnrecorded(w) ==
  LET o == worker[w].at
  IN  /\ worker[w].pc = "acked"
      /\ row' = Leased(w, o, row[o].status, TRUE)
      /\ Stop(w)
      /\ UNCHANGED <<order, delay, ready, failures, waived>>

(* markOutboxPublished, and on to the next event of the batch; the session *)
(* ends when the lease was lost.                                           *)
MarkPublished(w) ==
  LET o == worker[w].at
      rest == worker[w].batch
  IN  /\ worker[w].pc = "acked"
      /\ row' = Leased(w, o, "published", TRUE)
      /\ IF row[o].owner = w /\ rest # {}
           THEN \E x \in rest : worker' = [worker EXCEPT ![w] =
                  [pc |-> "publishing", at |-> x, batch |-> rest \ {x}]]
           ELSE Stop(w)
      /\ UNCHANGED <<order, delay, ready, failures, waived>>

(* markOutboxFailure: the row is failed until its next attempt.            *)
MarkFailure(w) ==
  LET o == worker[w].at
  IN  /\ worker[w].pc = "failing"
      /\ row' = Leased(w, o, "failed", FALSE)
      /\ IF row[o].owner = w THEN At(w, "releasing") ELSE Stop(w)
      /\ UNCHANGED <<order, delay, ready, failures, waived>>

(* releaseClaimedLeases, and the session ends.                             *)
ReleaseLeases(w) ==
  /\ worker[w].pc = "releasing"
  /\ row' = [o \in Orders |->
       IF o \in worker[w].batch /\ row[o].owner = w
         THEN [row[o] EXCEPT !.owner = Nobody, !.live = FALSE] ELSE row[o]]
  /\ Stop(w)
  /\ UNCHANGED <<order, delay, ready, failures, waived>>

-----------------------------------------------------------------------------
(* RabbitMQ: a message whose TTL has run out is dead-lettered to the       *)
(* cancel queue, and a worker with nothing else to do takes it from there. *)
MessageExpires(o) ==
  /\ delay[o] > 0
  /\ delay' = [delay EXCEPT ![o] = @ - 1]
  /\ ready' = [ready EXCEPT ![o] = @ + 1]
  /\ UNCHANGED <<order, row, worker, failures, waived>>

Deliver(w, o) ==
  /\ worker[w] = Idle
  /\ ready[o] > 0
  /\ ready' = [ready EXCEPT ![o] = @ - 1]
  /\ worker' = [worker EXCEPT ![w] = [pc |-> "delivered", at |-> o, batch |-> {}]]
  /\ UNCHANGED <<order, row, delay, failures, waived>>

(* handleDelivery calls TimeoutCancel.  A pending order is claimed; of any *)
(* other, one that a saga holds included, the service says that it is      *)
(* resolved.                                                               *)
CallCancel(w) ==
  LET o == worker[w].at
  IN  /\ worker[w].pc = "delivered"
      /\ \/ /\ order[o] = "pending"
            /\ order' = [order EXCEPT ![o] = "busy"]
            /\ At(w, "waiting")
            /\ UNCHANGED waived
         \/ /\ order[o] # "pending"
            /\ At(w, "resolved")
            /\ waived' = IF order[o] = "busy" THEN waived \cup {o} ELSE waived
            /\ UNCHANGED order
      /\ UNCHANGED <<row, delay, ready, failures>>

(* The call fails, or times out while order-service goes on.               *)
LoseCancel(w) ==
  /\ worker[w].pc \in {"delivered", "waiting", "resolved"}
  /\ Fail
  /\ At(w, "refused")
  /\ UNCHANGED <<order, row, delay, ready, waived>>

(* After an error the message goes back to the queue.                      *)
Requeue(w) ==
  /\ worker[w].pc = "refused"
  /\ ready' = [ready EXCEPT ![worker[w].at] = @ + 1]
  /\ Stop(w)
  /\ UNCHANGED <<order, row, delay, failures, waived>>

(* Mutant of Complete: the message is acknowledged and the row left.       *)
CompleteForgotten(w) ==
  /\ worker[w].pc = "resolved"
  /\ At(w, "acking")
  /\ UNCHANGED <<order, row, delay, ready, failures, waived>>

(* Mutant of Complete: the lease of the row is left to its owner.          *)
CompleteKeepsLease(w) ==
  /\ worker[w].pc = "resolved"
  /\ row' = [row EXCEPT ![worker[w].at].status = "completed"]
  /\ At(w, "acking")
  /\ UNCHANGED <<order, delay, ready, failures, waived>>

(* The row is completed, in whatever status it is and whoever leases it.   *)
Complete(w) ==
  /\ worker[w].pc = "resolved"
  /\ row' = [row EXCEPT ![worker[w].at] =
       [@ EXCEPT !.status = "completed", !.owner = Nobody, !.live = FALSE]]
  /\ At(w, "acking")
  /\ UNCHANGED <<order, delay, ready, failures, waived>>

Acknowledge(w) ==
  /\ worker[w].pc = "acking"
  /\ Stop(w)
  /\ UNCHANGED <<order, row, delay, ready, failures, waived>>

(* The process dies, its connection breaks, or a statement fails: the      *)
(* session ends and the broker queues an unacknowledged message again.     *)
EndSession(w) ==
  /\ worker[w] # Idle
  /\ Fail
  /\ ready' = IF worker[w].pc \in Handling
                THEN [ready EXCEPT ![worker[w].at] = @ + 1] ELSE ready
  /\ Stop(w)
  /\ UNCHANGED <<order, row, delay, waived>>

-----------------------------------------------------------------------------
(* Worker w still means to publish the event of o.                         *)
Means(w, o) == worker[w].pc \in Publishing /\ (o = worker[w].at \/ o \in worker[w].batch)

(* A lease runs out; on a worker that is still at it only when that worker *)
(* is slower than the lease, which counts as a failure.                    *)
LeaseExpires(o) ==
  /\ row[o].live
  /\ IF \E w \in Workers : Means(w, o) THEN Fail ELSE UNCHANGED failures
  /\ row' = [row EXCEPT ![o].live = FALSE]
  /\ UNCHANGED <<order, delay, ready, worker, waived>>

AttemptDue(o) ==
  /\ ~row[o].due
  /\ row' = [row EXCEPT ![o].due = TRUE]
  /\ UNCHANGED <<order, delay, ready, worker, failures, waived>>

Work(w) ==
  \/ Publish(w) \/ MarkPublished(w) \/ MarkFailure(w) \/ ReleaseLeases(w)
  \/ CallCancel(w) \/ Requeue(w) \/ Complete(w) \/ Acknowledge(w)

Next ==
  \/ \E o \in Orders : \/ Open(o) \/ Claim(o) \/ Settle(o) \/ Flag(o) \/ Revert(o) \/ Repair(o)
                       \/ MessageExpires(o) \/ LeaseExpires(o) \/ AttemptDue(o)
  \/ \E w \in Workers : ClaimBatch(w) \/ Work(w) \/ LoseCancel(w) \/ EndSession(w)
  \/ \E w \in Workers, o \in Orders : Deliver(w, o)

Spec == Init /\ [][Next]_vars

(* A session that is up goes on; the poll ticker and the consumer are both *)
(* served by its select, some replica at a time; delays end; a saga that   *)
(* was started ends.                                                       *)
FairSpec ==
  /\ Spec
  /\ WF_vars(\E o \in Orders : MessageExpires(o))
  /\ WF_vars(\E o \in Orders : LeaseExpires(o) \/ AttemptDue(o))
  /\ WF_vars(\E o \in Orders : Settle(o))
  /\ SF_vars(\E w \in Workers : ClaimBatch(w))
  /\ SF_vars(\E w \in Workers, o \in Orders : Deliver(w, o))
  /\ \A w \in Workers : WF_vars(Work(w))

-----------------------------------------------------------------------------
(* Workers that have a message of the order in hand.                       *)
Handlers(o) == {w \in Workers : worker[w].pc \in Handling /\ worker[w].at = o}

(* Messages of the order in the broker or in the hands of a worker.        *)
Messages(o) == delay[o] + ready[o] + Cardinality(Handlers(o))

(* The timeout of o is still to come: its row has to be published, or a    *)
(* message for it is on its way.                                           *)
Awaited(o) == row[o].status \in {"pending", "failed"} \/ Messages(o) > 0

(* What the reliability snapshot counts of the outbox, once the due time   *)
(* of its rows has passed.                                                 *)
Snapshot ==
  [leased |-> {o \in Orders : row[o].owner # Nobody /\ row[o].live},
   retry_ready |-> {o \in Orders : /\ row[o].status \in {"pending", "failed"}
                                   /\ row[o].due /\ ~row[o].live},
   overdue |-> {o \in Orders : row[o].status \notin {"none", "completed"}}]

(* A pending order is never forgotten, whatever crashes: an event is       *)
(* marked published only after the broker has taken it, and completed only *)
(* when the order is resolved, so that the snapshot counts an order whose  *)
(* timeout is late.  The exception is a timeout that came while a saga     *)
(* held the order, which then gave it back.                                *)
NotForgotten ==
  \A o \in Orders :
    order[o] = "pending" /\ o \notin waived => Awaited(o) /\ o \in Snapshot.overdue

(* What the documents say: every order that is still pending has its       *)
(* timeout to come.                                                        *)
PendingIsAwaited == \A o \in Orders : order[o] = "pending" => Awaited(o)

(* The leases keep replicas from publishing the same event: every message  *)
(* beyond the first one of an order is owed to a failure of its own.       *)
DuplicatesAreFailures ==
  \A o \in Orders : Messages(o) <= 1 + failures

(* A worker that is still to publish an event holds its lease, unless it   *)
(* was too slow or an earlier attempt went wrong; the snapshot counts the  *)
(* row as leased, and not as ready for somebody else.                      *)
PublisherHoldsLease ==
  \A w \in Workers, o \in Orders :
    failures = 0 /\ ((worker[w].at = o /\ worker[w].pc = "publishing") \/ o \in worker[w].batch)
      => row[o].owner = w /\ o \in Snapshot.leased \ Snapshot.retry_ready

(* Every timeout ends, whatever a worker marks in a row that it leases: in *)
(* the end the row of an order is completed for good, no message for it is *)
(* left, and the order is settled or flagged, with the same exception.     *)
TimeoutEnds ==
  \A o \in Orders :
    order[o] # "none" ~>
      [](/\ row[o].status = "completed" /\ Messages(o) = 0
         /\ order[o] \in {"flagged", "closed"} \/ o \in waived)

(* A message of o that a worker will still act on: one whose row it has    *)
(* not completed yet.                                                      *)
InFlight(o) ==
  \/ delay[o] > 0 \/ ready[o] > 0
  \/ \E w \in Workers : worker[w].at = o /\ worker[w].pc \in Handling \ {"acking"}

(* A row marked published is one that somebody will complete.  A worker    *)
(* that confirms late may mark a row which a saga, or a repair, completed  *)
(* meanwhile; and the message it published may be handled, by another      *)
(* replica, before the mark.  In either order the row is not left          *)
(* published with no message behind it, whatever the order's status.       *)
PublishedIsPursued == \A o \in Orders : row[o].status = "published" => InFlight(o)
=============================================================================
