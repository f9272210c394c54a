------------------------ MODULE TimeoutOutboxProofs ------------------------
(***************************************************************************)
(* What the timeout worker's steps do, for any number of orders and        *)
(* replicas, any batch size and any number of failures: the types, the     *)
(* accounting of messages, publications and leases of an order, and that a *)
(* worker which publishes a batch or takes a delivery keeps it.  From this *)
(* follow the invariants of the outbox.                                    *)
(***************************************************************************)
EXTENDS TimeoutOutbox, FiniteSetTheorems, TLAPS

WorkerState == [pc : {"idle"} \cup Publishing \cup Handling,
                at : Orders \cup {NoOrder}, batch : SUBSET Orders]

(* The event at hand is of an order and is not also one to come; only a    *)
(* worker that publishes has events to come.                               *)
Shape(w) ==
  /\ worker[w].pc # "idle" => worker[w].at \in Orders
  /\ worker[w].pc \notin Publishing => worker[w].batch = {}
  /\ worker[w].at \notin worker[w].batch

(* What the three ways to write a worker's state do.                       *)
LEMMA AtIs ==
  ASSUME TypeOK, NEW w \in Workers, NEW pc, At(w, pc)
  PROVE  /\ worker'[w] = [pc |-> pc, at |-> worker[w].at, batch |-> worker[w].batch]
         /\ worker'[w].pc = pc /\ worker'[w].at = worker[w].at
         /\ worker'[w].batch = worker[w].batch
         /\ \A v \in Workers \ {w} : worker'[v] = worker[v]
         /\ DOMAIN worker' = Workers /\ worker' = [v \in Workers |-> worker'[v]]
  BY Zenon DEF At, TypeOK

(* The end of a session.                                                   *)
LEMMA StopIs ==
  ASSUME TypeOK, NEW w \in Workers, Stop(w)
  PROVE  /\ worker'[w] = Idle
         /\ worker'[w].pc = "idle" /\ worker'[w].batch = {}
         /\ \A v \in Workers \ {w} : worker'[v] = worker[v]
         /\ worker' = [v \in Workers |-> worker'[v]]
  BY Zenon DEF Stop, TypeOK, Idle

(* The worker that waits for order-service hears of the order.             *)
LEMMA AnswerIs ==
  ASSUME TypeOK, NEW o \in Orders, NEW pc, Answer(o, pc)
  PROVE  /\ worker' = [v \in Workers |-> worker'[v]]
         /\ \A v \in Workers :
              \/ worker'[v] = worker[v]
              \/ /\ worker[v].pc = "waiting" /\ worker[v].at = o
                 /\ worker'[v] = [pc |-> pc, at |-> o, batch |-> worker[v].batch]
                 /\ worker'[v].pc = pc /\ worker'[v].at = o
                 /\ worker'[v].batch = worker[v].batch
  BY Zenon DEF Answer, TypeOK

(* A worker that is given something to publish.                            *)
LEMMA TakeIs ==
  ASSUME TypeOK, NEW w \in Workers, NEW pc, NEW o, NEW batch,
         worker' = [worker EXCEPT ![w] = [pc |-> pc, at |-> o, batch |-> batch]]
  PROVE  /\ worker'[w] = [pc |-> pc, at |-> o, batch |-> batch]
         /\ worker'[w].pc = pc /\ worker'[w].at = o /\ worker'[w].batch = batch
         /\ \A v \in Workers \ {w} : worker'[v] = worker[v]
         /\ worker' = [v \in Workers |-> worker'[v]]
  BY Zenon DEF TypeOK

WorkersFit == worker \in [Workers -> WorkerState] /\ \A w \in Workers : Shape(w)

(* A step of one worker keeps the others as they were.                     *)
LEMMA OneFits ==
  ASSUME WorkersFit, NEW w \in Workers, worker' = [v \in Workers |-> worker'[v]],
         \A v \in Workers \ {w} : worker'[v] = worker[v],
         worker'[w] \in WorkerState, Shape(w)'
  PROVE  WorkersFit'
  <1>1. ASSUME NEW v \in Workers PROVE worker'[v] \in WorkerState /\ Shape(v)'
    <2>1. CASE v = w BY <2>1, Zenon
    <2>2. CASE v # w
      <3>1. worker'[v] = worker[v] /\ Shape(v) /\ worker[v] \in WorkerState
        BY <2>2, Zenon DEF WorkersFit
      <3> QED BY <3>1, Zenon DEF Shape
    <2> QED BY <2>1, <2>2, Zenon
  <1>2. worker' \in [Workers -> WorkerState] BY <1>1, Zenon
  <1> QED BY <1>1, <1>2, Zenon DEF WorkersFit

(* Every step keeps the shape of the workers.                              *)
LEMMA WorkersStep ==
  ASSUME TypeOK, WorkersFit, [Next]_vars
  PROVE  WorkersFit'
  <1>0. worker \in [Workers -> WorkerState] /\ \A w \in Workers : Shape(w)
    BY Zenon DEF WorkersFit
  <1>1. ASSUME NEW w \in Workers, NEW pc \in Publishing \cup Handling, At(w, pc),
               worker[w].pc # "idle",
               worker[w].pc \in Publishing => pc \in Publishing
        PROVE  WorkersFit'
    <2>1. /\ worker'[w] = [pc |-> pc, at |-> worker[w].at, batch |-> worker[w].batch]
          /\ \A v \in Workers \ {w} : worker'[v] = worker[v]
          /\ worker' = [v \in Workers |-> worker'[v]]
      BY <1>1, AtIs, Zenon
    <2>2. worker[w] \in WorkerState /\ Shape(w) BY <1>0, Zenon
    <2>3. worker'[w] \in WorkerState BY <2>1, <2>2 DEF WorkerState
    <2>4. Shape(w)' BY <1>1, <2>1, <2>2 DEF Shape, Publishing, Handling
    <2> QED BY <2>1, <2>3, <2>4, OneFits, Zenon
  <1>2. ASSUME NEW w \in Workers, Stop(w) PROVE WorkersFit'
    <2>1. /\ worker'[w] = Idle
          /\ \A v \in Workers \ {w} : worker'[v] = worker[v]
          /\ worker' = [v \in Workers |-> worker'[v]]
      BY <1>2, StopIs, Zenon
    <2>2. worker'[w] \in WorkerState /\ Shape(w)'
      BY <2>1 DEF WorkerState, Shape, Idle
    <2> QED BY <2>1, <2>2, OneFits, Zenon
  <1>3. ASSUME NEW o \in Orders, NEW pc \in Handling, Answer(o, pc) PROVE WorkersFit'
    <2>1. ASSUME NEW v \in Workers PROVE worker'[v] \in WorkerState /\ Shape(v)'
      <3>1. Shape(v) /\ worker[v] \in WorkerState BY <1>0, Zenon
      <3>2. CASE worker'[v] = worker[v] BY <3>1, <3>2, Zenon DEF Shape
      <3>3. CASE /\ worker[v].pc = "waiting" /\ worker[v].at = o
                 /\ worker'[v] = [pc |-> pc, at |-> o, batch |-> worker[v].batch]
        BY <1>3, <3>1, <3>3 DEF Shape, WorkerState, Publishing, Handling
      <3> QED BY <1>3, <3>2, <3>3, AnswerIs, Zenon
    <2>2. worker' = [v \in Workers |-> worker'[v]] BY <1>3, AnswerIs, Zenon
    <2>3. worker' \in [Workers -> WorkerState] BY <2>1, <2>2, Zenon
    <2> QED BY <2>1, <2>3, Zenon DEF WorkersFit
  <1>4. ASSUME NEW w \in Workers, NEW pc \in {"publishing", "delivered"},
               NEW o \in Orders, NEW batch \in SUBSET Orders,
               o \notin batch, pc = "delivered" => batch = {},
               worker' = [worker EXCEPT ![w] = [pc |-> pc, at |-> o, batch |-> batch]]
        PROVE  WorkersFit'
    <2>1. /\ worker'[w] = [pc |-> pc, at |-> o, batch |-> batch]
          /\ \A v \in Workers \ {w} : worker'[v] = worker[v]
          /\ worker' = [v \in Workers |-> worker'[v]]
      BY <1>4, TakeIs, ZenonT(30)
    <2>2. worker'[w] \in WorkerState /\ Shape(w)'
      BY <1>4, <2>1, Zenon DEF WorkerState, Shape, Publishing, Handling
    <2> QED BY <2>1, <2>2, OneFits, Zenon
  <1>5. CASE UNCHANGED worker
    BY <1>5, Zenon DEF WorkersFit, Shape
  <1>6. ASSUME NEW w \in Workers, ClaimBatch(w) PROVE WorkersFit'
    <2>1. PICK batch \in SUBSET {o \in Orders : Claimable(o)} :
            \E o \in batch : worker' = [worker EXCEPT ![w] =
              [pc |-> "publishing", at |-> o, batch |-> batch \ {o}]]
      BY <1>6, Zenon DEF ClaimBatch
    <2>2. PICK o \in batch : worker' = [worker EXCEPT ![w] =
              [pc |-> "publishing", at |-> o, batch |-> batch \ {o}]]
      BY <2>1, Zenon
    <2> DEFINE rest == batch \ {o}
    <2>3. o \in Orders /\ rest \in SUBSET Orders /\ o \notin rest BY Zenon
    <2>4. worker' = [worker EXCEPT ![w] = [pc |-> "publishing", at |-> o, batch |-> rest]]
      BY <2>2, Zenon
    <2> HIDE DEF rest
    <2> QED BY <1>4, <2>3, <2>4, Zenon
  <1>7. ASSUME NEW w \in Workers, MarkPublished(w) PROVE WorkersFit'
    <2>1. CASE Stop(w) BY <1>2, <2>1, Zenon
    <2>2. CASE \E x \in worker[w].batch : worker' = [worker EXCEPT ![w] =
                  [pc |-> "publishing", at |-> x, batch |-> worker[w].batch \ {x}]]
      <3>1. PICK x \in worker[w].batch : worker' = [worker EXCEPT ![w] =
                  [pc |-> "publishing", at |-> x, batch |-> worker[w].batch \ {x}]]
        BY <2>2, Zenon
      <3> DEFINE rest == worker[w].batch \ {x}
      <3>2. x \in Orders /\ rest \in SUBSET Orders /\ x \notin rest
        BY <1>0, Zenon DEF WorkerState
      <3>3. worker' = [worker EXCEPT ![w] = [pc |-> "publishing", at |-> x, batch |-> rest]]
        BY <3>1, Zenon
      <3> HIDE DEF rest
      <3> QED BY <1>4, <3>2, <3>3, Zenon
    <2> QED BY <1>7, <2>1, <2>2, Zenon DEF MarkPublished
  <1>8. ASSUME NEW w \in Workers, Work(w) \/ LoseCancel(w) \/ EndSession(w) PROVE WorkersFit'
    BY <1>1, <1>2, <1>7, <1>8, Zenon DEF Work, Publish, MarkFailure, ReleaseLeases,
       CallCancel,
       Requeue, Complete, Acknowledge, LoseCancel, EndSession, Publishing, Handling
  <1>9. ASSUME NEW w \in Workers, NEW o \in Orders, Deliver(w, o) PROVE WorkersFit'
    <2>1. worker' = [worker EXCEPT ![w] = [pc |-> "delivered", at |-> o, batch |-> {}]]
      BY <1>9, Zenon DEF Deliver
    <2>2. {} \in SUBSET Orders /\ o \notin {} BY Zenon
    <2> QED BY <1>4, <2>1, <2>2, Zenon
  <1>10. ASSUME NEW o \in Orders, Settle(o) \/ Flag(o) \/ Revert(o) PROVE WorkersFit'
    BY <1>3, <1>10, Zenon DEF Settle, Flag, Revert, Handling
  <1> QED BY <1>5, <1>6, <1>8, <1>9, <1>10, Zenon DEF Next, vars, Open, Claim, Repair,
             MessageExpires, LeaseExpires, AttemptDue

(* How the rows change: one column of one row, or the rows of a batch.     *)
LEMMA StatusIs ==
  ASSUME TypeOK, NEW o \in Orders, NEW st \in RowStatus, row' = [row EXCEPT ![o].status = st]
  PROVE  /\ row' \in [Orders -> RowType]
         /\ \A x \in Orders \ {o} : row'[x] = row[x]
         /\ row'[o].status = st /\ row'[o].owner = row[o].owner
         /\ row'[o].live = row[o].live
  <1>1. row[o] \in RowType /\ row \in [Orders -> RowType] BY Zenon DEF TypeOK
  <1>2. row'[o] = [row[o] EXCEPT !.status = st] /\ \A x \in Orders \ {o} : row'[x] = row[x]
    BY <1>1, Zenon
  <1>3. row'[o] \in RowType /\ row'[o].status = st /\ row'[o].owner = row[o].owner
        /\ row'[o].live = row[o].live
    BY <1>1, <1>2, Zenon DEF RowType
  <1>4. row' = [x \in Orders |-> row'[x]] BY <1>1, Zenon
  <1>5. row' \in [Orders -> RowType] BY <1>1, <1>2, <1>3, <1>4, Zenon
  <1> QED BY <1>2, <1>3, <1>5, Zenon

(* A lease that runs out.                                                  *)
LEMMA LiveIs ==
  ASSUME TypeOK, NEW o \in Orders, row' = [row EXCEPT ![o].live = FALSE]
  PROVE  /\ row' \in [Orders -> RowType]
         /\ \A x \in Orders \ {o} : row'[x] = row[x]
         /\ row'[o].status = row[o].status /\ row'[o].owner = row[o].owner
  <1>1. row[o] \in RowType /\ row \in [Orders -> RowType] BY Zenon DEF TypeOK
  <1>2. row'[o] = [row[o] EXCEPT !.live = FALSE] /\ \A x \in Orders \ {o} : row'[x] = row[x]
    BY <1>1, Zenon
  <1>3. row'[o] \in RowType /\ row'[o].status = row[o].status /\ row'[o].owner = row[o].owner
    BY <1>1, <1>2, Zenon DEF RowType
  <1>4. row' = [x \in Orders |-> row'[x]] BY <1>1, Zenon
  <1>5. row' \in [Orders -> RowType] BY <1>1, <1>2, <1>3, <1>4, Zenon
  <1> QED BY <1>2, <1>3, <1>5, Zenon

(* A retry delay that ends.                                                *)
LEMMA DueIs ==
  ASSUME TypeOK, NEW o \in Orders, row' = [row EXCEPT ![o].due = TRUE]
  PROVE  /\ row' \in [Orders -> RowType]
         /\ \A x \in Orders : /\ row'[x].status = row[x].status
                              /\ row'[x].owner = row[x].owner
                              /\ row'[x].live = row[x].live
  <1>1. row[o] \in RowType /\ row \in [Orders -> RowType] BY Zenon DEF TypeOK
  <1>2. row'[o] = [row[o] EXCEPT !.due = TRUE] /\ \A x \in Orders \ {o} : row'[x] = row[x]
    BY <1>1, Zenon
  <1>3. row'[o] \in RowType /\ row'[o].status = row[o].status /\ row'[o].owner = row[o].owner
        /\ row'[o].live = row[o].live
    BY <1>1, <1>2, Zenon DEF RowType
  <1>4. row' = [x \in Orders |-> row'[x]] BY <1>1, Zenon
  <1>5. row' \in [Orders -> RowType] BY <1>1, <1>2, <1>3, <1>4, Zenon
  <1> QED BY <1>2, <1>3, <1>5, Zenon

(* The row that handleDelivery completes.                                  *)
LEMMA CompleteIs ==
  ASSUME TypeOK, NEW o \in Orders,
         row' = [row EXCEPT ![o] =
                   [@ EXCEPT !.status = "completed", !.owner = Nobody, !.live = FALSE]]
  PROVE  /\ row' \in [Orders -> RowType]
         /\ \A x \in Orders \ {o} : row'[x] = row[x]
         /\ row'[o].status = "completed" /\ row'[o].owner = Nobody
  <1>1. row[o] \in RowType /\ row \in [Orders -> RowType] BY Zenon DEF TypeOK
  <1>2. /\ row'[o] = [row[o] EXCEPT !.status = "completed", !.owner = Nobody, !.live = FALSE]
        /\ \A x \in Orders \ {o} : row'[x] = row[x]
    BY <1>1, Zenon
  <1>3. row'[o] \in RowType /\ row'[o].status = "completed" /\ row'[o].owner = Nobody
    BY <1>1, <1>2, Zenon DEF RowType, RowStatus
  <1>4. row' = [x \in Orders |-> row'[x]] BY <1>1, Zenon
  <1>5. row' \in [Orders -> RowType] BY <1>1, <1>2, <1>3, <1>4, Zenon
  <1> QED BY <1>2, <1>3, <1>5, Zenon

(* The update WHERE lease_owner = w.                                       *)
LEMMA LeasedIs ==
  ASSUME TypeOK, NEW w \in Workers, NEW o \in Orders,
         NEW st \in RowStatus, NEW due \in BOOLEAN, row' = Leased(w, o, st, due)
  PROVE  /\ row' \in [Orders -> RowType]
         /\ \A x \in Orders \ {o} : row'[x] = row[x]
         /\ row[o].owner # w => row'[o] = row[o]
         /\ row[o].owner = w => row'[o].status = st /\ row'[o].owner = Nobody
  <1> DEFINE new == [status |-> st, owner |-> Nobody, live |-> FALSE, due |-> due]
  <1>1. row \in [Orders -> RowType] /\ new \in RowType BY Zenon DEF TypeOK, RowType
  <1>2. CASE row[o].owner = w
    <2>1. row' = [row EXCEPT ![o] = new] BY <1>2, Zenon DEF Leased
    <2>2. new.status = st /\ new.owner = Nobody BY Zenon
    <2> HIDE DEF new
    <2> QED BY <1>1, <1>2, <2>1, <2>2, Zenon
  <1>3. CASE row[o].owner # w
    <2>1. row' = row BY <1>3, Zenon DEF Leased
    <2> QED BY <1>1, <1>3, <2>1, Zenon
  <1> QED BY <1>2, <1>3, Zenon

(* Leasing the rows of a batch, and giving them back.                      *)
LEMMA BatchIs ==
  ASSUME TypeOK, NEW w \in Workers \cup {Nobody}, NEW lv \in BOOLEAN, NEW S,
         row' = [o \in Orders |->
           IF o \in S THEN [row[o] EXCEPT !.owner = w, !.live = lv] ELSE row[o]]
  PROVE  /\ row' \in [Orders -> RowType]
         /\ \A x \in Orders \ S : row'[x] = row[x]
         /\ \A x \in Orders \cap S : row'[x].status = row[x].status /\ row'[x].owner = w
  <1>1. row \in [Orders -> RowType] BY Zenon DEF TypeOK
  <1>2. ASSUME NEW x \in Orders \cap S
        PROVE  row'[x] \in RowType /\ row'[x].status = row[x].status /\ row'[x].owner = w
    <2>1. row'[x] = [row[x] EXCEPT !.owner = w, !.live = lv] /\ row[x] \in RowType
      BY <1>1, ZenonT(30)
    <2> QED BY <2>1, Zenon DEF RowType
  <1>3. \A x \in Orders \ S : row'[x] = row[x] BY Zenon
  <1>4. \A x \in Orders : row'[x] \in RowType BY <1>1, <1>2, <1>3, Zenon
  <1>5. row' \in [Orders -> RowType] BY <1>4, Zenon
  <1> QED BY <1>2, <1>3, <1>5, Zenon

(* Every step keeps the types.                                             *)
LEMMA TypeStep ==
  ASSUME TypeOK, WorkersFit, [Next]_vars
  PROVE  TypeOK'
  <1> DEFINE R == row' \in [Orders -> RowType]
             M == delay' \in [Orders -> Nat] /\ ready' \in [Orders -> Nat]
             F == failures' \in 0..MaxFailures
             W == waived' \subseteq Orders
             O == order' \in [Orders -> {"none", "pending", "busy", "flagged", "closed"}]
  <1>0. worker' \in [Workers -> WorkerState] BY WorkersStep, Zenon DEF WorkersFit
  <1>1. Fail => F BY OutboxAssumption DEF Fail, TypeOK
  <1>2. ASSUME NEW w \in Workers, worker[w].pc # "idle" PROVE worker[w].at \in Orders
    BY <1>2, Zenon DEF WorkersFit, Shape
  <1>3. UNCHANGED failures => F BY Zenon DEF TypeOK
  <1>4. UNCHANGED <<delay, ready>> => M BY Zenon DEF TypeOK
  <1>5. UNCHANGED waived => W BY Zenon DEF TypeOK
  <1>6. UNCHANGED order => O BY Zenon DEF TypeOK
  <1>7. UNCHANGED row => R BY Zenon DEF TypeOK
  <1> SUFFICES R /\ M /\ F /\ W /\ O BY <1>0, Zenon DEF TypeOK, WorkerState
  <1>10. ASSUME NEW o \in Orders,
                Open(o) \/ Claim(o) \/ Settle(o) \/ Flag(o) \/ Revert(o) \/ Repair(o)
         PROVE  R /\ M /\ F /\ W /\ O
    <2>1. O BY <1>10, Zenon DEF TypeOK, Open, Claim, Settle, Flag, Revert, Repair
    <2>2. R
      BY <1>7, <1>10, StatusIs, Zenon DEF Open, Claim, Settle, Flag, Revert, Repair, RowStatus
    <2> QED BY <1>1, <1>3, <1>4, <1>5, <1>10, <2>1, <2>2, Zenon DEF Open, Claim, Settle,
               Flag, Revert, Repair
  <1>11. ASSUME NEW o \in Orders, MessageExpires(o) \/ LeaseExpires(o) \/ AttemptDue(o)
         PROVE  R /\ M /\ F /\ W /\ O
    <2>1. R BY <1>7, <1>11, LiveIs, DueIs, Zenon DEF MessageExpires, LeaseExpires, AttemptDue
    <2>2. M BY <1>11, <1>4 DEF TypeOK, MessageExpires, LeaseExpires, AttemptDue
    <2> QED BY <1>1, <1>3, <1>5, <1>6, <1>11, <2>1, <2>2, Zenon DEF MessageExpires,
               LeaseExpires, AttemptDue
  <1>12. ASSUME NEW w \in Workers, ClaimBatch(w) PROVE R /\ M /\ F /\ W /\ O
    <2>0. PICK batch : row' = [o \in Orders |->
            IF o \in batch THEN [row[o] EXCEPT !.owner = w, !.live = TRUE] ELSE row[o]]
      BY <1>12, Zenon DEF ClaimBatch
    <2>1. R BY <2>0, BatchIs, Zenon
    <2> QED BY <1>3, <1>4, <1>5, <1>6, <1>12, <2>1, Zenon DEF ClaimBatch
  <1>13. ASSUME NEW w \in Workers, Publish(w) PROVE R /\ M /\ F /\ W /\ O
    <2>1. worker[w].at \in Orders BY <1>2, <1>13, Zenon DEF Publish
    <2>2. M BY <1>13, <2>1 DEF Publish, TypeOK
    <2> QED BY <1>1, <1>3, <1>5, <1>6, <1>7, <1>13, <2>2, Zenon DEF Publish
  <1>14. ASSUME NEW w \in Workers, MarkPublished(w) \/ MarkFailure(w)
         PROVE  R /\ M /\ F /\ W /\ O
    <2>1. worker[w].at \in Orders BY <1>2, <1>14, Zenon DEF MarkPublished, MarkFailure
    <2>2. \/ row' = Leased(w, worker[w].at, "published", TRUE)
          \/ row' = Leased(w, worker[w].at, "failed", FALSE)
      BY <1>14, Zenon DEF MarkPublished, MarkFailure
    <2>3. R BY <2>1, <2>2, LeasedIs, Zenon DEF RowStatus
    <2> QED BY <1>3, <1>4, <1>5, <1>6, <1>14, <2>3, Zenon DEF MarkPublished, MarkFailure
  <1>15. ASSUME NEW w \in Workers, ReleaseLeases(w) PROVE R /\ M /\ F /\ W /\ O
    <2> DEFINE S == {o \in worker[w].batch : row[o].owner = w}
    <2>0. row' = [o \in Orders |->
            IF o \in S THEN [row[o] EXCEPT !.owner = Nobody, !.live = FALSE] ELSE row[o]]
      BY <1>15, Zenon DEF ReleaseLeases
    <2> HIDE DEF S
    <2>1. R BY <2>0, BatchIs, Zenon
    <2> QED BY <1>3, <1>4, <1>5, <1>6, <1>15, <2>1, Zenon DEF ReleaseLeases
  <1>16. ASSUME NEW w \in Workers, CallCancel(w) PROVE R /\ M /\ F /\ W /\ O
    <2>1. worker[w].at \in Orders BY <1>2, <1>16, Zenon DEF CallCancel
    <2>2. O /\ W BY <1>16, <2>1 DEF CallCancel, TypeOK
    <2> QED BY <1>3, <1>4, <1>7, <1>16, <2>2, Zenon DEF CallCancel
  <1>17. ASSUME NEW w \in Workers, Requeue(w) \/ EndSession(w) PROVE R /\ M /\ F /\ W /\ O
    <2>1. worker[w].pc \in Handling => worker[w].at \in Orders BY <1>2, Zenon DEF Handling
    <2>2. M BY <1>17, <2>1 DEF Requeue, EndSession, TypeOK, Handling
    <2> QED BY <1>1, <1>3, <1>5, <1>6, <1>7, <1>17, <2>2, Zenon DEF Requeue, EndSession
  <1>18. ASSUME NEW w \in Workers, Complete(w) PROVE R /\ M /\ F /\ W /\ O
    <2>1. worker[w].at \in Orders BY <1>2, <1>18, Zenon DEF Complete
    <2>2. R BY <1>18, <2>1, CompleteIs, Zenon DEF Complete
    <2> QED BY <1>3, <1>4, <1>5, <1>6, <1>18, <2>2, Zenon DEF Complete
  <1>19. ASSUME NEW w \in Workers, LoseCancel(w) \/ Acknowledge(w) PROVE R /\ M /\ F /\ W /\ O
    BY <1>1, <1>3, <1>4, <1>5, <1>6, <1>7, <1>19, Zenon DEF LoseCancel, Acknowledge
  <1>20. ASSUME NEW w \in Workers, NEW o \in Orders, Deliver(w, o) PROVE R /\ M /\ F /\ W /\ O
    <2>1. M BY <1>20 DEF Deliver, TypeOK
    <2> QED BY <1>3, <1>5, <1>6, <1>7, <1>20, <2>1, Zenon DEF Deliver
  <1>21. CASE UNCHANGED vars
    BY <1>3, <1>4, <1>5, <1>6, <1>7, <1>21, Zenon DEF vars
  <1> QED
    BY <1>10, <1>11, <1>12, <1>13, <1>14, <1>15, <1>16, <1>17, <1>18, <1>19, <1>20, <1>21,
       Zenon DEF Next, Work

(* An order without a row is one that was never opened, and nobody has     *)
(* heard of it.                                                            *)
Opened(o) ==
  /\ order[o] = "none" <=> row[o].status = "none"
  /\ order[o] = "none" =>
       /\ delay[o] = 0 /\ ready[o] = 0
       /\ \A w \in Workers : /\ worker[w].pc # "idle" => worker[w].at # o
                             /\ o \notin worker[w].batch

Undecided(o) == order[o] \in {"pending", "busy"} /\ o \notin waived

Present(o) == delay[o] > 0 \/ ready[o] > 0 \/ \E w \in Workers : w \in Handlers(o)

(* The row of an undecided order is not completed, and published only when *)
(* there is a message.  No worker has been told that it is resolved.       *)
Tracked(o) ==
  Undecided(o) =>
    /\ row[o].status # "completed"
    /\ row[o].status = "published" => Present(o)
    /\ \A w \in Workers : worker[w].at = o =>
         /\ worker[w].pc \notin {"resolved", "acking"}
         /\ worker[w].pc = "acked" => Present(o)

(* w is about to publish, now or later in its batch, the event of o.       *)
Publishes(w, o) ==
  \/ worker[w].pc = "publishing" /\ worker[w].at = o
  \/ worker[w].pc \in {"publishing", "acked"} /\ o \in worker[w].batch

Publishers(o) == {w \in Workers : Publishes(w, o)}

(* w has a running lease on the row and will mark it.                      *)
Holds(w, o) ==
  /\ row[o].owner = w /\ row[o].live
  /\ worker[w].pc \in {"publishing", "acked"}
  /\ worker[w].at = o \/ o \in worker[w].batch

(* The row is, or will be, up for another worker without a failure.        *)
Again(o) ==
  /\ \/ row[o].status \in {"pending", "failed"}
     \/ \E w \in Workers : worker[w].pc = "failing" /\ worker[w].at = o /\ row[o].owner = w
  /\ \A w \in Workers : ~Holds(w, o)

Bit(b) == IF b THEN 1 ELSE 0

(* The messages of o, the publications that are under way and the one that *)
(* may follow are owed to its opening and to failures.                     *)
Budget(o) ==
  Messages(o) + Cardinality(Publishers(o)) + Bit(Again(o)) <= 1 + failures

OrderFits(o) == Opened(o) /\ Tracked(o) /\ Budget(o)

(* Without a failure every event to publish is leased by its publisher.    *)
Leases ==
  failures = 0 =>
    \A w \in Workers :
      /\ worker[w].pc \notin {"failing", "releasing"}
      /\ \A o \in Orders : Publishes(w, o) => row[o].owner = w /\ row[o].live

(* One element more or less.                                               *)
LEMMA Without ==
  ASSUME NEW S \in SUBSET Workers, NEW w \in Workers
  PROVE  /\ Cardinality(S) \in Nat /\ Cardinality(S \ {w}) \in Nat
         /\ Cardinality(S) = Cardinality(S \ {w}) + Bit(w \in S)
  <1>1. IsFiniteSet(S) /\ IsFiniteSet(S \ {w})
    BY WorkersAssumption, FS_Subset, Zenon
  <1>2. Cardinality(S) \in Nat /\ Cardinality(S \ {w}) \in Nat
    BY <1>1, FS_CardinalityType, Zenon
  <1>3. CASE w \in S
    <2>1. Cardinality(S \ {w}) = Cardinality(S) - 1 BY <1>1, <1>3, FS_RemoveElement, Zenon
    <2> QED BY <1>2, <1>3, <2>1 DEF Bit
  <1>4. CASE w \notin S
    <2>1. S \ {w} = S BY <1>4, Zenon
    <2>2. Cardinality(S \ {w}) = Cardinality(S) BY <2>1, Zenon
    <2> QED BY <1>2, <1>4, <2>2 DEF Bit
  <1> QED BY <1>3, <1>4, Zenon

(* Two sets of workers that differ in w at most.                           *)
LEMMA OneMore ==
  ASSUME NEW S \in SUBSET Workers, NEW T \in SUBSET Workers, NEW w \in Workers,
         S \ {w} = T \ {w}
  PROVE  /\ Cardinality(S) \in Nat /\ Cardinality(T) \in Nat
         /\ Cardinality(T) + Bit(w \in S) = Cardinality(S) + Bit(w \in T)
  <1>1. /\ Cardinality(S) \in Nat /\ Cardinality(S \ {w}) \in Nat
        /\ Cardinality(S) = Cardinality(S \ {w}) + Bit(w \in S)
    BY Without, Zenon
  <1>2. Cardinality(T) \in Nat /\ Cardinality(T) = Cardinality(T \ {w}) + Bit(w \in T)
    BY Without, Zenon
  <1>3. Cardinality(S \ {w}) = Cardinality(T \ {w}) BY Zenon
  <1>4. Bit(w \in S) \in Nat /\ Bit(w \in T) \in Nat BY Zenon DEF Bit
  <1> QED BY <1>1, <1>2, <1>3, <1>4

(* The part of Budget that a step of worker w can change.                  *)
Own(w, o) ==
  delay[o] + ready[o] + Bit(w \in Handlers(o)) + Bit(Publishes(w, o)) + Bit(Again(o))

Only(w) == \A v \in Workers \ {w} : worker'[v] = worker[v]

(* A step of one worker keeps the budget of an order when its own part of  *)
(* it grows by no more than the failures.                                  *)
LEMMA OneBudget ==
  ASSUME TypeOK, TypeOK', NEW o \in Orders, Budget(o), NEW w \in Workers, Only(w),
         Own(w, o)' <= Own(w, o) + failures' - failures
  PROVE  Budget(o)'
  <1>1. Handlers(o) \ {w} = Handlers(o)' \ {w} BY Zenon DEF Handlers, Only
  <1>2. Publishers(o) \ {w} = Publishers(o)' \ {w} BY Zenon DEF Publishers, Publishes, Only
  <1>3. /\ Handlers(o) \in SUBSET Workers /\ Handlers(o)' \in SUBSET Workers
        /\ Publishers(o) \in SUBSET Workers /\ Publishers(o)' \in SUBSET Workers
    BY Zenon DEF Handlers, Publishers
  <1>4. /\ Cardinality(Handlers(o)) \in Nat /\ Cardinality(Handlers(o)') \in Nat
        /\ Cardinality(Handlers(o)') + Bit(w \in Handlers(o))
             = Cardinality(Handlers(o)) + Bit(w \in Handlers(o)')
    BY <1>1, <1>3, OneMore, Zenon
  <1>5. /\ Cardinality(Publishers(o)) \in Nat /\ Cardinality(Publishers(o)') \in Nat
        /\ Cardinality(Publishers(o)') + Bit(w \in Publishers(o))
             = Cardinality(Publishers(o)) + Bit(w \in Publishers(o)')
    BY <1>2, <1>3, OneMore, Zenon
  <1>6. (w \in Publishers(o) <=> Publishes(w, o)) /\ (w \in Publishers(o)' <=> Publishes(w, o)')
    BY Zenon DEF Publishers
  <1>7. /\ Bit(w \in Publishers(o)) = Bit(Publishes(w, o))
        /\ Bit(w \in Publishers(o)') = Bit(Publishes(w, o)')
    BY <1>6, Zenon DEF Bit
  <1>8. /\ Bit(w \in Handlers(o)) \in Nat /\ Bit(w \in Handlers(o)') \in Nat
        /\ Bit(Publishes(w, o)) \in Nat /\ Bit(Publishes(w, o)') \in Nat
        /\ Bit(Again(o)) \in Nat /\ Bit(Again(o)') \in Nat
    BY Zenon DEF Bit
  <1>9. /\ delay[o] \in Nat /\ ready[o] \in Nat /\ failures \in Nat
        /\ delay'[o] \in Nat /\ ready'[o] \in Nat /\ failures' \in Nat
    BY OutboxAssumption DEF TypeOK
  <1>10. Own(w, o)' = delay'[o] + ready'[o] + Bit(w \in Handlers(o)')
                        + Bit(Publishes(w, o)') + Bit(Again(o)')
    BY Zenon DEF Own, Bit
  <1>11. Budget(o)' <=> delay'[o] + ready'[o] + Cardinality(Handlers(o)')
                          + Cardinality(Publishers(o)') + Bit(Again(o)') <= 1 + failures'
    BY Zenon DEF Budget, Messages, Bit
  <1> QED BY <1>4, <1>5, <1>7, <1>8, <1>9, <1>10, <1>11 DEF Budget, Messages, Own

(* Worker w has nothing to do with order o.                                *)
Away(w, o) == o \notin worker[w].batch /\ (worker[w].pc = "idle" \/ worker[w].at # o)

(* A step of a worker that has nothing to do with o.                       *)
LEMMA Elsewhere ==
  ASSUME TypeOK, TypeOK', NEW o \in Orders, OrderFits(o), NEW w \in Workers, Only(w),
         Away(w, o), Away(w, o)',
         order'[o] = order[o], row'[o] = row[o], delay'[o] = delay[o], ready'[o] = ready[o],
         o \in waived' <=> o \in waived, failures' >= failures
  PROVE  OrderFits(o)'
  <1>1. Opened(o)' BY Zenon DEF OrderFits, Opened, Only, Away
  <1>2. (\A v \in Workers : v \in Handlers(o)' <=> v \in Handlers(o))
    BY Zenon DEF Handlers, Only, Away, Handling
  <1>3. Present(o)' <=> Present(o) BY <1>2, Zenon DEF Present
  <1>4. Tracked(o)'
    <2>1. Undecided(o)' => Undecided(o) BY Zenon DEF Undecided
    <2> QED BY <1>3, <2>1, Zenon DEF OrderFits, Tracked, Only, Away
  <1>5. Again(o)' <=> Again(o) BY DEF Again, Holds, Only, Away
  <1>6. Publishes(w, o)' <=> Publishes(w, o) BY Zenon DEF Publishes, Away
  <1>7. /\ Bit(w \in Handlers(o)') = Bit(w \in Handlers(o))
        /\ Bit(Publishes(w, o)') = Bit(Publishes(w, o)) /\ Bit(Again(o)') = Bit(Again(o))
    BY <1>2, <1>5, <1>6, Zenon DEF Bit
  <1>8. Own(w, o)' = delay'[o] + ready'[o] + Bit(w \in Handlers(o)')
                        + Bit(Publishes(w, o)') + Bit(Again(o)')
    BY Zenon DEF Own, Bit
  <1>9. Own(w, o)' = Own(w, o) BY <1>7, <1>8, Zenon DEF Own
  <1>10. Own(w, o) \in Nat /\ failures \in Nat /\ failures' \in Nat
    BY OutboxAssumption DEF Own, Bit, TypeOK
  <1>11. Own(w, o)' <= Own(w, o) + failures' - failures BY <1>9, <1>10
  <1>12. Budget(o)' BY <1>11, OneBudget, Zenon DEF OrderFits
  <1> QED BY <1>1, <1>4, <1>12, Zenon DEF OrderFits

(* What a worker is at tells what the order is.                            *)
LEMMA Known ==
  ASSUME NEW w \in Workers, NEW o \in Orders, Opened(o), ~Away(w, o)
  PROVE  order[o] # "none" /\ row[o].status # "none"
  BY Zenon DEF Opened, Away

(* claimPending uses up the publication that may follow, for every row of  *)
(* its batch.                                                              *)
LEMMA ClaimBatchKeeps ==
  ASSUME TypeOK, WorkersFit, TypeOK', NEW x \in Orders, OrderFits(x),
         NEW w \in Workers, ClaimBatch(w)
  PROVE  OrderFits(x)'
  <1>1. PICK batch \in SUBSET {o \in Orders : Claimable(o)} :
          /\ row' = [o \in Orders |->
               IF o \in batch THEN [row[o] EXCEPT !.owner = w, !.live = TRUE] ELSE row[o]]
          /\ \E o \in batch : worker' = [worker EXCEPT ![w] =
               [pc |-> "publishing", at |-> o, batch |-> batch \ {o}]]
    BY Zenon DEF ClaimBatch
  <1>2. PICK o \in batch : worker' = [worker EXCEPT ![w] =
               [pc |-> "publishing", at |-> o, batch |-> batch \ {o}]]
    BY <1>1, Zenon
  <1>3. /\ worker'[w].pc = "publishing" /\ worker'[w].at = o /\ worker'[w].batch = batch \ {o}
        /\ \A v \in Workers \ {w} : worker'[v] = worker[v]
    BY <1>2, TakeIs, ZenonT(30)
  <1>4. Only(w) BY <1>3, Zenon DEF Only
  <1>5. /\ \A y \in Orders \ batch : row'[y] = row[y]
        /\ \A y \in Orders \cap batch : /\ row'[y].status = row[y].status
                                        /\ row'[y].owner = w /\ row'[y].live
    <2>1. row' = [y \in Orders |->
            IF y \in batch THEN [row[y] EXCEPT !.owner = w, !.live = TRUE] ELSE row[y]]
      BY <1>1, Zenon
    <2>2. /\ \A y \in Orders \ batch : row'[y] = row[y]
          /\ \A y \in Orders \cap batch : row'[y].status = row[y].status /\ row'[y].owner = w
      BY <2>1, BatchIs, Zenon
    <2>3. \A y \in Orders \cap batch : row'[y].live BY <2>1, ZenonT(30) DEF TypeOK, RowType
    <2> QED BY <2>2, <2>3, Zenon
  <1>6. worker[w].pc = "idle" /\ worker[w].batch = {}
    <2>1. worker[w] = Idle BY Zenon DEF ClaimBatch
    <2> QED BY <2>1 DEF Idle
  <1>7. UNCHANGED <<order, delay, ready, failures, waived>> BY Zenon DEF ClaimBatch
  <1>8. CASE x \notin batch
    <2>1. Away(w, x) /\ Away(w, x)' BY <1>3, <1>6, <1>8, Zenon DEF Away
    <2>2. row'[x] = row[x] /\ failures' >= failures
      BY <1>5, <1>7, <1>8, OutboxAssumption DEF TypeOK
    <2> QED BY <1>4, <1>7, <2>1, <2>2, Elsewhere, Zenon
  <1>9. CASE x \in batch
    <2>1. row[x].status \in {"pending", "failed"} /\ ~row[x].live
      BY <1>9, Zenon DEF Claimable
    <2>2. /\ row'[x].status = row[x].status /\ row'[x].owner = w /\ row'[x].live
      BY <1>5, <1>9, Zenon
    <2>3. Opened(x)'
      BY <1>7, <2>1, <2>2, Zenon DEF OrderFits, Opened
    <2>4. Tracked(x)'
      <3>1. Undecided(x)' => Undecided(x) BY <1>7, Zenon DEF Undecided
      <3>2. Present(x) => Present(x)'
        BY <1>4, <1>6, <1>7, Zenon DEF Present, Handlers, Only, Handling
      <3> QED BY <1>3, <1>4, <2>1, <2>2, <3>1, <3>2, Zenon DEF OrderFits, Tracked, Only
    <2>5. Again(x) /\ ~Again(x)'
      <3>1. Again(x) BY <2>1, Zenon DEF Again, Holds
      <3>2. Holds(w, x)' BY <1>3, <1>9, <2>2, Zenon DEF Holds
      <3> QED BY <3>1, <3>2, Zenon DEF Again
    <2>6. ~Publishes(w, x) /\ w \notin Handlers(x) /\ w \notin Handlers(x)'
      BY <1>3, <1>6, Zenon DEF Publishes, Handlers, Handling
    <2>7. Own(w, x)' <= Own(w, x) + failures' - failures
      BY <1>7, <2>5, <2>6, OutboxAssumption DEF Own, Bit, TypeOK
    <2>8. Budget(x)' BY <1>4, <2>7, OneBudget, Zenon DEF OrderFits
    <2> QED BY <2>3, <2>4, <2>8, Zenon DEF OrderFits
  <1> QED BY <1>8, <1>9, Zenon

(* A step of w leaves the row as free as it was, unless w gives up a lease *)
(* or fails under it.                                                      *)
LEMMA AgainKept ==
  ASSUME NEW o \in Orders, NEW w \in Workers, Only(w), row'[o] = row[o],
         Holds(w, o) => Holds(w, o)',
         worker'[w].pc = "failing" /\ worker'[w].at = o /\ row[o].owner = w
           => worker[w].pc = "failing" /\ worker[w].at = o,
         Again(o)'
  PROVE  Again(o)
  <1>1. \A v \in Workers : Holds(v, o) => Holds(v, o)'
    BY Zenon DEF Holds, Only
  <1>2. \A v \in Workers :
          worker'[v].pc = "failing" /\ worker'[v].at = o /\ row[o].owner = v
            => worker[v].pc = "failing" /\ worker[v].at = o
    BY Zenon DEF Only
  <1> QED BY <1>1, <1>2, Zenon DEF Again

(* Messages in the hands of other workers, or in the broker, stay.         *)
LEMMA PresentKept ==
  ASSUME NEW o \in Orders, NEW w \in Workers, Only(w), Present(o),
         delay[o] > 0 => delay'[o] > 0, ready[o] > 0 => ready'[o] > 0,
         w \in Handlers(o) => w \in Handlers(o)' \/ ready'[o] > 0
  PROVE  Present(o)'
  <1>1. \A v \in Workers \ {w} : v \in Handlers(o) => v \in Handlers(o)'
    BY Zenon DEF Handlers, Only
  <1> QED BY <1>1, Zenon DEF Present

(* A confirmed publication turns a publisher into a message; one without a *)
(* confirmation is a failure.                                              *)
LEMMA PublishKeeps ==
  ASSUME TypeOK, WorkersFit, TypeOK', NEW x \in Orders, OrderFits(x),
         NEW w \in Workers, Publish(w)
  PROVE  OrderFits(x)'
  <1> DEFINE o == worker[w].at
  <1>1. /\ worker[w].pc = "publishing" /\ UNCHANGED <<order, row, ready, waived>>
        /\ o \in Orders /\ o \notin worker[w].batch
    BY Zenon DEF Publish, WorkersFit, Shape
  <1>2. PICK pc \in {"acked", "failing"} :
          /\ At(w, pc)
          /\ pc = "acked" => delay' = [delay EXCEPT ![o] = @ + 1] /\ failures' = failures
          /\ pc = "failing" => /\ failures' = failures + 1
                               /\ delay' \in {delay, [delay EXCEPT ![o] = @ + 1]}
    BY Zenon DEF Publish, Fail
  <1>3. /\ worker'[w].pc = pc /\ worker'[w].at = o /\ worker'[w].batch = worker[w].batch
        /\ \A v \in Workers \ {w} : worker'[v] = worker[v]
    BY <1>2, AtIs, Zenon
  <1>4. Only(w) BY <1>3, Zenon DEF Only
  <1>5. /\ \A y \in Orders \ {o} : delay'[y] = delay[y]
        /\ delay'[o] \in {delay[o], delay[o] + 1}
        /\ pc = "acked" => delay'[o] = delay[o] + 1
    BY <1>1, <1>2, Zenon DEF TypeOK
  <1>6. /\ failures \in Nat /\ failures' \in Nat /\ delay[x] \in Nat /\ ready[x] \in Nat
        /\ failures' = failures + Bit(pc = "failing")
    BY <1>2, OutboxAssumption DEF TypeOK, Bit
  <1>7. CASE Away(w, x)
    <2>1. x # o /\ Away(w, x)' BY <1>1, <1>3, <1>7, Zenon DEF Away
    <2>2. failures' >= failures BY <1>6 DEF Bit
    <2> QED BY <1>1, <1>4, <1>5, <1>7, <2>1, <2>2, Elsewhere, Zenon
  <1>8. CASE ~Away(w, x)
    <2> HIDE DEF o
    <2>1. Opened(x)' BY <1>1, <1>8, Known, Zenon DEF OrderFits, Opened
    <2>2. Present(x) => Present(x)'
      <3>1. \A v \in Workers : v \in Handlers(x) => v \in Handlers(x)'
        BY <1>1, <1>3, Zenon DEF Handlers, Handling
      <3>2. delay[x] > 0 => delay'[x] > 0 BY <1>5, <1>6
      <3> QED BY <1>1, <3>1, <3>2, Zenon DEF Present
    <2>3. x = o /\ pc = "acked" => Present(x)' BY <1>5, <1>6 DEF Present
    <2>4. Tracked(x)'
      <3>1. Undecided(x)' => Undecided(x) BY <1>1, Zenon DEF Undecided
      <3> QED BY <1>1, <1>2, <1>3, <1>4, <2>2, <2>3, <3>1, Zenon DEF OrderFits, Tracked, Only
    <2>5. w \notin Handlers(x) /\ w \notin Handlers(x)'
      BY <1>1, <1>2, <1>3, Zenon DEF Handlers, Handling
    <2>6. Publishes(w, x) BY <1>1, <1>8, Zenon DEF Publishes, Away, o
    <2>7. CASE pc = "failing"
      <3>1. ~Publishes(w, x)' BY <1>3, <2>7, Zenon DEF Publishes
      <3>2. delay'[x] <= delay[x] + 1 /\ delay'[x] \in Nat BY <1>5, <1>6 DEF TypeOK
      <3>3. Own(w, x)' <= Own(w, x) + failures' - failures
        BY <1>1, <1>6, <2>5, <2>6, <2>7, <3>1, <3>2 DEF Own, Bit
      <3>4. Budget(x)' BY <1>4, <3>3, OneBudget, Zenon DEF OrderFits
      <3> QED BY <2>1, <2>4, <3>4, Zenon DEF OrderFits
    <2>8. CASE pc = "acked"
      <3>1. Again(x)' => Again(x)
        <4>1. Holds(w, x) => Holds(w, x)' BY <1>1, <1>3, <2>8, Zenon DEF Holds, o
        <4> QED BY <1>1, <1>3, <1>4, <2>8, <4>1, AgainKept, Zenon
      <3>2. delay'[x] + Bit(Publishes(w, x)') = delay[x] + 1
        <4>1. CASE x = o
          <5>1. ~Publishes(w, x)' BY <1>1, <1>3, <2>8, <4>1, Zenon DEF Publishes
          <5> QED BY <1>5, <1>6, <2>8, <4>1, <5>1 DEF Bit
        <4>2. CASE x # o
          <5>1. Publishes(w, x)' BY <1>3, <1>8, <2>8, <4>2, Zenon DEF Publishes, Away, o
          <5> QED BY <1>5, <4>2, <5>1, Zenon DEF Bit
        <4> QED BY <4>1, <4>2, Zenon
      <3>3. delay'[x] \in Nat BY Zenon DEF TypeOK
      <3>4. Own(w, x)' <= Own(w, x) + failures' - failures
        BY <1>1, <1>6, <2>5, <2>6, <2>8, <3>1, <3>2, <3>3 DEF Own, Bit
      <3>5. Budget(x)' BY <1>4, <3>4, OneBudget, Zenon DEF OrderFits
      <3> QED BY <2>1, <2>4, <3>5, Zenon DEF OrderFits
    <2> QED BY <1>2, <2>7, <2>8, Zenon
  <1> QED BY <1>7, <1>8, Zenon

(* markOutboxPublished: the row follows a message that is there, and a     *)
(* worker that lost its lease had one failure before.                      *)
LEMMA MarkPublishedKeeps ==
  ASSUME TypeOK, WorkersFit, TypeOK', NEW x \in Orders, OrderFits(x),
         NEW w \in Workers, MarkPublished(w)
  PROVE  OrderFits(x)'
  <1> DEFINE o == worker[w].at
             rest == worker[w].batch
  <1>1. /\ worker[w].pc = "acked" /\ UNCHANGED <<order, delay, ready, failures, waived>>
        /\ o \in Orders /\ o \notin rest /\ rest \subseteq Orders
    BY Zenon DEF MarkPublished, WorkersFit, Shape, WorkerState
  <1>2. row' = Leased(w, o, "published", TRUE) BY Zenon DEF MarkPublished
  <1>3. /\ \A y \in Orders \ {o} : row'[y] = row[y]
        /\ row[o].owner # w => row'[o] = row[o]
        /\ row[o].owner = w => row'[o].status = "published" /\ row'[o].owner = Nobody
    <2>1. "published" \in RowStatus /\ TRUE \in BOOLEAN BY Zenon DEF RowStatus
    <2> HIDE DEF o
    <2> QED BY <1>1, <1>2, <2>1, LeasedIs, ZenonT(30)
  <1>4. /\ Only(w) /\ worker'[w].pc \in {"idle", "publishing"}
        /\ worker'[w].pc = "publishing" =>
             /\ worker'[w].at # o /\ row[o].owner = w
             /\ \A y \in rest : worker'[w].at = y \/ y \in worker'[w].batch
        /\ worker'[w].pc = "idle" => row[o].owner # w \/ rest = {}
        /\ worker'[w].batch \subseteq rest
        /\ worker'[w].pc = "publishing" => worker'[w].at \in rest
    <2>1. CASE row[o].owner = w /\ rest # {}
      <3>1. PICK n \in rest : worker' = [worker EXCEPT ![w] =
                    [pc |-> "publishing", at |-> n, batch |-> rest \ {n}]]
        BY <2>1, Zenon DEF MarkPublished
      <3>2. /\ worker'[w].pc = "publishing" /\ worker'[w].at = n
            /\ worker'[w].batch = rest \ {n}
            /\ \A v \in Workers \ {w} : worker'[v] = worker[v]
        BY <3>1, TakeIs, Zenon
      <3> HIDE DEF o, rest
      <3> QED BY <1>1, <2>1, <3>2, Zenon DEF Only
    <2>2. CASE ~(row[o].owner = w /\ rest # {})
      <3>1. Stop(w) BY <2>2, Zenon DEF MarkPublished
      <3>2. /\ worker'[w].pc = "idle" /\ worker'[w].batch = {}
            /\ \A v \in Workers \ {w} : worker'[v] = worker[v]
        BY <3>1, StopIs, Zenon
      <3> QED BY <2>2, <3>2, Zenon DEF Only
    <2> QED BY <2>1, <2>2, Zenon
  <1>5. failures \in Nat /\ delay[x] \in Nat /\ ready[x] \in Nat
    BY OutboxAssumption DEF TypeOK
  <1> HIDE DEF o, rest
  <1>6. CASE Away(w, x)
    <2>1. x # o /\ Away(w, x)' BY <1>1, <1>4, <1>6, Zenon DEF Away, o, rest
    <2> QED BY <1>1, <1>3, <1>4, <1>5, <1>6, <2>1, Elsewhere
  <1>7. CASE ~Away(w, x)
    <2>1. x = o \/ x \in rest BY <1>7, Zenon DEF Away, o, rest
    <2>2. order[x] # "none" /\ row[x].status # "none" BY <1>7, Known, Zenon DEF OrderFits
    <2>3. Opened(x)' BY <1>1, <1>3, <2>2, Zenon DEF Opened
    <2>4. w \notin Handlers(x) /\ w \notin Handlers(x)'
      BY <1>1, <1>4, Zenon DEF Handlers, Handling
    <2>5. Present(x) => Present(x)' BY <1>1, <1>4, <2>4, PresentKept, Zenon
    <2>6. Tracked(x)'
      <3>1. Undecided(x)' => Undecided(x) BY <1>1, Zenon DEF Undecided
      <3>2. Undecided(x) /\ x = o => Present(x) BY <1>1, Zenon DEF OrderFits, Tracked, o
      <3>3. row'[x] = row[x] \/ (x = o /\ row'[x].status = "published") BY <1>3, Zenon
      <3> QED BY <1>4, <2>5, <3>1, <3>2, <3>3, Zenon DEF OrderFits, Tracked, Only
    <2>7. CASE x = o
      <3>1. ~Publishes(w, x)' BY <1>1, <1>4, <2>7, Zenon DEF Publishes
      <3>2. Again(x)' => Again(x)
        <4>1. CASE row[o].owner = w
          BY <1>3, <2>7, <4>1, WorkersAssumption, Zenon DEF Again
        <4>2. CASE row[o].owner # w
          <5>1. row'[x] = row[x] /\ ~Holds(w, x) BY <1>3, <2>7, <4>2, Zenon DEF Holds
          <5> QED BY <1>4, <5>1, AgainKept, Zenon
        <4> QED BY <4>1, <4>2, Zenon
      <3>3. Own(w, x)' <= Own(w, x) + failures' - failures
        BY <1>1, <1>5, <2>4, <3>1, <3>2 DEF Own, Bit
      <3>4. Budget(x)' BY <1>4, <3>3, OneBudget, Zenon DEF OrderFits
      <3> QED BY <2>3, <2>6, <3>4, Zenon DEF OrderFits
    <2>8. CASE x \in rest
      <3>1. Publishes(w, x) /\ row'[x] = row[x] BY <1>1, <1>3, <2>8, Zenon DEF Publishes, rest
      <3>2. Bit(Publishes(w, x)') + Bit(Again(x)') <= 1 + Bit(Again(x))
        <4>1. CASE worker'[w].pc = "idle"
          <5>1. ~Publishes(w, x)' BY <4>1, Zenon DEF Publishes
          <5> QED BY <5>1 DEF Bit
        <4>2. CASE worker'[w].pc = "publishing"
          <5>1. Holds(w, x) => Holds(w, x)' BY <1>4, <2>8, <3>1, <4>2, Zenon DEF Holds
          <5>2. Again(x)' => Again(x) BY <1>4, <3>1, <4>2, <5>1, AgainKept, Zenon
          <5> QED BY <5>2 DEF Bit
        <4> QED BY <1>4, <4>1, <4>2, Zenon
      <3>3. Own(w, x)' <= Own(w, x) + failures' - failures
        BY <1>1, <1>5, <2>4, <3>1, <3>2, SMTT(30) DEF Own, Bit
      <3>4. Budget(x)' BY <1>4, <3>3, OneBudget, Zenon DEF OrderFits
      <3> QED BY <2>3, <2>6, <3>4, Zenon DEF OrderFits
    <2> QED BY <2>1, <2>7, <2>8, Zenon
  <1> QED BY <1>6, <1>7, Zenon

(* markOutboxFailure: the row is up again, as Again has counted since the  *)
(* publication failed.                                                     *)
LEMMA MarkFailureKeeps ==
  ASSUME TypeOK, WorkersFit, TypeOK', NEW x \in Orders, OrderFits(x),
         NEW w \in Workers, MarkFailure(w)
  PROVE  OrderFits(x)'
  <1> DEFINE o == worker[w].at
  <1>1. /\ worker[w].pc = "failing" /\ UNCHANGED <<order, delay, ready, failures, waived>>
        /\ o \in Orders
    BY Zenon DEF MarkFailure, WorkersFit, Shape
  <1>2. row' = Leased(w, o, "failed", FALSE) BY Zenon DEF MarkFailure
  <1>3. /\ \A y \in Orders \ {o} : row'[y] = row[y]
        /\ row[o].owner # w => row'[o] = row[o]
        /\ row[o].owner = w => row'[o].status = "failed" /\ row'[o].owner = Nobody
    <2>1. "failed" \in RowStatus /\ FALSE \in BOOLEAN BY Zenon DEF RowStatus
    <2> HIDE DEF o
    <2> QED BY <1>1, <1>2, <2>1, LeasedIs, ZenonT(30)
  <1>4. /\ Only(w) /\ worker'[w].pc \in {"idle", "releasing"}
        /\ worker'[w].pc = "idle" => worker'[w].batch = {}
        /\ worker'[w].pc = "releasing" => /\ worker'[w].at = o
                                          /\ worker'[w].batch = worker[w].batch
    <2>1. Stop(w) \/ At(w, "releasing") BY Zenon DEF MarkFailure
    <2>2. CASE Stop(w) BY <2>2, StopIs, Zenon DEF Only
    <2>3. CASE At(w, "releasing")
      <3>1. /\ worker'[w].pc = "releasing" /\ worker'[w].at = o
            /\ worker'[w].batch = worker[w].batch /\ Only(w)
        BY <2>3, AtIs, Zenon DEF Only
      <3> QED BY <3>1, Zenon
    <2> QED BY <2>1, <2>2, <2>3, Zenon
  <1>5. failures \in Nat /\ delay[x] \in Nat /\ ready[x] \in Nat
    BY OutboxAssumption DEF TypeOK
  <1> HIDE DEF o
  <1>6. CASE Away(w, x)
    <2>1. x # o /\ Away(w, x)' BY <1>1, <1>4, <1>6, ZenonT(30) DEF Away, o
    <2> QED BY <1>1, <1>3, <1>4, <1>5, <1>6, <2>1, Elsewhere
  <1>7. CASE ~Away(w, x)
    <2>2. order[x] # "none" /\ row[x].status # "none" BY <1>7, Known, Zenon DEF OrderFits
    <2>3. Opened(x)' BY <1>1, <1>3, <2>2, Zenon DEF Opened
    <2>4. /\ w \notin Handlers(x) /\ w \notin Handlers(x)'
          /\ ~Publishes(w, x) /\ ~Publishes(w, x)'
      BY <1>1, <1>4, Zenon DEF Handlers, Handling, Publishes
    <2>5. Present(x) => Present(x)' BY <1>1, <1>4, <2>4, PresentKept, Zenon
    <2>6. Tracked(x)'
      <3>1. Undecided(x)' => Undecided(x) BY <1>1, Zenon DEF Undecided
      <3>2. row'[x] = row[x] \/ row'[x].status = "failed" BY <1>3, Zenon
      <3> QED BY <1>4, <2>5, <3>1, <3>2, Zenon DEF OrderFits, Tracked, Only
    <2>7. Again(x)' => Again(x)
      <3>1. CASE row'[x] = row[x]
        <4>1. ~Holds(w, x) BY <1>1, Zenon DEF Holds
        <4> QED BY <1>4, <3>1, <4>1, AgainKept, Zenon
      <3>2. CASE x = o /\ row[o].owner = w
        <4>1. \A v \in Workers : ~Holds(v, x) BY <1>1, <3>2, Zenon DEF Holds
        <4> QED BY <1>1, <3>2, <4>1, Zenon DEF Again, o
      <3> QED BY <1>3, <3>1, <3>2, Zenon
    <2>8. Own(w, x)' <= Own(w, x) + failures' - failures
      BY <1>1, <1>5, <2>4, <2>7 DEF Own, Bit
    <2>9. Budget(x)' BY <1>4, <2>8, OneBudget, Zenon DEF OrderFits
    <2> QED BY <2>3, <2>6, <2>9, Zenon DEF OrderFits
  <1> QED BY <1>6, <1>7, Zenon

(* releaseClaimedLeases: the rows were up again since the failure.         *)
LEMMA ReleaseKeeps ==
  ASSUME TypeOK, WorkersFit, TypeOK', NEW x \in Orders, OrderFits(x),
         NEW w \in Workers, ReleaseLeases(w)
  PROVE  OrderFits(x)'
  <1>1. worker[w].pc = "releasing" /\ UNCHANGED <<order, delay, ready, failures, waived>>
    BY Zenon DEF ReleaseLeases
  <1>2. Only(w) /\ worker'[w].pc = "idle" /\ worker'[w].batch = {}
    BY StopIs, Zenon DEF ReleaseLeases, Only
  <1>3. \/ row'[x] = row[x]
        \/ /\ row[x].owner = w /\ row'[x].status = row[x].status /\ row'[x].owner = Nobody
           /\ x \in worker[w].batch
    <2>1. row'[x] = IF x \in worker[w].batch /\ row[x].owner = w
                      THEN [row[x] EXCEPT !.owner = Nobody, !.live = FALSE] ELSE row[x]
      BY Zenon DEF ReleaseLeases
    <2>2. row[x] \in RowType BY Zenon DEF TypeOK
    <2> QED BY <2>1, <2>2, Zenon DEF RowType
  <1>5. failures \in Nat /\ delay[x] \in Nat /\ ready[x] \in Nat
    BY OutboxAssumption DEF TypeOK
  <1>6. CASE Away(w, x)
    <2>1. row'[x] = row[x] /\ Away(w, x)' BY <1>2, <1>3, <1>6, ZenonT(30) DEF Away
    <2> QED BY <1>1, <1>2, <1>5, <1>6, <2>1, Elsewhere
  <1>7. CASE ~Away(w, x)
    <2>2. order[x] # "none" /\ row[x].status # "none" BY <1>7, Known, Zenon DEF OrderFits
    <2>3. Opened(x)' BY <1>1, <1>3, <2>2, Zenon DEF Opened
    <2>4. /\ w \notin Handlers(x) /\ w \notin Handlers(x)'
          /\ ~Publishes(w, x) /\ ~Publishes(w, x)'
      BY <1>1, <1>2, Zenon DEF Handlers, Handling, Publishes
    <2>5. Present(x) => Present(x)' BY <1>1, <1>2, <2>4, PresentKept, Zenon
    <2>6. Tracked(x)'
      <3>1. Undecided(x)' => Undecided(x) BY <1>1, Zenon DEF Undecided
      <3>2. row'[x].status = row[x].status BY <1>3, Zenon
      <3> QED BY <1>2, <2>5, <3>1, <3>2, Zenon DEF OrderFits, Tracked, Only
    <2>7. Again(x)' => Again(x)
      <3>1. CASE row'[x] = row[x]
        <4>1. ~Holds(w, x) BY <1>1, Zenon DEF Holds
        <4> QED BY <1>2, <3>1, <4>1, AgainKept, Zenon
      <3>2. CASE row[x].owner = w /\ row'[x].status = row[x].status /\ row'[x].owner = Nobody
        <4>1. \A v \in Workers : ~Holds(v, x) BY <1>1, <3>2, Zenon DEF Holds
        <4> QED BY <3>2, <4>1, WorkersAssumption, Zenon DEF Again
      <3> QED BY <1>3, <3>1, <3>2, Zenon
    <2>8. Own(w, x)' <= Own(w, x) + failures' - failures
      BY <1>1, <1>5, <2>4, <2>7 DEF Own, Bit
    <2>9. Budget(x)' BY <1>2, <2>8, OneBudget, Zenon DEF OrderFits
    <2> QED BY <2>3, <2>6, <2>9, Zenon DEF OrderFits
  <1> QED BY <1>6, <1>7, Zenon

(* A worker without anything to publish moves messages only.               *)
LEMMA HandBudget ==
  ASSUME TypeOK, TypeOK', NEW o \in Orders, Budget(o), NEW w \in Workers, Only(w),
         worker[w].pc \in Handling \cup {"idle"}, worker'[w].pc \in Handling \cup {"idle"},
         worker[w].batch = {}, worker'[w].batch = {},
         row'[o] = row[o] \/ ~Again(o)',
         delay'[o] + ready'[o] + Bit(w \in Handlers(o)')
           <= delay[o] + ready[o] + Bit(w \in Handlers(o)) + failures' - failures
  PROVE  Budget(o)'
  <1>1. ~Publishes(w, o) /\ ~Publishes(w, o)' /\ ~Holds(w, o)
    BY Zenon DEF Publishes, Holds, Handling
  <1>2. Again(o)' => Again(o)
    BY <1>1, AgainKept, Zenon DEF Handling
  <1>3. /\ failures \in Nat /\ failures' \in Nat /\ delay[o] \in Nat /\ ready[o] \in Nat
        /\ delay'[o] \in Nat /\ ready'[o] \in Nat
    BY OutboxAssumption DEF TypeOK
  <1>4. Own(w, o)' <= Own(w, o) + failures' - failures
    BY <1>1, <1>2, <1>3 DEF Own, Bit
  <1> QED BY <1>4, OneBudget, Zenon

(* What a worker that handles a delivery is like.                          *)
LEMMA HandlerIs ==
  ASSUME WorkersFit, NEW w \in Workers, worker[w].pc \in Handling
  PROVE  worker[w].at \in Orders /\ worker[w].batch = {} /\ w \in Handlers(worker[w].at)
  BY Zenon DEF WorkersFit, Shape, Handlers, Handling, Publishing

(* A delivery moves a message into the hands of a worker.                  *)
LEMMA DeliverKeeps ==
  ASSUME TypeOK, WorkersFit, TypeOK', NEW x \in Orders, OrderFits(x),
         NEW w \in Workers, NEW o \in Orders, Deliver(w, o)
  PROVE  OrderFits(x)'
  <1>1. UNCHANGED <<order, row, delay, failures, waived>> /\ ready[o] > 0
        /\ ready' = [ready EXCEPT ![o] = @ - 1]
    BY Zenon DEF Deliver
  <1>2. worker[w].pc = "idle" /\ worker[w].batch = {}
    <2>1. worker[w] = Idle BY Zenon DEF Deliver
    <2> QED BY <2>1 DEF Idle
  <1>3. /\ worker'[w].pc = "delivered" /\ worker'[w].at = o /\ worker'[w].batch = {}
        /\ Only(w)
    BY TakeIs, ZenonT(30) DEF Deliver, Only
  <1>5. failures \in Nat /\ delay[x] \in Nat /\ ready[x] \in Nat
    BY OutboxAssumption DEF TypeOK
  <1>6. CASE x # o
    <2>1. Away(w, x) /\ Away(w, x)' BY <1>2, <1>3, <1>6, Zenon DEF Away
    <2>2. ready'[x] = ready[x] BY <1>1, <1>6, Zenon DEF TypeOK
    <2> QED BY <1>1, <1>3, <1>5, <2>1, <2>2, Elsewhere
  <1>7. CASE x = o
    <2>1. ready'[x] = ready[x] - 1 BY <1>1, <1>7, Zenon DEF TypeOK
    <2>2. Opened(x)' BY <1>1, <1>5, <1>7 DEF OrderFits, Opened
    <2>3. w \in Handlers(x)' /\ w \notin Handlers(x)
      BY <1>2, <1>3, <1>7, Zenon DEF Handlers, Handling
    <2>4. Present(x)' BY <2>3, Zenon DEF Present
    <2>5. Tracked(x)'
      <3>1. Undecided(x)' => Undecided(x) BY <1>1, Zenon DEF Undecided
      <3> QED BY <1>1, <1>3, <2>4, <3>1, Zenon DEF OrderFits, Tracked, Only
    <2>6. delay'[x] + ready'[x] + Bit(w \in Handlers(x)')
           <= delay[x] + ready[x] + Bit(w \in Handlers(x)) + failures' - failures
      BY <1>1, <1>5, <2>1, <2>3 DEF Bit
    <2>7. worker[w].pc \in Handling \cup {"idle"} /\ worker'[w].pc \in Handling \cup {"idle"}
      BY <1>2, <1>3, Zenon DEF Handling
    <2>8. Budget(x)' BY <1>1, <1>2, <1>3, <2>6, <2>7, HandBudget, Zenon DEF OrderFits
    <2> QED BY <2>2, <2>5, <2>8, Zenon DEF OrderFits
  <1> QED BY <1>6, <1>7, Zenon

(* The steps of a handler that leave the row alone: it goes on, or it ends *)
(* and the message is acknowledged or back in the queue.                   *)
LEMMA HandlerKeeps ==
  ASSUME TypeOK, WorkersFit, TypeOK', NEW x \in Orders, OrderFits(x),
         NEW w \in Workers,
         \/ CallCancel(w) \/ LoseCancel(w) \/ Requeue(w) \/ Acknowledge(w)
         \/ worker[w].pc \in Handling /\ EndSession(w)
  PROVE  OrderFits(x)'
  <1> DEFINE o == worker[w].at
  <1>1. worker[w].pc \in Handling /\ UNCHANGED <<row, delay>>
    BY Zenon DEF CallCancel, LoseCancel, Requeue, Acknowledge, EndSession, Handling
  <1>2. o \in Orders /\ worker[w].batch = {} /\ w \in Handlers(o) BY <1>1, HandlerIs, Zenon
  <1>3. failures' \in {failures, failures + 1}
    BY Zenon DEF CallCancel, LoseCancel, Requeue, Acknowledge, EndSession, Fail
  <1>4. /\ failures \in Nat /\ failures' \in Nat /\ failures' >= failures
        /\ delay[x] \in Nat /\ ready[x] \in Nat
    BY <1>3, OutboxAssumption DEF TypeOK
  <1>5. /\ Only(w) /\ worker'[w].batch = {}
        /\ worker'[w].pc \in {"waiting", "resolved", "refused", "idle"}
        /\ worker'[w].pc # "idle" => worker'[w].at = o
    <2>1. Stop(w) \/ At(w, "waiting") \/ At(w, "resolved") \/ At(w, "refused")
      BY Zenon DEF CallCancel, LoseCancel, Requeue, Acknowledge, EndSession
    <2>2. CASE Stop(w) BY <2>2, StopIs, Zenon DEF Only
    <2>3. ASSUME NEW pc \in {"waiting", "resolved", "refused"}, At(w, pc)
          PROVE  /\ Only(w) /\ worker'[w].batch = {} /\ worker'[w].pc = pc
                 /\ worker'[w].at = o
      BY <1>2, <2>3, AtIs, Zenon DEF Only
    <2> QED BY <2>1, <2>2, <2>3, Zenon
  <1>6. \/ worker'[w].pc = "idle" /\ ready' = [ready EXCEPT ![o] = @ + 1]
        \/ worker'[w].pc = "idle" /\ worker[w].pc = "acking" /\ UNCHANGED ready
        \/ worker'[w].pc # "idle" /\ UNCHANGED ready
    <2>1. CASE CallCancel(w) \/ LoseCancel(w)
      <3>1. UNCHANGED ready BY <2>1, Zenon DEF CallCancel, LoseCancel
      <3>2. At(w, "waiting") \/ At(w, "resolved") \/ At(w, "refused")
        BY <2>1, Zenon DEF CallCancel, LoseCancel
      <3>3. worker'[w].pc \in {"waiting", "resolved", "refused"} BY <3>2, AtIs, Zenon
      <3> QED BY <3>1, <3>3, Zenon
    <2>2. CASE Requeue(w) \/ EndSession(w)
      BY <1>1, <2>2, StopIs, Zenon DEF Requeue, EndSession
    <2>3. CASE Acknowledge(w) BY <2>3, StopIs, Zenon DEF Acknowledge
    <2> QED BY <2>1, <2>2, <2>3, Zenon
  <1>7. \/ UNCHANGED <<order, waived>>
        \/ /\ order[o] = "pending" /\ order' = [order EXCEPT ![o] = "busy"]
           /\ UNCHANGED waived /\ worker'[w].pc = "waiting"
        \/ /\ order[o] # "pending" /\ UNCHANGED order
           /\ waived' = IF order[o] = "busy" THEN waived \cup {o} ELSE waived
           /\ worker'[w].pc = "resolved"
    <2>1. CASE CallCancel(w) BY <2>1, AtIs, Zenon DEF CallCancel
    <2> QED BY <2>1, Zenon DEF LoseCancel, Requeue, Acknowledge, EndSession
  <1>8. worker'[w].pc = "resolved" => CallCancel(w)
    <2>1. LoseCancel(w) => worker'[w].pc = "refused" BY AtIs, Zenon DEF LoseCancel
    <2>2. Requeue(w) \/ Acknowledge(w) \/ EndSession(w) => worker'[w].pc = "idle"
      BY StopIs, Zenon DEF Requeue, Acknowledge, EndSession
    <2> QED BY <2>1, <2>2, Zenon
  <1> HIDE DEF o
  <1>9. CASE x # o
    <2>1. Away(w, x) /\ Away(w, x)' BY <1>2, <1>5, <1>9, Zenon DEF Away, o
    <2>2. ready'[x] = ready[x] BY <1>6, <1>9, Zenon DEF TypeOK
    <2>3. order'[x] = order[x] /\ (x \in waived' <=> x \in waived)
      BY <1>7, <1>9, Zenon DEF TypeOK
    <2> QED BY <1>1, <1>4, <1>5, <2>1, <2>2, <2>3, Elsewhere, Zenon
  <1>10. CASE x = o
    <2>1. order[x] # "none" /\ row[x].status # "none"
      BY <1>1, <1>10, Zenon DEF OrderFits, Opened, o, Handling
    <2>2. order'[x] # "none" BY <1>7, <1>10, <2>1, Zenon DEF TypeOK
    <2>3. Opened(x)' BY <1>1, <2>1, <2>2, Zenon DEF Opened
    <2>4. w \in Handlers(x)' <=> worker'[w].pc # "idle"
      BY <1>5, <1>10, Zenon DEF Handlers, Handling
    <2>5. /\ ready'[x] \in Nat
          /\ ready'[x] = ready[x] \/ (worker'[w].pc = "idle" /\ ready'[x] = ready[x] + 1)
      BY <1>6, <1>10, Zenon DEF TypeOK
    <2>6. Undecided(x)' => Undecided(x)
      BY <1>7, <1>10, Zenon DEF Undecided, TypeOK
    <2>7. Undecided(x)' => worker'[w].pc # "resolved" /\ worker[w].pc # "acking"
      <3>1. worker[w].pc = "acking" => ~Undecided(x) BY <1>10, Zenon DEF OrderFits, Tracked, o
      <3>2. worker'[w].pc = "resolved" => ~Undecided(x)'
        <4>1. SUFFICES ASSUME worker'[w].pc = "resolved" PROVE ~Undecided(x)' BY Zenon
        <4>2. CallCancel(w) BY <1>8, <4>1, Zenon
        <4>3. /\ order[o] # "pending" /\ UNCHANGED order
              /\ waived' = IF order[o] = "busy" THEN waived \cup {o} ELSE waived
          <5>1. At(w, "waiting") => worker'[w].pc = "waiting" BY AtIs, Zenon
          <5> QED BY <4>1, <4>2, <5>1, Zenon DEF CallCancel, o
        <4> QED BY <1>10, <4>3, Zenon DEF Undecided
      <3> QED BY <2>6, <3>1, <3>2, Zenon
    <2>8. Undecided(x)' => Present(x)'
      <3>1. CASE worker'[w].pc # "idle" BY <2>4, <3>1, Zenon DEF Present
      <3>2. CASE worker'[w].pc = "idle" /\ worker[w].pc # "acking"
        <4>1. ready'[x] = ready[x] + 1 BY <1>2, <1>6, <1>10, <3>2, Zenon DEF TypeOK
        <4> QED BY <1>4, <4>1 DEF Present
      <3> QED BY <2>7, <3>1, <3>2, Zenon
    <2>9. Tracked(x)'
      BY <1>1, <1>5, <2>6, <2>7, <2>8, Zenon DEF OrderFits, Tracked, Only
    <2>10. delay'[x] + ready'[x] + Bit(w \in Handlers(x)')
           <= delay[x] + ready[x] + Bit(w \in Handlers(x)) + failures' - failures
      BY <1>1, <1>2, <1>4, <1>10, <2>4, <2>5 DEF Bit
    <2>11. worker[w].pc \in Handling \cup {"idle"} /\ worker'[w].pc \in Handling \cup {"idle"}
      BY <1>1, <1>5, Zenon DEF Handling
    <2>12. Budget(x)' BY <1>1, <1>2, <1>5, <2>10, <2>11, HandBudget, Zenon DEF OrderFits
    <2> QED BY <2>3, <2>9, <2>12, Zenon DEF OrderFits
  <1> QED BY <1>9, <1>10, Zenon
-----------------------------------------------------------------------------
(* handleDelivery completes the row of an order that is decided.           *)
LEMMA CompleteKeeps ==
  ASSUME TypeOK, WorkersFit, TypeOK', NEW x \in Orders, OrderFits(x),
         NEW w \in Workers, Complete(w)
  PROVE  OrderFits(x)'
  <1> DEFINE o == worker[w].at
  <1>1. worker[w].pc = "resolved" /\ UNCHANGED <<order, delay, ready, failures, waived>>
    BY Zenon DEF Complete
  <1>2. o \in Orders /\ worker[w].batch = {} /\ w \in Handlers(o)
    BY <1>1, HandlerIs, Zenon DEF Handling
  <1>3. /\ worker'[w].pc = "acking" /\ worker'[w].at = o /\ worker'[w].batch = {} /\ Only(w)
    <2>1. At(w, "acking") BY Zenon DEF Complete
    <2> QED BY <1>2, <2>1, AtIs, Zenon DEF Only
  <1>4. /\ \A y \in Orders \ {o} : row'[y] = row[y]
        /\ row'[o].status = "completed" /\ row'[o].owner = Nobody
    <2>1. row' = [row EXCEPT ![o] =
                   [@ EXCEPT !.status = "completed", !.owner = Nobody, !.live = FALSE]]
      BY Zenon DEF Complete
    <2> HIDE DEF o
    <2> QED BY <1>2, <2>1, CompleteIs, Zenon
  <1>5. failures \in Nat /\ delay[x] \in Nat /\ ready[x] \in Nat
    BY OutboxAssumption DEF TypeOK
  <1> HIDE DEF o
  <1>6. CASE x # o
    <2>1. Away(w, x) /\ Away(w, x)' BY <1>2, <1>3, <1>6, Zenon DEF Away, o
    <2>2. row'[x] = row[x] BY <1>4, <1>6, Zenon
    <2> QED BY <1>1, <1>3, <1>5, <2>1, <2>2, Elsewhere
  <1>7. CASE x = o
    <2>1. order[x] # "none"
      BY <1>1, <1>7, Zenon DEF OrderFits, Opened, o
    <2>2. Opened(x)' BY <1>1, <1>4, <1>7, <2>1, Zenon DEF Opened
    <2>3. ~Undecided(x) BY <1>1, <1>7, Zenon DEF OrderFits, Tracked, o
    <2>4. Tracked(x)' BY <1>1, <2>3, Zenon DEF Tracked, Undecided
    <2>5. ~Again(x)' BY <1>4, <1>7, WorkersAssumption, Zenon DEF Again
    <2>6. w \in Handlers(x) /\ w \in Handlers(x)'
      BY <1>2, <1>3, <1>7, Zenon DEF Handlers, Handling
    <2>7. delay'[x] + ready'[x] + Bit(w \in Handlers(x)')
           <= delay[x] + ready[x] + Bit(w \in Handlers(x)) + failures' - failures
      BY <1>1, <1>5, <2>6 DEF Bit
    <2>8. worker[w].pc \in Handling \cup {"idle"} /\ worker'[w].pc \in Handling \cup {"idle"}
      BY <1>1, <1>3, Zenon DEF Handling
    <2>9. Budget(x)' BY <1>2, <1>3, <2>5, <2>7, <2>8, HandBudget, Zenon DEF OrderFits
    <2> QED BY <2>2, <2>4, <2>9, Zenon DEF OrderFits
  <1> QED BY <1>6, <1>7, Zenon

(* A publisher whose session ends leaves its rows behind: a failure.       *)
LEMMA EndSessionKeeps ==
  ASSUME TypeOK, WorkersFit, TypeOK', NEW x \in Orders, OrderFits(x),
         NEW w \in Workers, worker[w].pc \notin Handling, EndSession(w)
  PROVE  OrderFits(x)'
  <1>1. UNCHANGED <<order, row, delay, ready, waived>> /\ failures' = failures + 1
    BY Zenon DEF EndSession, Fail
  <1>2. worker'[w].pc = "idle" /\ worker'[w].batch = {} /\ Only(w)
    BY StopIs, Zenon DEF EndSession, Only
  <1>3. failures \in Nat /\ delay[x] \in Nat /\ ready[x] \in Nat
    BY OutboxAssumption DEF TypeOK
  <1>4. Opened(x)' BY <1>1, <1>2, Zenon DEF OrderFits, Opened, Only
  <1>5. w \notin Handlers(x) /\ w \notin Handlers(x)' /\ ~Publishes(w, x)'
    BY <1>2, Zenon DEF Handlers, Handling, Publishes
  <1>6. Present(x) => Present(x)' BY <1>1, <1>2, <1>5, PresentKept, Zenon
  <1>7. Tracked(x)'
    <2>1. Undecided(x)' => Undecided(x) BY <1>1, Zenon DEF Undecided
    <2> QED BY <1>1, <1>2, <1>6, <2>1, Zenon DEF OrderFits, Tracked, Only
  <1>8. Own(w, x)' <= Own(w, x) + failures' - failures
    <2>1. Own(w, x)' <= delay[x] + ready[x] + 1 BY <1>1, <1>3, <1>5 DEF Own, Bit
    <2>2. Own(w, x) >= delay[x] + ready[x] /\ Own(w, x) \in Nat BY <1>3 DEF Own, Bit
    <2>3. Own(w, x)' \in Nat BY <1>1, <1>3 DEF Own, Bit
    <2> QED BY <1>1, <1>3, <2>1, <2>2, <2>3
  <1>9. Budget(x)' BY <1>2, <1>8, OneBudget, Zenon DEF OrderFits
  <1> QED BY <1>4, <1>7, <1>9, Zenon DEF OrderFits

(* Steps of order-service, of the broker and of time: every worker stays   *)
(* where it is, but for the one that is answered.                          *)
RolesKept ==
  \A v \in Workers :
    /\ worker'[v].at = worker[v].at /\ worker'[v].batch = worker[v].batch
    /\ \/ worker'[v].pc = worker[v].pc
       \/ worker[v].pc = "waiting" /\ worker'[v].pc \in {"resolved", "refused"}

(* An answer changes no worker's order or batch.                           *)
LEMMA Answered ==
  ASSUME TypeOK, NEW o \in Orders, NEW pc \in {"resolved", "refused"}, Answer(o, pc)
  PROVE  /\ RolesKept
         /\ \A v \in Workers : \/ worker'[v].pc = worker[v].pc
                               \/ worker'[v].at = o /\ worker'[v].pc = pc
  <1>1. ASSUME NEW v \in Workers
        PROVE  /\ worker'[v].at = worker[v].at /\ worker'[v].batch = worker[v].batch
               /\ \/ worker'[v].pc = worker[v].pc
                  \/ worker[v].pc = "waiting" /\ worker'[v].pc = pc /\ worker[v].at = o
    <2>1. worker'[v] = IF worker[v].pc = "waiting" /\ worker[v].at = o
                         THEN [worker[v] EXCEPT !.pc = pc] ELSE worker[v]
      BY Zenon DEF Answer
    <2>2. worker[v] \in WorkerState BY Zenon DEF TypeOK, WorkerState
    <2> QED BY <2>1, <2>2, Zenon DEF WorkerState
  <1> QED BY <1>1, Zenon DEF RolesKept

(* With the workers where they are the budget follows the row and the      *)
(* queues.                                                                 *)
LEMMA BudgetKept ==
  ASSUME TypeOK, TypeOK', NEW o \in Orders, Budget(o), RolesKept,
         delay'[o] + ready'[o] = delay[o] + ready[o], failures' >= failures,
         Again(o)' /\ ~Again(o) => failures' >= failures + 1
  PROVE  Budget(o)'
  <1>1. Handlers(o)' = Handlers(o) BY Zenon DEF RolesKept, Handlers, Handling
  <1>2. Publishers(o)' = Publishers(o) BY Zenon DEF RolesKept, Publishers, Publishes
  <1>3. /\ Cardinality(Handlers(o)') = Cardinality(Handlers(o))
        /\ Cardinality(Publishers(o)') = Cardinality(Publishers(o))
    BY <1>1, <1>2, Zenon
  <1>4. Handlers(o) \in SUBSET Workers /\ Publishers(o) \in SUBSET Workers
    BY Zenon DEF Handlers, Publishers
  <1>5. Cardinality(Handlers(o)) \in Nat /\ Cardinality(Publishers(o)) \in Nat
    <2>1. IsFiniteSet(Handlers(o)) /\ IsFiniteSet(Publishers(o))
      BY <1>4, WorkersAssumption, FS_Subset, Zenon
    <2> QED BY <2>1, FS_CardinalityType, Zenon
  <1>6. /\ delay[o] \in Nat /\ ready[o] \in Nat /\ failures \in Nat
        /\ delay'[o] \in Nat /\ ready'[o] \in Nat /\ failures' \in Nat
    BY OutboxAssumption DEF TypeOK
  <1>7. Budget(o)' <=> delay'[o] + ready'[o] + Cardinality(Handlers(o)')
                         + Cardinality(Publishers(o)') + Bit(Again(o)') <= 1 + failures'
    BY Zenon DEF Budget, Messages, Bit
  <1>8. delay[o] + ready[o] + Cardinality(Handlers(o))
          + Cardinality(Publishers(o)) + Bit(Again(o)) <= 1 + failures
    BY Zenon DEF Budget, Messages
  <1>9. Bit(Again(o)') <= Bit(Again(o)) + failures' - failures
        /\ Bit(Again(o)) \in Nat /\ Bit(Again(o)') \in Nat
    <2>1. Bit(Again(o)) = IF Again(o) THEN 1 ELSE 0 BY Zenon DEF Bit
    <2>2. Bit(Again(o)') = IF Again(o)' THEN 1 ELSE 0 BY Zenon DEF Bit
    <2>3. CASE Again(o)' /\ ~Again(o) BY <1>6, <2>1, <2>2, <2>3
    <2>4. CASE ~Again(o)' \/ Again(o)
      <3>1. Bit(Again(o)') = 0 \/ (Bit(Again(o)') = 1 /\ Bit(Again(o)) = 1)
        BY <2>1, <2>2, <2>4, Zenon
      <3> QED BY <1>6, <2>1, <3>1
    <2> QED BY <2>3, <2>4, Zenon
  <1> QED BY <1>3, <1>5, <1>6, <1>7, <1>8, <1>9

(* With the workers where they are a message stays one.                    *)
LEMMA PresentStays ==
  ASSUME NEW o \in Orders, RolesKept, Present(o),
         delay[o] > 0 \/ ready[o] > 0 => delay'[o] > 0 \/ ready'[o] > 0
  PROVE  Present(o)'
  <1>1. \A v \in Workers : v \in Handlers(o) => v \in Handlers(o)'
    BY Zenon DEF RolesKept, Handlers, Handling
  <1> QED BY <1>1, Zenon DEF Present

(* Steps that keep every message.                                          *)
LEMMA RolesKeep ==
  ASSUME TypeOK, TypeOK', NEW o \in Orders, OrderFits(o), RolesKept,
         order[o] # "none", order'[o] # "none", row'[o].status # "none",
         delay'[o] + ready'[o] = delay[o] + ready[o], failures' >= failures,
         Again(o)' /\ ~Again(o) => failures' >= failures + 1,
         Undecided(o)' => Undecided(o) /\ row'[o].status = row[o].status,
         Undecided(o)' => \A v \in Workers :
           worker'[v].at = o => worker'[v].pc = worker[v].pc \/ worker'[v].pc = "refused"
  PROVE  OrderFits(o)'
  <1>1. Opened(o)' BY Zenon DEF Opened
  <1>2. Present(o) => Present(o)'
    <2>1. delay[o] \in Nat /\ ready[o] \in Nat /\ delay'[o] \in Nat /\ ready'[o] \in Nat
      BY Zenon DEF TypeOK
    <2>2. delay[o] > 0 \/ ready[o] > 0 => delay'[o] > 0 \/ ready'[o] > 0 BY <2>1
    <2> QED BY <2>2, PresentStays, Zenon
  <1>3. Tracked(o)' BY <1>2, Zenon DEF OrderFits, Tracked, RolesKept
  <1>4. Budget(o)' BY BudgetKept, Zenon DEF OrderFits
  <1> QED BY <1>1, <1>3, <1>4, Zenon DEF OrderFits

(* Steps that leave o alone.                                               *)
LEMMA Alone ==
  ASSUME TypeOK, TypeOK', NEW o \in Orders, OrderFits(o), RolesKept,
         order'[o] = order[o], row'[o].status = row[o].status,
         row'[o].owner = row[o].owner, row'[o].live <=> row[o].live,
         delay'[o] = delay[o], ready'[o] = ready[o], waived' = waived, failures' >= failures,
         \A v \in Workers : worker'[v].at = o => worker'[v].pc = worker[v].pc
  PROVE  OrderFits(o)'
  <1>1. Opened(o)' BY ZenonT(30) DEF OrderFits, Opened, RolesKept
  <1>2. Present(o) => Present(o)' BY PresentStays, Zenon
  <1>3. Tracked(o)'
    <2>1. Undecided(o)' => Undecided(o) BY Zenon DEF Undecided
    <2> QED BY <1>2, <2>1 DEF OrderFits, Tracked, RolesKept
  <1>4. Again(o)' => Again(o) BY DEF Again, Holds, RolesKept
  <1>5. Budget(o)' BY <1>4, BudgetKept, Zenon DEF OrderFits
  <1> QED BY <1>1, <1>3, <1>5, Zenon DEF OrderFits

(* The steps of order-service, of the broker and of time.                  *)
LEMMA OrderStepKeeps ==
  ASSUME TypeOK, TypeOK', NEW x \in Orders, OrderFits(x), NEW o \in Orders,
         \/ Open(o) \/ Claim(o) \/ Settle(o) \/ Flag(o) \/ Revert(o) \/ Repair(o)
         \/ MessageExpires(o) \/ LeaseExpires(o) \/ AttemptDue(o)
  PROVE  OrderFits(x)'
  <1>1. waived' = waived /\ failures' \in {failures, failures + 1}
    BY Zenon DEF Open, Claim, Settle, Flag, Revert, Repair, MessageExpires, LeaseExpires,
       AttemptDue, Fail
  <1>2. /\ failures \in Nat /\ failures' \in Nat /\ failures' >= failures
        /\ delay[x] \in Nat /\ ready[x] \in Nat
    BY <1>1, OutboxAssumption DEF TypeOK
  <1>3. \/ UNCHANGED worker
        \/ Settle(o) /\ Answer(o, "resolved")
        \/ (Flag(o) \/ Revert(o)) /\ Answer(o, "refused")
    BY Zenon DEF Open, Claim, Settle, Flag, Revert, Repair, MessageExpires, LeaseExpires,
       AttemptDue
  <1>4. RolesKept
    <2>1. CASE UNCHANGED worker BY <2>1, Zenon DEF RolesKept
    <2>2. CASE Answer(o, "resolved") BY <2>2, Answered, Zenon
    <2>3. CASE Answer(o, "refused") BY <2>3, Answered, Zenon
    <2> QED BY <1>3, <2>1, <2>2, <2>3, Zenon
  <1>5. \A v \in Workers : \/ worker'[v].pc = worker[v].pc
                           \/ Settle(o) /\ worker'[v].at = o
                           \/ worker'[v].at = o /\ worker'[v].pc = "refused"
    <2>1. CASE UNCHANGED worker BY <2>1, Zenon
    <2>2. CASE Settle(o) /\ Answer(o, "resolved") BY <2>2, Answered, Zenon
    <2>3. CASE Answer(o, "refused") BY <2>3, Answered, Zenon
    <2> QED BY <1>3, <2>1, <2>2, <2>3, Zenon
  <1>6. \/ UNCHANGED row
        \/ Open(o) /\ row' = [row EXCEPT ![o].status = "pending"]
        \/ (Settle(o) \/ Repair(o)) /\ row' = [row EXCEPT ![o].status = "completed"]
        \/ LeaseExpires(o) /\ row' = [row EXCEPT ![o].live = FALSE]
        \/ AttemptDue(o) /\ row' = [row EXCEPT ![o].due = TRUE]
    BY DEF Open, Claim, Settle, Flag, Revert, Repair, MessageExpires, LeaseExpires, AttemptDue
  <1>7. CASE x # o
    <2>1. row'[x].status = row[x].status /\ row'[x].owner = row[x].owner
          /\ (row'[x].live <=> row[x].live)
      <3>1. CASE UNCHANGED row BY <3>1, Zenon
      <3>2. CASE \E st \in {"pending", "completed"} : row' = [row EXCEPT ![o].status = st]
        BY <1>7, <3>2, StatusIs, Zenon DEF RowStatus
      <3>3. CASE row' = [row EXCEPT ![o].live = FALSE] BY <1>7, <3>3, LiveIs, Zenon
      <3>4. CASE row' = [row EXCEPT ![o].due = TRUE] BY <1>7, <3>4, DueIs, Zenon
      <3> QED BY <1>6, <3>1, <3>2, <3>3, <3>4, Zenon
    <2>2. order'[x] = order[x] /\ delay'[x] = delay[x] /\ ready'[x] = ready[x]
      BY <1>7, Zenon DEF Open, Claim, Settle, Flag, Revert, Repair, MessageExpires,
         LeaseExpires,
                  AttemptDue, TypeOK
    <2>3. \A v \in Workers : worker'[v].at = x => worker'[v].pc = worker[v].pc
      BY <1>5, <1>7, Zenon
    <2> QED BY <1>1, <1>2, <1>4, <2>1, <2>2, <2>3, Alone, Zenon
  <1>8. CASE x = o /\ Open(o)
    <2>1. order[x] = "none" /\ UNCHANGED <<delay, ready, worker, failures>>
      BY <1>8, Zenon DEF Open
    <2>2. row'[x].status = "pending" /\ order'[x] = "pending"
      <3>1. row' = [row EXCEPT ![o].status = "pending"] /\ "pending" \in RowStatus
        BY <1>8, Zenon DEF Open, RowStatus
      <3>2. row'[o].status = "pending" BY <3>1, StatusIs, Zenon
      <3> QED BY <1>8, <3>2, Zenon DEF Open, TypeOK
    <2>3. /\ delay[x] = 0 /\ ready[x] = 0
          /\ \A w \in Workers : /\ worker[w].pc # "idle" => worker[w].at # x
                                /\ x \notin worker[w].batch
      BY <2>1, Zenon DEF OrderFits, Opened
    <2>4. Opened(x)' BY <2>2, Zenon DEF Opened
    <2>5. Tracked(x)' BY <2>1, <2>2, <2>3, Zenon DEF Tracked
    <2>6. Handlers(x)' = {} /\ Publishers(x)' = {}
      BY <2>1, <2>3, Zenon DEF Handlers, Handling, Publishers, Publishes
    <2>7. Cardinality(Handlers(x)') = 0 /\ Cardinality(Publishers(x)') = 0
      BY <2>6, FS_EmptySet, Zenon
    <2>8. Budget(x)' <=> delay'[x] + ready'[x] + Cardinality(Handlers(x)')
                         + Cardinality(Publishers(x)') + Bit(Again(x)') <= 1 + failures'
      BY Zenon DEF Budget, Messages, Bit
    <2>9. Bit(Again(x)') \in {0, 1} BY Zenon DEF Bit
    <2>10. Budget(x)' BY <1>2, <2>1, <2>3, <2>7, <2>8, <2>9
    <2> QED BY <2>4, <2>5, <2>10, Zenon DEF OrderFits
  <1>9. CASE x = o /\ (Claim(o) \/ Settle(o) \/ Flag(o) \/ Revert(o) \/ Repair(o))
    <2>1. /\ order[x] \in {"pending", "busy", "flagged"} /\ UNCHANGED <<delay, ready>>
          /\ order'[x] \in {"pending", "busy", "flagged", "closed"}
          /\ order'[x] \in {"pending", "busy"} => order[x] \in {"pending", "busy"}
      BY <1>9, Zenon DEF Claim, Settle, Flag, Revert, Repair, TypeOK
    <2>2. row[x].status # "none" BY <2>1, Zenon DEF OrderFits, Opened
    <2>3. \/ row' = row
          \/ order'[x] = "closed" /\ row' = [row EXCEPT ![o].status = "completed"]
      BY <1>9, Zenon DEF Claim, Settle, Flag, Revert, Repair, TypeOK
    <2>4. /\ \/ row'[x].status = row[x].status
             \/ order'[x] = "closed" /\ row'[x].status = "completed"
          /\ row'[x].owner = row[x].owner /\ row'[x].live = row[x].live
      <3>1. CASE row' = row BY <3>1, Zenon
      <3>2. CASE order'[x] = "closed" /\ row' = [row EXCEPT ![o].status = "completed"]
        <4>1. "completed" \in RowStatus BY Zenon DEF RowStatus
        <4> QED BY <1>9, <3>2, <4>1, StatusIs, Zenon
      <3> QED BY <2>3, <3>1, <3>2
    <2>5. Undecided(x)' => Undecided(x) /\ row'[x].status = row[x].status
      BY <1>1, <2>1, <2>4, Zenon DEF Undecided
    <2>6. Again(x)' => Again(x) BY <1>4, <2>4 DEF Again, Holds, RolesKept
    <2>7. Settle(o) => ~Undecided(x)' BY <1>9, Zenon DEF Settle, Undecided, TypeOK
    <2>8. Undecided(x)' => \A v \in Workers :
            worker'[v].at = x => worker'[v].pc = worker[v].pc \/ worker'[v].pc = "refused"
      BY <1>5, <2>7, Zenon
    <2>9. row'[x].status # "none" /\ delay'[x] + ready'[x] = delay[x] + ready[x]
      BY <2>1, <2>2, <2>4, Zenon
    <2>10. order[x] # "none" /\ order'[x] # "none" BY <2>1, Zenon
    <2> QED BY <1>2, <1>4, <2>5, <2>6, <2>8, <2>9, <2>10, RolesKeep, ZenonT(30)
  <1>10. CASE x = o /\ MessageExpires(o)
    <2>1. delay[x] > 0 /\ UNCHANGED <<order, row, worker, failures, waived>>
          /\ delay'[x] = delay[x] - 1 /\ ready'[x] = ready[x] + 1
      BY <1>10, Zenon DEF MessageExpires, TypeOK
    <2>2. order[x] # "none" /\ row[x].status # "none" BY <1>2, <2>1 DEF OrderFits, Opened
    <2>3. Undecided(x)' => Undecided(x) BY <2>1, Zenon DEF Undecided
    <2>4. Again(x)' => Again(x) BY <2>1, Zenon DEF Again, Holds
    <2>5. delay'[x] + ready'[x] = delay[x] + ready[x] BY <1>2, <2>1
    <2> QED BY <1>2, <1>4, <2>1, <2>2, <2>3, <2>4, <2>5, RolesKeep, ZenonT(30)
  <1>11. CASE x = o /\ AttemptDue(o)
    <2>1. UNCHANGED <<order, delay, ready, worker, failures, waived>>
          /\ row' = [row EXCEPT ![o].due = TRUE]
      BY <1>11, Zenon DEF AttemptDue
    <2>2. row'[x].status = row[x].status /\ row'[x].owner = row[x].owner
          /\ row'[x].live = row[x].live
      BY <2>1, DueIs, ZenonT(30)
    <2> QED BY <1>2, <1>4, <2>1, <2>2, Alone, Zenon
  <1>12. CASE x = o /\ LeaseExpires(o)
    <2>1. UNCHANGED <<order, delay, ready, worker, waived>>
          /\ row' = [row EXCEPT ![o].live = FALSE]
          /\ IF \E w \in Workers : Means(w, o) THEN Fail ELSE UNCHANGED failures
      BY <1>12, Zenon DEF LeaseExpires
    <2>2. row'[x].status = row[x].status /\ row'[x].owner = row[x].owner
      BY <1>12, <2>1, LiveIs, Zenon
    <2>3. Opened(x)' BY <2>1, <2>2, Zenon DEF OrderFits, Opened
    <2>4. Present(x) => Present(x)' BY <1>4, <2>1, PresentStays, Zenon
    <2>5. Tracked(x)' BY <2>1, <2>2, <2>4, Zenon DEF OrderFits, Tracked, Undecided
    <2>6. Again(x)' /\ ~Again(x) => failures' >= failures + 1
      <3>1. SUFFICES ASSUME Again(x)', ~Again(x) PROVE failures' >= failures + 1 BY Zenon
      <3>2. PICK w \in Workers : Holds(w, x) BY <2>1, <2>2, <3>1, Zenon DEF Again
      <3>3. Means(w, o) BY <1>12, <3>2, Zenon DEF Means, Holds, Publishing
      <3> QED BY <1>2, <2>1, <3>3 DEF Fail
    <2>7. Budget(x)' BY <1>2, <1>4, <2>1, <2>6, BudgetKept, Zenon DEF OrderFits
    <2> QED BY <2>3, <2>5, <2>7, Zenon DEF OrderFits
  <1> QED BY <1>7, <1>8, <1>9, <1>10, <1>11, <1>12, Zenon

(* Every step keeps what is known of every order.                          *)
LEMMA OrderFitsStep ==
  ASSUME TypeOK, WorkersFit, TypeOK', [Next]_vars, NEW x \in Orders, OrderFits(x)
  PROVE  OrderFits(x)'
  <1>1. CASE \E o \in Orders : \/ Open(o) \/ Claim(o) \/ Settle(o) \/ Flag(o) \/ Revert(o)
                               \/ Repair(o) \/ MessageExpires(o) \/ LeaseExpires(o)
                               \/ AttemptDue(o)
    BY <1>1, OrderStepKeeps, Zenon
  <1>2. CASE \E w \in Workers : ClaimBatch(w) BY <1>2, ClaimBatchKeeps, Zenon
  <1>3. CASE \E w \in Workers : Publish(w) BY <1>3, PublishKeeps, SMTT(30), ZenonT(30)
  <1>4. CASE \E w \in Workers : MarkPublished(w) BY <1>4, MarkPublishedKeeps, Zenon
  <1>5. CASE \E w \in Workers : MarkFailure(w) BY <1>5, MarkFailureKeeps, Zenon
  <1>6. CASE \E w \in Workers : ReleaseLeases(w) BY <1>6, ReleaseKeeps, Zenon
  <1>7. CASE \E w \in Workers : Complete(w) BY <1>7, CompleteKeeps, Zenon
  <1>8. CASE \E w \in Workers : CallCancel(w) \/ LoseCancel(w) \/ Requeue(w) \/ Acknowledge(w)
    BY <1>8, HandlerKeeps, Zenon
  <1>9. CASE \E w \in Workers : EndSession(w) BY <1>9, HandlerKeeps, EndSessionKeeps, Zenon
  <1>10. CASE \E w \in Workers, o \in Orders : Deliver(w, o) BY <1>10, DeliverKeeps, Zenon
  <1>11. CASE UNCHANGED vars
    <2>1. RolesKept /\ row' = row /\ order' = order /\ delay' = delay /\ ready' = ready
          /\ waived' = waived /\ failures' = failures /\ worker' = worker
      BY <1>11, Zenon DEF RolesKept, vars
    <2>2. failures' >= failures BY <2>1, OutboxAssumption DEF TypeOK
    <2> QED BY <2>1, <2>2, Alone, Zenon
  <1> QED BY <1>1, <1>2, <1>3, <1>4, <1>5, <1>6, <1>7, <1>8, <1>9, <1>10, <1>11, SMTT(30),
             ZenonT(30)
          DEF Next, Work

(* Where a message in hand takes up the whole budget, nothing else does.   *)
LEMMA NothingOver ==
  ASSUME NEW a \in Nat, NEW b \in Nat, NEW c \in Nat, NEW d \in Nat, NEW e \in Nat, NEW f,
         f = 0, a + b + c + d + e <= 1 + f, c >= 1
  PROVE  ~(d >= 1)
  OBVIOUS

(* Without a failure an order whose message is in hand is published by     *)
(* nobody.                                                                 *)
LEMMA HandledOnce ==
  ASSUME TypeOK, NEW o \in Orders, Budget(o), failures = 0,
         NEW v \in Handlers(o), NEW w \in Workers
  PROVE  ~Publishes(w, o)
  <1>1. v \in Workers /\ Handlers(o) \in SUBSET Workers /\ Publishers(o) \in SUBSET Workers
    BY Zenon DEF Handlers, Publishers
  <1>2. Cardinality(Handlers(o)) \in Nat /\ Cardinality(Handlers(o)) >= 1
    <2>1. /\ Cardinality(Handlers(o)) \in Nat /\ Cardinality(Handlers(o) \ {v}) \in Nat
          /\ Cardinality(Handlers(o)) = Cardinality(Handlers(o) \ {v}) + Bit(v \in Handlers(o))
      BY <1>1, Without, Zenon
    <2> QED BY <2>1 DEF Bit
  <1>3. /\ Cardinality(Publishers(o)) \in Nat
        /\ w \in Publishers(o) => Cardinality(Publishers(o)) >= 1
    <2>1. /\ Cardinality(Publishers(o)) \in Nat /\ Cardinality(Publishers(o) \ {w}) \in Nat
          /\ Cardinality(Publishers(o)) = Cardinality(Publishers(o) \ {w}) + Bit(w \in Publishers(o))
      BY <1>1, Without, Zenon
    <2> QED BY <2>1 DEF Bit
  <1>4. delay[o] \in Nat /\ ready[o] \in Nat /\ Bit(Again(o)) \in Nat BY Zenon DEF TypeOK, Bit
  <1>5. delay[o] + ready[o] + Cardinality(Handlers(o)) + Cardinality(Publishers(o))
          + Bit(Again(o)) <= 1 + failures
    BY Zenon DEF Budget, Messages
  <1>6. ~(Cardinality(Publishers(o)) >= 1) BY <1>2, <1>3, <1>4, <1>5, NothingOver, Zenon
  <1> QED BY <1>3, <1>6, Zenon DEF Publishers

(* Every step keeps the leases of the publishers while nothing has failed. *)
LEMMA LeasesStep ==
  ASSUME TypeOK, WorkersFit, TypeOK', \A o \in Orders : OrderFits(o), Leases, [Next]_vars
  PROVE  Leases'
  <1>0. failures \in Nat BY OutboxAssumption DEF TypeOK
  <1>1. SUFFICES ASSUME failures' = 0
                 PROVE  \A w \in Workers :
                          /\ worker'[w].pc \notin {"failing", "releasing"}
                          /\ \A o \in Orders : Publishes(w, o)' => row'[o].owner = w /\ row'[o].live
    BY Zenon DEF Leases
  <1>2. ~Fail BY <1>0, <1>1 DEF Fail
  <1>3. failures = 0
    BY <1>1, <1>2, Zenon DEF Next, vars, Open, Claim, Settle, Flag, Revert, Repair,
       MessageExpires,
       LeaseExpires, AttemptDue, ClaimBatch, Work, Publish, MarkPublished, MarkFailure,
       ReleaseLeases, CallCancel, Requeue, Complete, Acknowledge, LoseCancel, EndSession,
       Deliver
  <1>4. \A w \in Workers :
          /\ worker[w].pc \notin {"failing", "releasing"}
          /\ \A o \in Orders : Publishes(w, o) => row[o].owner = w /\ row[o].live
    BY <1>3, Zenon DEF Leases
  <1> DEFINE Calm == /\ \A w \in Workers : worker'[w].pc \notin {"failing", "releasing"}
                     /\ \A w \in Workers, o \in Orders : Publishes(w, o)' => Publishes(w, o)
  <1>5. ASSUME NEW v \in Workers, NEW pc \in Handling, At(v, pc) PROVE Calm
    <2>1. worker'[v].pc = pc /\ \A w \in Workers \ {v} : worker'[w] = worker[w]
      BY <1>5, AtIs, Zenon
    <2> QED BY <1>4, <2>1 DEF Publishes, Handling
  <1>6. ASSUME NEW v \in Workers, Stop(v) PROVE Calm
    <2>1. worker'[v].pc = "idle" /\ \A w \in Workers \ {v} : worker'[w] = worker[w]
      BY <1>6, StopIs, Zenon
    <2> QED BY <1>4, <2>1, Zenon DEF Publishes
  <1>7. ASSUME RolesKept PROVE Calm BY <1>4, <1>7, Zenon DEF RolesKept, Publishes
  <1>8. ASSUME NEW v \in Workers, Publish(v) PROVE Calm
    <2>1. At(v, "acked") /\ worker[v].pc = "publishing" BY <1>2, <1>8, Zenon DEF Publish
    <2>2. /\ worker'[v].pc = "acked" /\ worker'[v].batch = worker[v].batch
          /\ \A w \in Workers \ {v} : worker'[w] = worker[w]
      BY <2>1, AtIs, Zenon
    <2> QED BY <1>4, <2>1, <2>2, Zenon DEF Publishes
  <1>9. ASSUME NEW v \in Workers, MarkPublished(v) PROVE Calm
    <2>1. CASE Stop(v) BY <1>6, <2>1, Zenon
    <2>2. CASE \E x \in worker[v].batch : worker' = [worker EXCEPT ![v] =
                  [pc |-> "publishing", at |-> x, batch |-> worker[v].batch \ {x}]]
      <3>1. PICK x \in worker[v].batch : worker' = [worker EXCEPT ![v] =
                  [pc |-> "publishing", at |-> x, batch |-> worker[v].batch \ {x}]]
        BY <2>2, Zenon
      <3>2. /\ worker'[v].pc = "publishing" /\ worker'[v].at = x
            /\ worker'[v].batch = worker[v].batch \ {x}
            /\ \A w \in Workers \ {v} : worker'[w] = worker[w]
        BY <3>1, TakeIs, Zenon
      <3>3. worker[v].pc = "acked" BY <1>9, Zenon DEF MarkPublished
      <3> QED BY <1>4, <3>2, <3>3 DEF Publishes
    <2> QED BY <1>9, <2>1, <2>2, Zenon DEF MarkPublished
  <1>10. ASSUME Calm,
                \A w \in Workers, o \in Orders :
                  Publishes(w, o) /\ Publishes(w, o)' =>
                    row'[o].owner = row[o].owner /\ (row'[o].live <=> row[o].live)
         PROVE  \A w \in Workers :
                  /\ worker'[w].pc \notin {"failing", "releasing"}
                  /\ \A o \in Orders : Publishes(w, o)' => row'[o].owner = w /\ row'[o].live
    BY <1>4, <1>10, Zenon
  <1> HIDE DEF Calm
  <1>11. CASE UNCHANGED row /\ Calm
    BY <1>10, <1>11, Zenon
  <1>12. ASSUME NEW o \in Orders,
                \/ Open(o) \/ Claim(o) \/ Settle(o) \/ Flag(o) \/ Revert(o) \/ Repair(o)
                \/ MessageExpires(o) \/ LeaseExpires(o) \/ AttemptDue(o)
         PROVE  /\ Calm
                /\ \A w \in Workers, x \in Orders :
                     Publishes(w, x) /\ Publishes(w, x)' =>
                       row'[x].owner = row[x].owner /\ (row'[x].live <=> row[x].live)
    <2>1. RolesKept
      <3>1. UNCHANGED worker \/ Answer(o, "resolved")
        BY <1>2, <1>12, Zenon DEF Open, Claim, Settle, Flag, Revert, Repair, MessageExpires,
           LeaseExpires,
                           AttemptDue
      <3>2. CASE UNCHANGED worker BY <3>2, Zenon DEF RolesKept
      <3>3. CASE Answer(o, "resolved") BY <3>3, Answered, Zenon
      <3> QED BY <3>1, <3>2, <3>3, Zenon
    <2>2. CASE LeaseExpires(o)
      <3>1. /\ ~\E w \in Workers : Means(w, o)
            /\ row' = [row EXCEPT ![o].live = FALSE]
        BY <1>2, <2>2, Zenon DEF LeaseExpires
      <3>2. \A w \in Workers : ~Publishes(w, o)
        BY <3>1, Zenon DEF Publishes, Means, Publishing
      <3>3. \A x \in Orders \ {o} : row'[x] = row[x] BY <3>1, LiveIs, Zenon
      <3> QED BY <1>7, <2>1, <3>2, <3>3, Zenon
    <2>3. CASE ~LeaseExpires(o)
      <3>1. \A x \in Orders : row'[x].owner = row[x].owner /\ (row'[x].live <=> row[x].live)
        <4>1. CASE UNCHANGED row BY <4>1, Zenon
        <4>2. CASE \E st \in {"pending", "completed"} : row' = [row EXCEPT ![o].status = st]
          <5>1. PICK st \in {"pending", "completed"} : row' = [row EXCEPT ![o].status = st]
            BY <4>2, Zenon
          <5>2. st \in RowStatus BY Zenon DEF RowStatus
          <5>3. /\ \A x \in Orders \ {o} : row'[x] = row[x]
                /\ row'[o].owner = row[o].owner /\ row'[o].live = row[o].live
            BY <5>1, <5>2, StatusIs, Zenon
          <5> QED BY <5>3, Zenon
        <4>3. CASE row' = [row EXCEPT ![o].due = TRUE] BY <4>3, DueIs, Zenon
        <4> QED BY <1>12, <2>3, <4>1, <4>2, <4>3, ZenonT(30) DEF Open, Claim, Settle, Flag,
                   Revert, Repair, MessageExpires, AttemptDue
      <3> QED BY <1>7, <2>1, <3>1, Zenon
    <2> QED BY <2>2, <2>3, Zenon
  <1>13. ASSUME NEW v \in Workers, NEW o \in Orders, Deliver(v, o) PROVE Calm /\ UNCHANGED row
    <2>1. /\ worker'[v].pc = "delivered" /\ worker'[v].batch = {}
          /\ \A w \in Workers \ {v} : worker'[w] = worker[w]
      BY <1>13, TakeIs, ZenonT(30) DEF Deliver
    <2> QED BY <1>4, <1>13, <2>1 DEF Publishes, Deliver, Calm
  <1>14. CASE \E v \in Workers : MarkPublished(v)
    <2>1. PICK v \in Workers : MarkPublished(v) BY <1>14, Zenon
    <2> DEFINE o == worker[v].at
    <2>2. worker[v].pc = "acked" /\ row' = Leased(v, o, "published", TRUE)
      BY <2>1, Zenon DEF MarkPublished
    <2>3. o \in Orders /\ o \notin worker[v].batch BY <2>2, Zenon DEF WorkersFit, Shape
    <2>4. "published" \in RowStatus /\ TRUE \in BOOLEAN BY Zenon DEF RowStatus
    <2> HIDE DEF o
    <2>5. /\ \A y \in Orders \ {o} : row'[y] = row[y]
          /\ row[o].owner # v => row'[o] = row[o]
      BY <2>2, <2>3, <2>4, LeasedIs, ZenonT(30)
    <2>6. ~Publishes(v, o) BY <2>2, <2>3, Zenon DEF Publishes, o
    <2>7. \A w \in Workers, x \in Orders :
            Publishes(w, x) => row'[x].owner = row[x].owner /\ (row'[x].live <=> row[x].live)
      BY <1>4, <2>5, <2>6
    <2> QED BY <1>9, <1>10, <2>1, <2>7, Zenon
  <1>15. CASE \E v \in Workers : Complete(v)
    <2>1. PICK v \in Workers : Complete(v) BY <1>15, Zenon
    <2> DEFINE o == worker[v].at
    <2>2. worker[v].pc \in Handling /\ At(v, "acking") BY <2>1, Zenon DEF Complete, Handling
    <2>3. o \in Orders /\ v \in Handlers(o) BY <2>2, HandlerIs, Zenon
    <2>4. row' = [row EXCEPT ![o] =
                   [@ EXCEPT !.status = "completed", !.owner = Nobody, !.live = FALSE]]
      BY <2>1, Zenon DEF Complete
    <2> HIDE DEF o
    <2>5. \A y \in Orders \ {o} : row'[y] = row[y] BY <2>3, <2>4, CompleteIs, Zenon
    <2>6. \A w \in Workers : ~Publishes(w, o) BY <1>3, <2>3, HandledOnce, Zenon DEF OrderFits
    <2>7. Calm BY <1>5, <2>2, Zenon DEF Handling
    <2> QED BY <1>10, <2>5, <2>6, <2>7, Zenon
  <1>16. CASE \E v \in Workers : ClaimBatch(v)
    <2>1. PICK v \in Workers : ClaimBatch(v) BY <1>16, Zenon
    <2>2. PICK batch \in SUBSET {o \in Orders : Claimable(o)} :
            /\ row' = [o \in Orders |->
                 IF o \in batch THEN [row[o] EXCEPT !.owner = v, !.live = TRUE] ELSE row[o]]
            /\ \E o \in batch : worker' = [worker EXCEPT ![v] =
                 [pc |-> "publishing", at |-> o, batch |-> batch \ {o}]]
      BY <2>1, Zenon DEF ClaimBatch
    <2>3. PICK o \in batch : worker' = [worker EXCEPT ![v] =
                 [pc |-> "publishing", at |-> o, batch |-> batch \ {o}]]
      BY <2>2, Zenon
    <2>4. /\ worker'[v].pc = "publishing" /\ worker'[v].at = o /\ worker'[v].batch = batch \ {o}
          /\ \A w \in Workers \ {v} : worker'[w] = worker[w]
      BY <2>3, TakeIs, ZenonT(30)
    <2>5. /\ \A y \in Orders \ batch : row'[y] = row[y]
          /\ \A y \in Orders \cap batch : row'[y].owner = v /\ row'[y].live
      <3>1. row' = [y \in Orders |->
              IF y \in batch THEN [row[y] EXCEPT !.owner = v, !.live = TRUE] ELSE row[y]]
        BY <2>2, Zenon
      <3>2. \A y \in Orders : row[y] \in RowType BY Zenon DEF TypeOK
      <3> QED BY <3>1, <3>2, Zenon DEF RowType
    <2>6. \A y \in batch : y \in Orders /\ ~row[y].live BY Zenon DEF Claimable
    <2>7. \A w \in Workers : worker'[w].pc \notin {"failing", "releasing"}
      BY <1>4, <2>4, Zenon
    <2>8. ASSUME NEW w \in Workers, NEW x \in Orders, Publishes(w, x)'
          PROVE  row'[x].owner = w /\ row'[x].live
      <3>1. CASE w = v
        <4>1. x \in batch BY <2>4, <2>8, <3>1, Zenon DEF Publishes
        <4> QED BY <2>5, <3>1, <4>1, Zenon
      <3>2. CASE w # v
        <4>1. Publishes(w, x) BY <2>4, <2>8, <3>2, Zenon DEF Publishes
        <4>2. row[x].owner = w /\ row[x].live BY <1>4, <4>1, Zenon
        <4>3. x \notin batch BY <2>6, <4>2, Zenon
        <4> QED BY <2>5, <4>2, <4>3, Zenon
      <3> QED BY <3>1, <3>2, Zenon
    <2> QED BY <2>7, <2>8
  <1>17. ASSUME NEW v \in Workers, \/ Publish(v) \/ CallCancel(v) \/ Requeue(v) \/ Acknowledge(v)
         PROVE  Calm /\ UNCHANGED row
    <2>1. UNCHANGED row BY <1>17 DEF Publish, CallCancel, Requeue, Acknowledge
    <2>2. \/ Publish(v) \/ At(v, "waiting") \/ At(v, "resolved") \/ Stop(v)
      BY <1>17, Zenon DEF CallCancel, Requeue, Acknowledge
    <2> QED BY <1>5, <1>6, <1>8, <2>1, <2>2, ZenonT(30) DEF Handling
  <1>18. ASSUME NEW v \in Workers
         PROVE  ~(MarkFailure(v) \/ ReleaseLeases(v) \/ LoseCancel(v) \/ EndSession(v))
    BY <1>2, <1>4, Zenon DEF MarkFailure, ReleaseLeases, LoseCancel, EndSession
  <1>19. CASE UNCHANGED vars
    <2>1. RolesKept /\ UNCHANGED row BY <1>19, Zenon DEF RolesKept, vars
    <2> QED BY <1>7, <1>11, <2>1, Zenon
  <1>20. CASE \E o \in Orders : \/ Open(o) \/ Claim(o) \/ Settle(o) \/ Flag(o) \/ Revert(o)
                               \/ Repair(o) \/ MessageExpires(o) \/ LeaseExpires(o)
                               \/ AttemptDue(o)
    BY <1>10, <1>12, <1>20, Zenon
  <1> QED BY <1>11, <1>13, <1>14, <1>15, <1>16, <1>17, <1>18, <1>19, <1>20, SMTT(30),
             ZenonT(30)
          DEF Next, Work

(* The inductive invariant: types, the shape of the workers, what is known *)
(* of every order, and the leases.                                         *)
OutboxInv ==
  TypeOK /\ WorkersFit /\ (\A o \in Orders : OrderFits(o)) /\ Leases

(* The inductive invariant holds initially.                                *)
LEMMA OutboxInit == Init => OutboxInv
  <1> SUFFICES ASSUME Init PROVE OutboxInv
    BY Zenon
  <1>1. /\ \A w \in Workers : worker[w] = Idle /\ worker[w].pc = "idle" /\ worker[w].batch = {}
        /\ worker \in [Workers -> WorkerState]
    BY Zenon DEF Init, Idle, WorkerState
  <1>2. \A o \in Orders : /\ order[o] = "none" /\ row[o].status = "none" /\ row[o].owner = Nobody
                          /\ ~row[o].live /\ delay[o] = 0 /\ ready[o] = 0
    BY Zenon DEF Init
  <1>3. TypeOK
    <2>1. row \in [Orders -> RowType] BY Zenon DEF Init, RowType, RowStatus
    <2>2. failures \in 0..MaxFailures BY OutboxAssumption DEF Init
    <2> QED BY <1>1, <2>1, <2>2, Zenon DEF Init, TypeOK, WorkerState
  <1>4. WorkersFit BY <1>1, Zenon DEF WorkersFit, Shape
  <1>5. ASSUME NEW o \in Orders PROVE OrderFits(o)
    <2>1. Opened(o) BY <1>1, <1>2, Zenon DEF Opened
    <2>2. Tracked(o) BY <1>2, Zenon DEF Tracked, Undecided
    <2>3. Handlers(o) = {} /\ Publishers(o) = {}
      BY <1>1, Zenon DEF Handlers, Handling, Publishers, Publishes
    <2>4. Cardinality(Handlers(o)) = 0 /\ Cardinality(Publishers(o)) = 0
      BY <2>3, FS_EmptySet, Zenon
    <2>5. ~Again(o) /\ failures = 0 BY <1>1, <1>2, Zenon DEF Again, Init
    <2>6. Budget(o) BY <1>2, <2>4, <2>5 DEF Budget, Messages, Bit
    <2> QED BY <2>1, <2>2, <2>6, Zenon DEF OrderFits
  <1>6. Leases BY <1>1, Zenon DEF Leases, Publishes
  <1> QED BY <1>3, <1>4, <1>5, <1>6, Zenon DEF OutboxInv

(* Every step keeps the inductive invariant.                               *)
LEMMA OutboxStep == OutboxInv /\ [Next]_vars => OutboxInv'
  <1> SUFFICES ASSUME OutboxInv, [Next]_vars PROVE OutboxInv'
    BY Zenon
  <1> USE DEF OutboxInv
  <1>1. TypeOK' BY TypeStep, Zenon
  <1>2. WorkersFit' BY WorkersStep, Zenon
  <1>3. ASSUME NEW o \in Orders PROVE OrderFits(o)' BY <1>1, OrderFitsStep, Zenon
  <1>4. Leases' BY <1>1, LeasesStep, Zenon
  <1> QED BY <1>1, <1>2, <1>3, <1>4, Zenon

(* Every reachable state satisfies OutboxInv: the outbox rows, the queues  *)
(* and the workers of worker.go fit together, order by order.              *)
THEOREM OutboxInvariant == Spec => []OutboxInv
  BY OutboxInit, OutboxStep, PTL DEF Spec

(* A pending order that was not waived has a row to publish or a message   *)
(* on its way, and the snapshot counts it, after any crashes, lost         *)
(* confirmations and expired leases.                                       *)
THEOREM TimeoutNotForgotten == Spec => []NotForgotten
  <1>1. OutboxInv => NotForgotten
    <2> SUFFICES ASSUME OutboxInv, NEW o \in Orders, order[o] = "pending", o \notin waived
                 PROVE  Awaited(o) /\ o \in Snapshot.overdue
      BY Zenon DEF NotForgotten
    <2>1. Opened(o) /\ Tracked(o) /\ TypeOK BY Zenon DEF OutboxInv, OrderFits
    <2>2. Undecided(o) BY Zenon DEF Undecided
    <2>3. row[o].status \in RowStatus \ {"none", "completed"}
      <3>1. row[o].status \in RowStatus BY <2>1, Zenon DEF TypeOK, RowType
      <3>2. row[o].status # "none" /\ row[o].status # "completed"
        BY <2>1, <2>2, Zenon DEF Opened, Tracked
      <3> QED BY <3>1, <3>2, Zenon
    <2>4. o \in Snapshot.overdue BY <2>3, Zenon DEF Snapshot
    <2>5. CASE row[o].status # "published" BY <2>3, <2>5, <2>4, Zenon DEF Awaited, RowStatus
    <2>6. CASE row[o].status = "published"
      <3>1. Present(o) BY <2>1, <2>2, <2>6, Zenon DEF Tracked
      <3>2. delay[o] \in Nat /\ ready[o] \in Nat BY <2>1, Zenon DEF TypeOK
      <3>3. Handlers(o) \in SUBSET Workers BY Zenon DEF Handlers
      <3>4. Cardinality(Handlers(o)) \in Nat
        BY <3>3, WorkersAssumption, FS_Subset, FS_CardinalityType, Zenon
      <3>5. (\E w \in Workers : w \in Handlers(o)) => Cardinality(Handlers(o)) > 0
        <4>1. SUFFICES ASSUME NEW w \in Workers, w \in Handlers(o)
                       PROVE  Cardinality(Handlers(o)) > 0
          BY Zenon
        <4>2. Bit(w \in Handlers(o)) = 1 BY <4>1, Zenon DEF Bit
        <4>3. /\ Cardinality(Handlers(o)) \in Nat /\ Cardinality(Handlers(o) \ {w}) \in Nat
              /\ Cardinality(Handlers(o)) = Cardinality(Handlers(o) \ {w}) + Bit(w \in Handlers(o))
          BY <3>3, Without, Zenon
        <4> QED BY <4>2, <4>3
      <3>6. Messages(o) > 0 BY <3>1, <3>2, <3>4, <3>5 DEF Messages, Present
      <3> QED BY <2>4, <3>6, Zenon DEF Awaited
    <2> QED BY <2>5, <2>6, Zenon
  <1> QED BY <1>1, OutboxInvariant, PTL

(* An order has at most one message more than there were failures, for any *)
(* number of replicas and any batch size: claimPending's leases keep       *)
(* replicas from publishing an event twice.                                *)
THEOREM DuplicatesAreOwed == Spec => []DuplicatesAreFailures
  <1>1. OutboxInv => DuplicatesAreFailures
    <2> SUFFICES ASSUME OutboxInv, NEW o \in Orders PROVE Messages(o) <= 1 + failures
      BY Zenon DEF DuplicatesAreFailures
    <2>1. Budget(o) /\ TypeOK BY Zenon DEF OutboxInv, OrderFits
    <2>2. Handlers(o) \in SUBSET Workers /\ Publishers(o) \in SUBSET Workers
      BY Zenon DEF Handlers, Publishers
    <2>3. Cardinality(Handlers(o)) \in Nat /\ Cardinality(Publishers(o)) \in Nat
      <3>1. IsFiniteSet(Handlers(o)) /\ IsFiniteSet(Publishers(o))
        BY <2>2, WorkersAssumption, FS_Subset, Zenon
      <3> QED BY <3>1, FS_CardinalityType, Zenon
    <2>4. delay[o] \in Nat /\ ready[o] \in Nat /\ failures \in Nat /\ Bit(Again(o)) \in Nat
      BY <2>1, OutboxAssumption DEF TypeOK, Bit
    <2> QED BY <2>1, <2>3, <2>4 DEF Budget, Messages
  <1> QED BY <1>1, OutboxInvariant, PTL

(* Before the first failure a worker holds the running lease of every      *)
(* event of its batch that it has not published, also while another        *)
(* replica completes rows without looking at their leases.                 *)
THEOREM PublisherKeepsLease == Spec => []PublisherHoldsLease
  <1>1. OutboxInv => PublisherHoldsLease
    <2> SUFFICES ASSUME OutboxInv, NEW w \in Workers, NEW o \in Orders, failures = 0,
                        \/ worker[w].at = o /\ worker[w].pc = "publishing"
                        \/ o \in worker[w].batch
                 PROVE  row[o].owner = w /\ o \in Snapshot.leased \ Snapshot.retry_ready
      BY Zenon DEF PublisherHoldsLease
    <2>1. /\ worker[w].pc \notin {"failing", "releasing"}
          /\ Publishes(w, o) => row[o].owner = w /\ row[o].live
      BY Zenon DEF OutboxInv, Leases
    <2>2. Publishes(w, o)
      <3>1. o \in worker[w].batch => worker[w].pc \in {"publishing", "acked"}
        BY <2>1, Zenon DEF OutboxInv, WorkersFit, Shape, Publishing
      <3> QED BY <3>1, Zenon DEF Publishes
    <2>3. row[o].owner = w /\ row[o].live /\ w # Nobody
      BY <2>1, <2>2, WorkersAssumption, Zenon
    <2> QED BY <2>3, Zenon DEF Snapshot
  <1> QED BY <1>1, OutboxInvariant, PTL

-----------------------------------------------------------------------------
(* A row that is published, or that the worker with its lease has          *)
(* published and is about to mark, has a message that is still to be       *)
(* handled.                                                                *)
Pursued(o) ==
  \/ InFlight(o)
  \/ /\ row[o].status # "published"
     /\ \A w \in Workers : ~(worker[w].pc = "acked" /\ worker[w].at = o /\ row[o].owner = w)

(* w has in hand a message of o that it will act on.                       *)
InHand(w, o) == worker[w].at = o /\ worker[w].pc \in Handling \ {"acking"}

(* A message stays when no counter falls to zero and the one worker that   *)
(* moves keeps what it has in hand or puts it back.                        *)
LEMMA FlightKept ==
  ASSUME NEW o \in Orders, NEW w \in Workers, Only(w), InFlight(o),
         delay[o] > 0 => delay'[o] > 0,
         ready[o] > 0 => ready'[o] > 0 \/ InHand(w, o)',
         InHand(w, o) => InHand(w, o)' \/ ready'[o] > 0
  PROVE  InFlight(o)'
  <1>1. \A v \in Workers \ {w} : InHand(v, o) => InHand(v, o)'
    BY Zenon DEF InHand, Only
  <1> QED BY <1>1, Zenon DEF InFlight, InHand

(* Then only a new mark, or a new confirmation, could spoil it.            *)
LEMMA PursuedKept ==
  ASSUME NEW o \in Orders, NEW w \in Workers, Only(w), Pursued(o),
         InFlight(o) => InFlight(o)',
         row'[o].status = "published" => row[o].status = "published" \/ InFlight(o)',
         \A v \in Workers : row'[o].owner = v => row[o].owner = v \/ worker[v].pc # "acked",
         worker'[w].pc = "acked" /\ worker'[w].at = o => InFlight(o)'
  PROVE  Pursued(o)'
  <1> SUFFICES ASSUME ~InFlight(o)'
               PROVE  /\ row'[o].status # "published"
                      /\ \A v \in Workers :
                           ~(worker'[v].pc = "acked" /\ worker'[v].at = o /\ row'[o].owner = v)
    BY Zenon DEF Pursued
  <1>1. \A v \in Workers \ {w} :
          ~(worker'[v].pc = "acked" /\ worker'[v].at = o /\ row'[o].owner = v)
    BY Zenon DEF Pursued, Only
  <1> QED BY <1>1, Zenon DEF Pursued

(* The steps of one worker: what it publishes is a message, what it marks  *)
(* it has published, and when it has handled a message the lease of the    *)
(* row is nobody's.                                                        *)
LEMMA WorkerPursues ==
  ASSUME TypeOK, WorkersFit, TypeOK', NEW x \in Orders, Pursued(x), NEW w \in Workers,
         \/ Work(w) \/ LoseCancel(w) \/ EndSession(w)
         \/ \E o \in Orders : Deliver(w, o)
  PROVE  Pursued(x)'
  <1> DEFINE o == worker[w].at
  <1>0. /\ delay[x] \in Nat /\ ready[x] \in Nat /\ delay'[x] \in Nat /\ ready'[x] \in Nat
        /\ row[x].owner \in Workers \cup {Nobody}
    BY Zenon DEF TypeOK, RowType
  <1>1. CASE Publish(w)
    <2>1. /\ worker[w].pc = "publishing" /\ UNCHANGED <<order, row, ready, waived>>
          /\ o \in Orders
      BY <1>1, Zenon DEF Publish, WorkersFit, Shape
    <2>2. PICK pc \in {"acked", "failing"} :
            /\ At(w, pc)
            /\ delay' \in {delay, [delay EXCEPT ![o] = @ + 1]}
            /\ pc = "acked" => delay' = [delay EXCEPT ![o] = @ + 1]
      BY <1>1, Zenon DEF Publish
    <2>3. Only(w) /\ worker'[w].pc = pc /\ worker'[w].at = o
      BY <2>2, AtIs, Zenon DEF Only
    <2>4. /\ delay'[x] \in {delay[x], delay[x] + 1}
          /\ pc = "acked" /\ x = o => delay'[x] = delay[x] + 1
      <3> HIDE DEF o
      <3>1. DOMAIN delay = Orders BY Zenon DEF TypeOK
      <3>2. ASSUME delay' = [delay EXCEPT ![o] = @ + 1]
            PROVE  delay'[x] = IF x = o THEN delay[x] + 1 ELSE delay[x]
        BY <2>1, <3>1, <3>2, Zenon
      <3> QED BY <2>2, <3>2, Zenon
    <2>5. /\ delay[x] > 0 => delay'[x] > 0
          /\ pc = "acked" /\ x = o => delay'[x] > 0
      BY <1>0, <2>4
    <2>6. ~InHand(w, x) BY <2>1, Zenon DEF InHand, Handling
    <2>7. InFlight(x) => InFlight(x)' BY <2>1, <2>3, <2>5, <2>6, FlightKept, Zenon
    <2>8. worker'[w].pc = "acked" /\ worker'[w].at = x => InFlight(x)'
      BY <2>3, <2>5, Zenon DEF InFlight
    <2> QED BY <2>1, <2>3, <2>7, <2>8, PursuedKept, Zenon
  <1>2. ASSUME UNCHANGED <<delay, ready>>, Only(w), worker'[w].pc \notin {"acked"},
               worker[w].pc \notin Handling,
               row'[x].status = "published" => row[x].status = "published" \/ InFlight(x),
               row'[x].owner = row[x].owner \/ row'[x].owner = Nobody
        PROVE  Pursued(x)'
    <2>1. ~InHand(w, x) BY <1>2, Zenon DEF InHand
    <2>2. InFlight(x) => InFlight(x)' BY <1>2, <2>1, FlightKept, Zenon
    <2>3. \A v \in Workers : row'[x].owner = v => row[x].owner = v
      BY <1>2, WorkersAssumption, Zenon
    <2> QED BY <1>2, <2>2, <2>3, PursuedKept, Zenon
  <1>3. CASE MarkPublished(w)
    <2>1. /\ worker[w].pc = "acked" /\ UNCHANGED <<order, delay, ready, failures, waived>>
          /\ o \in Orders /\ row' = Leased(w, o, "published", TRUE)
      BY <1>3, Zenon DEF MarkPublished, WorkersFit, Shape
    <2>2. Only(w) /\ worker'[w].pc # "acked"
      <3>1. CASE Stop(w) BY <3>1, StopIs, Zenon DEF Only
      <3>2. CASE \E y \in worker[w].batch : worker' = [worker EXCEPT ![w] =
                   [pc |-> "publishing", at |-> y, batch |-> worker[w].batch \ {y}]]
        <4>1. PICK y \in worker[w].batch : worker' = [worker EXCEPT ![w] =
                   [pc |-> "publishing", at |-> y, batch |-> worker[w].batch \ {y}]]
          BY <3>2, Zenon
        <4>2. worker'[w].pc = "publishing" /\ Only(w) BY <4>1, TakeIs, Zenon DEF Only
        <4> QED BY <4>2, Zenon
      <3> QED BY <1>3, <3>1, <3>2, Zenon DEF MarkPublished
    <2>3. /\ row'[x] = row[x] \/ (x = o /\ row[o].owner = w)
          /\ row'[x].owner = row[x].owner \/ row'[x].owner = Nobody
      <3>1. "published" \in RowStatus /\ TRUE \in BOOLEAN BY Zenon DEF RowStatus
      <3> HIDE DEF o
      <3>2. /\ \A y \in Orders \ {o} : row'[y] = row[y]
            /\ row[o].owner # w => row'[o] = row[o]
            /\ row[o].owner = w => row'[o].owner = Nobody
        BY <2>1, <3>1, LeasedIs, ZenonT(30)
      <3> QED BY <2>1, <3>2, Zenon
    <2>4. row'[x].status = "published" => row[x].status = "published" \/ InFlight(x)
      BY <2>1, <2>3, Zenon DEF Pursued
    <2>5. worker[w].pc \notin Handling BY <2>1, Zenon DEF Handling
    <2> QED BY <1>2, <2>1, <2>2, <2>3, <2>4, <2>5, Zenon
  <1>4. CASE MarkFailure(w)
    <2>1. /\ worker[w].pc = "failing" /\ UNCHANGED <<order, delay, ready, failures, waived>>
          /\ o \in Orders /\ row' = Leased(w, o, "failed", FALSE)
      BY <1>4, Zenon DEF MarkFailure, WorkersFit, Shape
    <2>2. Only(w) /\ worker'[w].pc # "acked"
      <3>1. CASE Stop(w) BY <3>1, StopIs, Zenon DEF Only
      <3>2. CASE At(w, "releasing")
        <4>1. worker'[w].pc = "releasing" /\ Only(w) BY <3>2, AtIs, Zenon DEF Only
        <4> QED BY <4>1, Zenon
      <3> QED BY <1>4, <3>1, <3>2, Zenon DEF MarkFailure
    <2>3. /\ row'[x] = row[x] \/ row'[x].status = "failed"
          /\ row'[x].owner = row[x].owner \/ row'[x].owner = Nobody
      <3>1. "failed" \in RowStatus /\ FALSE \in BOOLEAN BY Zenon DEF RowStatus
      <3> HIDE DEF o
      <3>2. o \in Orders /\ row' = Leased(w, o, "failed", FALSE) BY <2>1, Zenon
      <3>3. /\ \A y \in Orders \ {o} : row'[y] = row[y]
            /\ row[o].owner # w => row'[o] = row[o]
            /\ row[o].owner = w => row'[o].status = "failed" /\ row'[o].owner = Nobody
        BY <3>1, <3>2, LeasedIs, ZenonT(60)
      <3> QED BY <3>2, <3>3, Zenon
    <2>4. worker[w].pc \notin Handling BY <2>1, Zenon DEF Handling
    <2> QED BY <1>2, <2>1, <2>2, <2>3, <2>4, Zenon
  <1>5. CASE ReleaseLeases(w)
    <2>1. /\ worker[w].pc = "releasing" /\ UNCHANGED <<order, delay, ready, failures, waived>>
          /\ Stop(w)
      BY <1>5, Zenon DEF ReleaseLeases
    <2>2. Only(w) /\ worker'[w].pc # "acked" BY <2>1, StopIs, Zenon DEF Only
    <2>3. /\ row'[x] \in {row[x], [row[x] EXCEPT !.owner = Nobody, !.live = FALSE]}
          /\ row[x] \in RowType
      BY <1>5, Zenon DEF ReleaseLeases, TypeOK
    <2>4. /\ row'[x].status = row[x].status
          /\ row'[x].owner = row[x].owner \/ row'[x].owner = Nobody
      BY <2>3, Zenon DEF RowType
    <2>5. worker[w].pc \notin Handling BY <2>1, Zenon DEF Handling
    <2> QED BY <1>2, <2>1, <2>2, <2>4, <2>5, Zenon
  <1>6. ASSUME UNCHANGED <<row, delay>>, Only(w), worker'[w].pc # "acked",
               ready[x] > 0 => ready'[x] > 0 \/ InHand(w, x)',
               InHand(w, x) => InHand(w, x)' \/ ready'[x] > 0
        PROVE  Pursued(x)'
    <2>1. InFlight(x) => InFlight(x)' BY <1>6, FlightKept, Zenon
    <2> QED BY <1>6, <2>1, PursuedKept, Zenon
  <1>7. CASE CallCancel(w) \/ LoseCancel(w)
    <2>1. /\ UNCHANGED <<row, delay, ready>>
          /\ \E pc \in {"waiting", "resolved", "refused"} : At(w, pc)
      BY <1>7, Zenon DEF CallCancel, LoseCancel
    <2>2. PICK pc \in {"waiting", "resolved", "refused"} : At(w, pc) BY <2>1, Zenon
    <2>3. Only(w) /\ worker'[w].pc = pc /\ worker'[w].at = o
      BY <2>2, AtIs, Zenon DEF Only
    <2>4. InHand(w, x) => InHand(w, x)' BY <2>3, Zenon DEF InHand, Handling
    <2> QED BY <1>6, <2>1, <2>3, <2>4, Zenon
  <1>8. CASE Requeue(w) \/ EndSession(w)
    <2>1. /\ UNCHANGED <<row, delay>> /\ Stop(w)
          /\ ready' \in {ready, [ready EXCEPT ![o] = @ + 1]}
          /\ worker[w].pc \in Handling => ready' = [ready EXCEPT ![o] = @ + 1]
      BY <1>8, Zenon DEF Requeue, EndSession
    <2>2. Only(w) /\ worker'[w].pc # "acked" BY <2>1, StopIs, Zenon DEF Only
    <2>3. /\ ready'[x] \in {ready[x], ready[x] + 1}
          /\ InHand(w, x) => ready'[x] = ready[x] + 1
      BY <2>1, Zenon DEF TypeOK, InHand
    <2>4. /\ ready[x] > 0 => ready'[x] > 0
          /\ InHand(w, x) => ready'[x] > 0
      BY <1>0, <2>3
    <2> QED BY <1>6, <2>1, <2>2, <2>4, Zenon
  <1>9. CASE Acknowledge(w)
    <2>1. worker[w].pc = "acking" /\ UNCHANGED <<row, delay, ready>> /\ Stop(w)
      BY <1>9, Zenon DEF Acknowledge
    <2>2. Only(w) /\ worker'[w].pc # "acked" BY <2>1, StopIs, Zenon DEF Only
    <2>3. ~InHand(w, x) BY <2>1, Zenon DEF InHand
    <2> QED BY <1>6, <2>1, <2>2, <2>3, Zenon
  <1>10. CASE \E y \in Orders : Deliver(w, y)
    <2>1. PICK y \in Orders : Deliver(w, y) BY <1>10, Zenon
    <2>2. /\ worker[w] = Idle /\ UNCHANGED <<row, delay>>
          /\ ready' = [ready EXCEPT ![y] = @ - 1]
          /\ worker' = [worker EXCEPT ![w] = [pc |-> "delivered", at |-> y, batch |-> {}]]
      BY <2>1, Zenon DEF Deliver
    <2>3. Only(w) /\ worker'[w].pc = "delivered" /\ worker'[w].at = y
      BY <2>2, TakeIs, Zenon DEF Only
    <2>4. x # y => ready'[x] = ready[x] BY <2>2, Zenon DEF TypeOK
    <2>5. InHand(w, y)' BY <2>3, Zenon DEF InHand, Handling
    <2>6. ~InHand(w, x)
      <3>1. worker[w] = Idle BY <2>2, Zenon
      <3>2. worker[w].pc = "idle" BY <3>1 DEF Idle
      <3> QED BY <3>2, Zenon DEF InHand, Handling
    <2> QED BY <1>6, <2>2, <2>3, <2>4, <2>5, <2>6, Zenon
  <1>11. CASE Complete(w)
    <2>1. worker[w].pc = "resolved" /\ o \in Orders /\ UNCHANGED <<delay, ready>> /\ At(w, "acking")
          /\ row' = [row EXCEPT ![o] =
                [@ EXCEPT !.status = "completed", !.owner = Nobody, !.live = FALSE]]
      BY <1>11, Zenon DEF Complete, WorkersFit, Shape
    <2>2. Only(w) /\ worker'[w].pc = "acking" /\ worker'[w].at = o
      BY <2>1, AtIs, Zenon DEF Only
    <2>3. CASE x = o
      <3>1. row[o] \in RowType BY <2>1, Zenon DEF TypeOK
      <3>2. row'[x].status = "completed" /\ row'[x].owner = Nobody
        <4> HIDE DEF o
        <4> QED BY <2>1, <2>3, <3>1, Zenon DEF TypeOK, RowType
      <3> QED BY <3>2, WorkersAssumption, Zenon DEF Pursued
    <2>4. CASE x # o
      <3>1. row'[x] = row[x] BY <2>1, <2>4, Zenon DEF TypeOK
      <3>2. ~InHand(w, x) BY <2>4, Zenon DEF InHand
      <3>3. InFlight(x) => InFlight(x)' BY <2>1, <2>2, <3>2, FlightKept, Zenon
      <3> QED BY <2>2, <3>1, <3>3, PursuedKept, Zenon
    <2> QED BY <2>3, <2>4, Zenon
  <1> QED
    BY <1>1, <1>3, <1>4, <1>5, <1>7, <1>8, <1>9, <1>10, <1>11, Zenon DEF Work

(* A batch is taken by a worker that has confirmed nothing yet.            *)
LEMMA ClaimPursues ==
  ASSUME TypeOK, NEW x \in Orders, Pursued(x), NEW w \in Workers, ClaimBatch(w)
  PROVE  Pursued(x)'
  <1>1. PICK batch \in SUBSET {o \in Orders : Claimable(o)} :
          /\ row' = [o \in Orders |->
               IF o \in batch THEN [row[o] EXCEPT !.owner = w, !.live = TRUE] ELSE row[o]]
          /\ \E o \in batch : worker' = [worker EXCEPT ![w] =
                              [pc |-> "publishing", at |-> o, batch |-> batch \ {o}]]
          /\ worker[w] = Idle /\ UNCHANGED <<delay, ready>>
    BY Zenon DEF ClaimBatch
  <1>2. Only(w) /\ worker'[w].pc = "publishing"
    <2>1. PICK o \in batch : worker' = [worker EXCEPT ![w] =
                              [pc |-> "publishing", at |-> o, batch |-> batch \ {o}]]
      BY <1>1, Zenon
    <2> QED BY <2>1, TakeIs, Zenon DEF Only
  <1>3. row'[x].status = row[x].status /\ row'[x].owner \in {row[x].owner, w}
    <2>1. TRUE \in BOOLEAN BY Zenon
    <2>2. /\ \A y \in Orders \ batch : row'[y] = row[y]
          /\ \A y \in Orders \cap batch : row'[y].status = row[y].status /\ row'[y].owner = w
      BY <1>1, <2>1, BatchIs, Zenon
    <2>3. CASE x \in batch BY <2>2, <2>3, Zenon
    <2>4. CASE x \notin batch
      <3>1. row'[x] = row[x] BY <2>2, <2>4, Zenon
      <3> QED BY <3>1
    <2> QED BY <2>3, <2>4, Zenon
  <1>4. worker[w].pc = "idle"
    <2>1. worker[w] = Idle BY <1>1, Zenon
    <2> QED BY <2>1 DEF Idle
  <1>5. ~InHand(w, x) BY <1>4, Zenon DEF InHand, Handling
  <1>6. InFlight(x) => InFlight(x)' BY <1>1, <1>2, <1>5, FlightKept, Zenon
  <1> QED BY <1>2, <1>3, <1>4, <1>6, PursuedKept, Zenon

(* Order-service, the broker and time: a row leaves its status only to be  *)
(* completed, and a message that expires is in the other queue.            *)
LEMMA OthersPursue ==
  ASSUME TypeOK, TypeOK', NEW x \in Orders, Pursued(x), NEW o \in Orders,
         \/ Open(o) \/ Claim(o) \/ Settle(o) \/ Flag(o) \/ Revert(o) \/ Repair(o)
         \/ MessageExpires(o) \/ LeaseExpires(o) \/ AttemptDue(o)
  PROVE  Pursued(x)'
  <1>1. /\ delay[x] \in Nat /\ ready[x] \in Nat /\ delay'[x] \in Nat /\ ready'[x] \in Nat
        /\ row[x] \in RowType
    BY Zenon DEF TypeOK
  <1>2. \A w \in Workers : /\ InHand(w, x) => InHand(w, x)'
                           /\ worker'[w].pc = "acked" => worker'[w] = worker[w]
    <2>1. UNCHANGED worker \/ Answer(o, "resolved") \/ Answer(o, "refused")
      BY Zenon DEF Open, Claim, Settle, Flag, Revert, Repair, MessageExpires, LeaseExpires, AttemptDue
    <2>2. CASE UNCHANGED worker BY <2>2, Zenon DEF InHand
    <2>3. ASSUME NEW pc \in {"resolved", "refused"}, Answer(o, pc), NEW w \in Workers
          PROVE  /\ InHand(w, x) => InHand(w, x)'
                 /\ worker'[w].pc = "acked" => worker'[w] = worker[w]
      <3>1. \/ worker'[w] = worker[w]
            \/ worker'[w].pc = pc /\ worker'[w].at = worker[w].at
        <4>1. worker[w] \in WorkerState BY Zenon DEF TypeOK, WorkerState
        <4> QED BY <2>3, <4>1, Zenon DEF Answer, WorkerState
      <3> QED BY <2>3, <3>1, Zenon DEF InHand, Handling
    <2> QED BY <2>1, <2>2, <2>3, Zenon
  <1>3. /\ row'[x].owner = row[x].owner
        /\ row'[x].status = "published" => row[x].status = "published"
    <2>1. CASE UNCHANGED row BY <2>1, Zenon
    <2>2. ASSUME NEW st \in {"pending", "completed"}, row' = [row EXCEPT ![o].status = st]
          PROVE  /\ row'[x].owner = row[x].owner
                 /\ row'[x].status = "published" => row[x].status = "published"
      <3>1. st \in RowStatus BY Zenon DEF RowStatus
      <3>2. /\ \A y \in Orders \ {o} : row'[y] = row[y]
            /\ row'[o].status = st /\ row'[o].owner = row[o].owner
        BY <2>2, <3>1, StatusIs, Zenon
      <3> QED BY <3>2, Zenon
    <2>3. CASE row' = [row EXCEPT ![o].live = FALSE]
      <3>1. /\ \A y \in Orders \ {o} : row'[y] = row[y]
            /\ row'[o].status = row[o].status /\ row'[o].owner = row[o].owner
        BY <2>3, LiveIs, Zenon
      <3> QED BY <3>1, Zenon
    <2>4. CASE row' = [row EXCEPT ![o].due = TRUE] BY <2>4, DueIs, Zenon
    <2> QED BY <2>1, <2>2, <2>3, <2>4, Zenon DEF Open, Claim, Settle, Flag, Revert, Repair,
              MessageExpires, LeaseExpires, AttemptDue
  <1>4. delay[x] > 0 \/ ready[x] > 0 => delay'[x] > 0 \/ ready'[x] > 0
    <2>1. CASE UNCHANGED <<delay, ready>> BY <2>1, Zenon
    <2>2. CASE MessageExpires(o)
      <3>1. /\ x = o => ready'[x] = ready[x] + 1
            /\ x # o => ready'[x] = ready[x] /\ delay'[x] = delay[x]
        BY <2>2, Zenon DEF MessageExpires, TypeOK
      <3> QED BY <1>1, <3>1
    <2> QED BY <2>1, <2>2, Zenon DEF Open, Claim, Settle, Flag, Revert, Repair, LeaseExpires, AttemptDue
  <1>5. InFlight(x) => InFlight(x)' BY <1>2, <1>4, Zenon DEF InFlight, InHand
  <1> QED BY <1>2, <1>3, <1>5, Zenon DEF Pursued

(* Theorem for PublishedIsPursued, for any number of orders, replicas and  *)
(* failures: markOutboxPublished asks for the lease, and the handler of a  *)
(* message takes the lease away as it completes the row, so that a mark    *)
(* that comes after it does not count.                                     *)
THEOREM PublishedRowsArePursued == Spec => []PublishedIsPursued
  <1> DEFINE PursuedInv == \A x \in Orders : Pursued(x)
  <1>1. Init => PursuedInv
    <2> SUFFICES ASSUME Init, NEW x \in Orders PROVE Pursued(x) BY Zenon
    <2>1. row[x].status = "none" BY Zenon DEF Init
    <2>2. \A w \in Workers : worker[w].pc = "idle" BY Zenon DEF Init, Idle
    <2> QED BY <2>1, <2>2, Zenon DEF Pursued
  <1>2. OutboxInv /\ OutboxInv' /\ PursuedInv /\ [Next]_vars => PursuedInv'
    <2> SUFFICES ASSUME OutboxInv, OutboxInv', PursuedInv, [Next]_vars, NEW x \in Orders
                 PROVE  Pursued(x)'
      BY Zenon
    <2>1. TypeOK /\ TypeOK' /\ WorkersFit /\ Pursued(x) BY Zenon DEF OutboxInv
    <2>2. CASE \E o \in Orders :
                 \/ Open(o) \/ Claim(o) \/ Settle(o) \/ Flag(o) \/ Revert(o) \/ Repair(o)
                 \/ MessageExpires(o) \/ LeaseExpires(o) \/ AttemptDue(o)
      BY <2>1, <2>2, OthersPursue, Zenon
    <2>3. CASE \E w \in Workers : ClaimBatch(w) BY <2>1, <2>3, ClaimPursues, Zenon
    <2>4. CASE \E w \in Workers : \/ Work(w) \/ LoseCancel(w) \/ EndSession(w)
                                  \/ \E o \in Orders : Deliver(w, o)
      BY <2>1, <2>4, WorkerPursues, Zenon
    <2>5. CASE UNCHANGED vars BY <2>1, <2>5, Zenon DEF vars, Pursued, InFlight
    <2> QED BY <2>2, <2>3, <2>4, <2>5, Zenon DEF Next
  <1>3. PursuedInv => PublishedIsPursued BY Zenon DEF Pursued, PublishedIsPursued
  <1> QED BY <1>1, <1>2, <1>3, OutboxInvariant, PTL DEF Spec
=============================================================================
