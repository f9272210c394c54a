# Verification of the order management system

TLA+ models of the services in this repository, TLC configurations that check them on
small instances, and TLAPS proofs that hold for every instance. Paths below are relative
to the repository root. `PROJECT.json` lists components, runs, mutants, hazards and
theorems, and maps every definition to the lines it models.

## The system and its parts

The repository holds two generations of one shop back end.

The **microservices** (v2) split it by database:

| part | code | model |
| --- | --- | --- |
| inventory-service: stock, reservations, stock log | `internal/inventorysvc` | `Inventory`, `InventoryTx` |
| order-service: create, pay, cancel, time out, finish as sagas over inventory-service | `internal/ordersvc/order.go`, `clients.go` | `OrderSaga` |
| trigger that files a repair when an order is flagged | `migrations/ordering/00003_reconciliation_tasks.sql` | `OrderSaga`, `Reconciliation` |
| order-timeout-worker: outbox, RabbitMQ delay queue, delivery | `internal/ordersvc/worker.go`, `publisher_confirm.go` | `TimeoutOutbox` |
| order-reconciliation-worker | `internal/ordersvc/reconciliation_worker.go` | `Reconciliation` |
| HTTP client with retries, budget and circuit breaker | `internal/platform/resiliencehttp` | `CircuitBreaker` |
| api-gateway rate limiter | `internal/platform/ratelimit`, `cmd/api-gateway` | `RateLimiter` |
| gRPC methods of inventory-service | `internal/inventorysvc/grpc.go` | the requests of `InventoryTx` |
| catalog-service, and the lines and totals of an order | `internal/catalogsvc`, `order.go` (`resolveItems`) | `OrderItems` |
| identity-service: accounts and tokens | `internal/service/user_service.go`, `internal/auth`, `internal/middleware/auth_middleware.go` | `Accounts` |
| reliability snapshot of order-service | `internal/ordersvc/reliability_indicators.go` | `Snapshot` of `OrderSaga` and of `TimeoutOutbox` |
| gateway routing, telemetry, metrics | `cmd/api-gateway`, `internal/platform` | not modelled |

The **monolith** (v1) does the same in one database:

| part | code | model |
| --- | --- | --- |
| orders, stock, idempotency keys | `internal/service`, `internal/dao` | `Monolith` |
| timeout worker | `internal/ordertimeout` | `Monolith` |
| products and their cache in Redis | `internal/service/product_service.go`, `internal/bizcache` | `ProductCache` |

How the parts interact: order-service writes its own row, calls inventory-service, and
writes its row again. Nothing spans both databases, so a failure between two of these
steps is either compensated by the request itself, or the order is flagged
`reconciliation_required`; the trigger then files a task and the reconciliation worker
repeats the call. A pending order has an outbox row, which the timeout worker turns into
a delayed message and, when that comes back, into a call of TimeoutCancel. Every call
between services goes through the retrying client and its breaker. Before all this,
Create asks catalog-service for the products of the request and computes the total.

Two abstract modules stand between the detailed ones. `OrderLife` is what the shop
promises of an order: the status that a client reads follows the goods. `OrderTimer` is
the contract between order-service and the timeout worker about the one row they share.
`OrderSaga` is shown to implement `OrderLife` and the service's side of `OrderTimer`
(`KeepsPromise`, `TimerContract`), by TLC and by proof; `Reconciliation` keeps the steps
of `OrderLife` with the repair workers added (`RepairKeepsPromise`). The orders of
`TimeoutOutbox` are the phases of `OrderTimer` and take its steps, so what
`TimeoutOutbox` assumes of orders is what `OrderSaga` provides.

## Modules

`Inventory` has one step per service operation (Init, Add, Reserve, Confirm, Release).
Its variables are the columns `available_quantity` and `reserved_quantity`, the status
and items of each order's reservation, and the sums of the stock log.

`InventoryTx` runs the same operations statement by statement on concurrent
connections: snapshot read, insert or `FOR UPDATE` read of the reservation, the
`inventory_items` rows in product order, commit. Row locks are held to the end.
A transaction computes the new columns of a row when it comes to the row (`avail` and
`resv` are its uncommitted versions), and its commit puts them in place without a look at
what is there by then. So an update that another transaction made in between is lost
unless the locks prevent it. The module EXTENDS `Inventory`, whose variables are the
committed rows; `AtomicSpec` is the specification of `Inventory` over them: every commit
is one of its atomic operations on the rows as they are at that moment.
`CommitNeverFails` says that the guard of the operation holds (`Possible`)
whenever a transaction has come to its commit.

`OrderSaga` composes request goroutines with an INSTANCE of `Inventory`. Each step of a
goroutine is one local transaction or one attempt of an HTTP call. `Faults` selects what
can go wrong: transactions that roll back or whose outcome is unknown, calls lost before
or after the server ran them (`stray` calls may still be served), requests that expire,
crashes. `SagaHistory` adds the history variable `gaveUp`, which remembers whether a call
was ever given up on.

`TimeoutOutbox` has the outbox rows with lease and next attempt, worker replicas,
publisher confirms, the delay and the cancel queue, deliveries and requeueing. Of an
order it keeps only the phases of `OrderTimer`: pending, held by a saga, flagged or
closed.

`Reconciliation` EXTENDS `OrderSaga` with the columns of the tasks and the repair
workers: claiming a batch, loading the order, repeating the inventory call, completing
task and order in one transaction, marking failures. `RepairHistory` adds the history
variable `misled`, which remembers whether a saga ever took a committed transaction for a
failed one.

`CircuitBreaker` has concurrent callers of `Do`, with attempts, cancellation and the
breaker's state; `BreakerHistory` adds a history variable that remembers whether a probe
has ended since the circuit opened.
`RateLimiter` has both buckets, cleanup and eviction, and an observer
that counts what passes in a window of time, and how often the bucket of a client was
dropped in it before it was full (`forgot`). Tokens are counted in fractions of one,
where the code has float64: its rounding is not modelled.

`Monolith` has client connections and the timeout consumer as transactions that take
their locks in the order of the code, and the broker session with its publisher. A
handler that outlives its session may still commit, as in the code, where `runSession`
does not wait for its goroutines.

`ProductCache` has the requests of the product service, one MySQL statement or Redis
command at a time. A cached detail is the status it was read with, the only column that
changes. Commands of Redis may fail or be run after their caller has given up (`late`),
and the update of a status may commit and be reported as failed. `blamed` is a history
variable: it has the products whose entry was stored by a reader that a writer overtook,
or left behind by a writer that did not delete it.

`OrderItems` has `Create` up to its reservation: the aggregation of repeated lines, one
lookup of the catalogue per product, the overflow check, the CHECK constraints of the
tables and the aggregation at inventory-service, while administrators create products
and take them on and off sale. Integers wrap like int64, in a smaller width, and the
quotient truncates like Go's.

`Accounts` has the statements of Register, Login, UpdatePassword and UpdateNickname on
the rows of identity-service. A hash is a password with the request that salted it, so
two hashes of one password differ. A token is stateless: `live` has the users who hold
one that has not expired. `AccountsHistory` adds `last`, the password and the nickname
that the last committed write of each account set.

Every `MC*` module gives one of these small sets. The theorems are in eight modules:

| module | about |
| --- | --- |
| `InventoryProofs` | `Inventory`, `InventoryTx` |
| `OrderSagaProofs` | `OrderSaga` |
| `ReconciliationProofs`, `RepairProofs` | `Reconciliation`, under all faults and until a saga is misled |
| `TimeoutOutboxProofs` | `TimeoutOutbox` |
| `PlatformProofs` | the two libraries: `RateLimiter`, `CircuitBreaker` |
| `MonolithProofs` | `Monolith` |
| `ServiceProofs` | the services beside orders and stock: `Accounts`, `ProductCache` |

`CircuitBreaker` and `ProductCache` name their specifications apart (`BreakerNext`,
`CacheNext` and so on), so that one module can reason about two components.

Definitions named "Mutant of X" are wrong variants of X, one for each property, which the
property must detect; they are part of no specification.

## Runs

| run | instance | shows |
| --- | --- | --- |
| `inventory_tx` | 2 connections, 2 orders, 2 products, BIGINT range 0..2 | every commit is an atomic operation of `Inventory`; no cycle of lock waits; what a transaction checked still holds when it commits; the reserved column is exactly the pending reservations, stock is conserved, the log accounts for it |
| `saga` | 2 orders that compete for one piece, 2 requests, 2 attempts, all faults but unknown outcomes | refinement of `OrderLife` and of the contract `OrderTimer`; one request at a time acts on an order; the right repair is filed; the state machine is followed; until a call is given up on (history variable `gaveUp`), `pending` and `failed` tell the truth about the stock, and held stock of any other order is in the reliability snapshot |
| `saga_leak` | 1 order, lost calls | **violated**: see findings |
| `outbox` | 2 orders, 2 replicas, batch of 2, 1 failure | no pending order is forgotten, and the reliability snapshot counts it when it is late; a row that says published has a message that is still to be handled, in whatever order saga, publisher and consumer write it; duplicates come only from failures; a publisher holds its lease; every timeout ends |
| `outbox_revert` | 1 order | **violated**: see findings |
| `repair` | 1 order, 2 requests, 2 workers, all faults | no order is settled against its reservation; closed tasks stay closed; and unless a saga was misled by an unknown outcome: a task is open exactly while its order is flagged, it is completed only when both services agree, the promise of `OrderLife` holds, and the repair gets done |
| `breaker` | 4 callers, 2 probes, threshold 2 | once open, a circuit closes only after a probe that did not fail; a half-open one waits for a probe that exists; callers are never shut out for good |
| `limiter` | 3 clients, room for 2, 5 ticks | the global rate holds in every window, and a client's own up to one burst for each time its bucket was dropped too early; the time to wait that `Allow` returns is exact |
| `monolith` | 2 clients, 2 handlers, 2 orders, 2 keys, requests for `<<p1, p2>>` and for `<<p2, p1>>` | stock equals intake less open orders; one order per key; no timeout is forgotten; paid orders are not cancelled |
| `product_cache` | 1 product, 3 requests | a stale entry has one of three causes; once the status stays, the entry is right from some time on |
| `order_items` | 3 products, up to 3 lines, 4-bit integers | an order is billed exactly and reserves its items; neither the tables' constraints nor inventory-service refuse it; nothing that fits is refused |
| `accounts` | 2 names, 3 passwords (one too short), 4 requests | registration is whole and happens once; changes are not written over by requests that did not see them; a password is replaced only by who knew the one in force |

Deadlock checking is off where the system may stop: the orders of an instance are used
up, or a bounded number of failures has happened. In `inventory_tx`, `breaker`,
`limiter` and `product_cache` it is on.

### Bounds

Names in the modules: `MaxBigint` (BIGINT, small so that the ceiling is reached),
`MaxFailures` (failures of the environment), `MaxTime` (ticks), `MaxIntake` (pieces
stocked), `MaxAttempts` (a real parameter of the retry policy). In `inventory_tx` the range
must reach 2, so that a Reserve can proceed beside a pending reservation of the same
products and the lock orders of Reserve and Confirm really meet. Two or three requests
per order suffice for the races in the code, which are all between a claim and a second
claimant; the proofs remove the bound for the properties they cover. One failure per
behaviour in `outbox` and `monolith` reaches every error path, but not two failures
that hit the same message. Types are invariants of no run; they are proved for
all components but `OrderItems`, each as a part of the inductive invariant of its proofs.
The `limiter` instance has fewer places than clients so that
eviction happens, a TTL within which a bucket does not fill up, so that cleanup forgets
too, and a rate that does not divide a token, so that rounding matters.
In `monolith` the two requests name the products the other way round: CreateOrder locks in
the order of the request, so each can hold the row that the other waits for, and
`Rollback` of one is then the only way on. Two handlers are the one of the running session
and one that outlived its own.
`order_items` needs three products: with two, a total that wraps is always negative and
the column's check would refuse it; only a third line brings it back above zero, which
is what the overflow check of `resolveItems` is for. Its quantities include the largest
integer, so that sums of repeated lines wrap to zero, below and above it. In `accounts`
four requests are a registration, a login and two changes that race. `repair` has one
order: tasks of different orders share nothing but the batch. `outbox` also passes with
two failures (904,691 states, ten minutes), which is too slow to keep; the proofs about
it need no bound on failures, replicas or batches.
In `product_cache` one command of each kind can be late at a time; requests on different
products do not meet, and three requests are a reader that is overtaken by two writers.

### Fairness

`TimeoutOutbox!FairSpec`: leases, retry delays and TTLs run out (weak); a saga that
holds an order lets go of it (weak); a worker continues what it began (weak); and if
rows can be claimed or messages delivered again and again, some worker eventually does
(strong, because another worker's step can disable it). Go schedules every goroutine,
the polling loops never stop, and RabbitMQ delivers what is ready.

`Reconciliation!WorkerFairness`: leases and delays run out and failures are marked (weak),
and strong fairness of claiming and of the successful outcome of loading, calling and
completing: a step that is retried for ever does not fail for ever. Requests of
order-service need not go on. `FlaggedIsRepaired` is stated for behaviours in which
leases eventually stop running out on live workers.

`CircuitBreaker!Fairness`: callers keep coming, requests end (each has a timeout), and
the open interval passes.

`ProductCache!FairSpec`: requests go on, late commands arrive, entries expire (all weak).
Nobody has to ask for anything.

## Findings

Both are disagreements of the code with the documentation; each has a run that TLC ends
with a counterexample.

- `saga_leak`, `FailedHoldsNothing`. `Create` sets the order to `failed` on every error
  of Reserve (`internal/ordersvc/order.go:166`), a lost reply included, and does not
  release. The stock stays reserved and no task is filed.
  `docs/architecture/grpc-inventory-contract.md:58` says that order-service generates
  the reservation id before the call "so that a request which times out with an unknown
  outcome can still be released".
- `outbox_revert`, `PendingIsAwaited`. A timeout that meets an order in `paying` or
  `cancelling` is answered as resolved (`order.go:249`) and its row completed. If that
  saga then gives the order back to `pending`, it never times out.
  `docs/requirements.md:11` promises timeout cancellation of pending orders.

Seen while modelling, without a run of their own:

- A Reserve that runs concurrently with an earlier Reserve of the same order is refused
  with a duplicate key (`inventory.go:181`), where the proto file says that a repeat
  returns the existing reservation.
- When the request's context expires during Reserve, the update to `failed` uses the
  same context and is lost (`order.go:167`): the order stays `reserving`, with its stock
  held, and only the reliability snapshot shows it.
- A cancelled context, or a request that cannot be built, is reported to the breaker as a
  success (`client.go:182`): a half-open circuit closes on a probe that learnt nothing.
- Quantities of repeated lines are added without a check (`order.go:399`). If they wrap,
  Create divides by zero (`order.go:419`), is refused as invalid (a sum below zero: every
  price is above the negative quotient of the overflow check), or opens an order for the
  quantity modulo 2^64; its total is right for that quantity.
- A change of password does not end the tokens that were issued before it.
- With two or more half-open probes, a failing probe resets `halfOpenInFlight`
  (`circuit_breaker.go:160`) while others run, so a later half-open period can have more
  probes under way than configured; and a successful probe closes the circuit only when
  no other is in flight (`circuit_breaker.go:137`).
- When the deletion of a cached product fails, repeating the request does not help:
  OnSaleProduct and OffSaleProduct find the status in place and return before the
  deletion (`product_service.go:80`). The entry is wrong until it expires.
  `docs/cache_design.md` lists the second, delayed deletion as out of scope; its section 8
  still lists the TTL as future work, which the code has (`product_cache.go:25`) and
  `CacheConverges` rests on.

## Proofs

TLAPS checks the theorems below for all values of the constants that satisfy the named
assumptions: `QuantityAssumption` (quantities are positive), `BigintAssumption`,
`ProductAssumption` (product ids are natural numbers, and there are finitely many of them:
`normalizeItems` sorts by id, and a table is finite), `SagaAssumption` (at least one
attempt, faults from the known set), `OutboxAssumption` (what `NewWorker` makes of the
batch size; the bound on failures is some natural number), `WorkersAssumption` (finitely
many replicas, none of which is called like the NULL owner of a row), `WorkerAssumption`
and `NobodyAssumption` (batch size, faults and names of the repair workers, which need
not be finitely many), `BreakerAssumption` (what the constructors make of the policies),
`LimiterAssumption` (`normalized` leaves only positive parameters),
`MonolithAssumption` and `MenuAssumption` (quantities are natural numbers; no request has
a product twice, which `validateDuplicateItems` sees to), `NoOrderAssumption` and
`AccountsAssumption` (the values that stand for nothing are not among the others).
`Orders`, `Txns`, `Users`, `Requests`, `Callers` and the clients of the gateway and of the
monolith, and `Products` where the transactions of `InventoryTx` are not involved, are
arbitrary sets, infinite ones included.

`InventoryProofs`, about `Inventory`:

- `TypeCorrect`: types and the BIGINT range. Inductive as it stands.
- `ReservedMatches`: the reserved column is what pending reservations hold. A sum over
  orders has no induction principle the provers can use, so `ReservedIsPending` is
  stated by counting: the pending units of a product are a set of pairs of an order and
  a number, its finiteness is part of the invariant, and the lemmas `UnitsJoin` and
  `UnitsLeave` say what reserving and settling do to its cardinality.
  Inductive together with `TypeOK`.
- `TransitionNeverShort`: follows from it, since one reservation's units are a subset.
- `LogIsJournal`: needs `RowsBeforeStock` (a product without a row has no stock and is
  in no reservation): otherwise Init could overwrite stock the log knows of.
- `Conservation`: follows from the log and `SoldIsLogged`.
- `Settled`: the action property, from `TypeOK`.

The second half of `InventoryProofs`, about `InventoryTx` with any number of connections:

- `ChecksHoldAtCommit` and `LocksAreOrdered` rest on `TxInv`. A transaction has taken its
  rows from the smallest id on (`InOrder`), every row it holds still passes the checks
  that it passed (`Sound`), the reservation it locked is as it was read (`AsRead`), and no
  two transactions have a row or a reservation in common (`Apart`). No part is inductive
  alone: a check stays true because nobody else can write the row, and nobody can because
  of the lock.
- Freedom from deadlock is a property of sets of transactions, not of pairs. In a set in
  which each waits for another, whoever is waited for is itself at an item row, and the
  row it wants is above the row it keeps from the other. So the number of products above
  the wanted row decreases from each transaction to the next, which it cannot do for ever:
  there are finitely many products.
- `TransactionsAreAtomic`: a commit is the operation of `Inventory` that its request asks
  for, on the rows as they are then, and every other statement leaves the committed rows
  alone. The commit itself checks nothing. `Sound` says that the versions a transaction
  keeps are what its request makes of the committed rows, and `Apart` that nobody else
  writes these; together they make the blind commit the operation (`CommitIsEffect`).
- `ConcurrentStock`: what is proved of `Inventory` holds of the committed rows.

`OrderSagaProofs`, about `OrderSaga` with any faults:

- `SagaTypeCorrect`, and `SettlementCorrect`: a paid or finished order has its
  reservation confirmed, a cancelled one released. The inductive invariant `SettleInv`
  adds `CallFits`: Pay only ever calls Confirm and cancel only Release, and once such a
  request was told of success the reservation is in that state, for good. Without it
  nothing links the write of `paid` or `cancelled` to the reservation.

Unless transactions have unknown outcomes (`"unknown" \notin Faults`):

- `RequestsExclude`: at most one request acts on an order;
- `PlansCorrect`: a flagged order has the repair that fits it;
- `TimersCorrect`: the timeout row follows the order;
- `StateMachineFollowed`: orders take only the documented transitions.

All four rest on `ClaimInv`: `SettleInv`, exclusion, `HoldsClaim` (past its claim, a request
finds the order in the status it claimed) and `OrderFits` (what every status implies for
timer, task and reservation; among others, an order without a timeout row was never
open, so no Confirm of it can be under way). Exclusion alone is not
inductive, because it is the status, read by the conditional update of the next
request, that keeps a second one out. `RequestFrame` shows that a step of one request
disturbs nothing of another's; `ClaimWork` treats the acting request step by step.

From `ClaimInv`, under the same condition, follow the two refinements:

- `PromiseKept`: `Spec => KeepsPromise`, that is `OrderLife` under the mapping of order
  and reservation status to stage and goods. Every step of a request changes one of the
  two, and `ClaimInv` says what the other one is; late calls of `stray` are the hard case:
  what they can still do depends on the status that the order can have reached.
- `ContractKept`: `Spec => TimerContract`, from `OrderFits`.

And, still under that condition, what a client may conclude from a status:

- `StatusHonest`: `Answered => []HonestWhileAnswered`. `HonestInv` adds to `ClaimInv` what
  holds until a call is given up on (`AllTold`): every request knows the state of the
  reservation at each of its steps, before the call (`Before`) and after it (`After`), and
  a status that nobody acts on tells it too (`GoodsTold`). A call can then only be late if
  its process has crashed. Its order is in a transient status, in which the conditional
  updates of all other requests leave it, so the late call meets nobody and the snapshot
  counts the order as stuck.

`ReconciliationProofs`, about `Reconciliation`, any number of repair workers beside the
requests of the saga, with all faults, unknown outcomes included:

- `ClosedTasksStay`: `ClosedTaskIsFinal`. The worker's writes are conditional on its lease,
  not on the status of the task, so this needs `JobInv`: a closed task is leased to nobody,
  and a worker that was overtaken finds itself without the lease.
- `RepairsSettle`: `SettlementAgrees` with workers. `RepairSettleInv` adds to `SettleInv`
  and `JobInv` that a worker which is about to complete a payment or a cancellation was
  told by inventory-service that the goods have moved.

`RepairProofs`, until a saga is misled, that is until `misled` holds:

- `TasksMatch`: `TasksMatchUnlessMisled`;
- `RepairsKeepPromise`: every step of the composition is one of `OrderLife`.

Both rest on `RepairInv`. It takes what the refinement needed of the saga (`PromiseInv`,
which contains `ClaimInv`) and adds `JobFits` and `WorkerFits`. A task that exists says
which outcome its order has or is to have (`TaskFits`), long after the flag is gone: a
worker whose lease ran out may still call inventory-service, and only `TaskFits` says that
its call changes nothing by then. A worker comes to mark a task unresolved only when
another one has completed it, and then it has lost the lease. A step of a saga is trusted
if it does not mislead in that step (`Trusted`), whatever `Faults` are, so the lemmas about
requests serve `OrderSaga` without unknown outcomes and `Reconciliation` with them.

`TimeoutOutboxProofs`, about `TimeoutOutbox` with any orders, replicas, batch size and
failures, shows from the inductive invariant `OutboxInv`:

- `TimeoutNotForgotten`: `NotForgotten`. The part of the invariant is `Tracked`: of an
  order that no saga has settled and no timeout was waived for, the row is not completed,
  nobody was told that it is resolved, and where the row says published, or a worker is
  about to mark it so, there is a message (`Present`). `Opened` adds that nobody knows an
  order before its row.
- `DuplicatesAreOwed`: `DuplicatesAreFailures`. Messages alone are not inductive: the next
  one is on its way as soon as a row is claimed, and can be before that. `Budget` counts
  for one order the messages, the workers that are still to publish it, and one more when
  its row can be claimed again without a failure (`Again`); together they stay within one
  and the failures. Every action moves one unit between the three, or pays with a failure:
  a missing confirmation, a lost session, a lease that runs out on a live worker. The sums
  are cardinalities of sets of workers, which is where finitely many replicas are used.
- `PublisherKeepsLease`: `PublisherHoldsLease`, from `Leases` and, for the completion of
  a row that somebody else may lease, `Budget`: while a message is in hand and nothing
  has failed, nobody is left to publish.
- `PublishedRowsArePursued`: `PublishedIsPursued`. Publisher and consumer write the
  status of a row without looking at it, so the message of a row can be handled, and the row
  completed, before its publisher marks it. `Pursued` adds what makes this harmless:
  a publisher that has its confirmation and still holds the lease has a message that
  is yet to be handled, since the handler clears the lease with the same update that
  completes the row.

`ServiceProofs`, about `Accounts` with any users, passwords and requests:

- `AccountsWhole`: `RegisteredWhole`, inductive with `TypeOK`, `Sound` (what a request
  knows at each of its steps) and `Held` (a name whose insert is not committed has no
  account, so the unique index keeps a second registration out).
- `PasswordsChained`: the action property, from the same invariant and the condition of
  `UpdateUserPassword` on the hash that was read.
- `WritesAreKept`: `Recorded => []ChangesAreKept`. `KeptInv` says that both columns are
  those of the last committed write, and that whoever is about to store a password has
  had it validated (`Checked`): the validation lies steps before the write, with the hash
  of another request possibly stored in between.

and about `ProductCache`, with any products and requests:

- `CacheTypeCorrect`: nothing is cached of a product that does not exist. Needs
  `RowsExist`: requests past their query, and late SETs, are about a row that exists.
- `StaleExplained`: `StaleHasCause`, inductive with these two. It rests on the order of
  the writer's steps, row before entry.

`PlatformProofs`, about `CircuitBreaker` with any callers, threshold and half-open
limit, from `BreakerInv`: types, and that the probes under way are finitely many:

- `ProbesAreAwaited`: `HalfOpenAwaitsProbe`. `halfOpenInFlight` may be less than the
  number of probes under way, since a failing probe resets it, but never more.
- `ProbesClose`: `ClosesOnProbe`, from the history of `BreakerHistory`.

and about `RateLimiter` with any rates, bursts, clients and places:

- `GlobalRateIsKept` and `ClientRateIsKept`. What passed in a window is not inductive by
  itself. `GlobalPotential` and `ClientPotential` bound what has passed since the window
  began together with what the bucket would hold if it were filled now (`Level`): a passed
  request moves one token from the second to the first, and only time adds to it.
- A client whose bucket is dropped before it is full gains at most one burst, which is
  what `forgot` counts, so `ClientRateIsKept` needs no assumption about the configuration.
- `CleanupDropsFullBuckets` says when cleanup costs nothing: if a bucket fills up within
  the TTL (`DropsOnlyFull`), and only eviction is left. Nothing in the code demands it of a
  configuration; the defaults satisfy it by far (100 requests at 50 a second, ten minutes).
- `RetryAfterHolds`: `RetryAfterIsExact`, by what the rounded-up quotient is.

`MonolithProofs`, about `Monolith` with any clients, handlers, orders, keys and products,
from `MonolithInv`, which is `StoreInv` for the tables and `BrokerInv` for the timeouts:

- `StockIsExplained`: `OrdersExplainStock`. A transaction reads the stock of its rows and
  writes it at the commit. That this loses no update of another is `TxReads` and
  `TxWrites` (what it computed is what the rows hold now, less or plus one) and `Apart`
  (no two transactions have locked the same row). The orders that hold a product are
  counted as a set.
- `KeysNameTheirOrders`: `KeyNamesItsOrder`, from the same invariant.
- `TimeoutsAreNotForgotten`: `NotForgotten`. `HandInv` says that a delivery is
  acknowledged only when its order is no longer pending, also when the handler that
  committed belongs to a session that has ended.
- `OrdersFollowTheirLife`: `FollowsLife`, since an order is locked from the read of its
  status to the commit.

TLC checked the inductive invariants on the instances of the runs before they were proved
(`TxInv`, `OutboxInv`, `RepairSettleInv`, `UnlessMisled`, `BreakerInv`, `MonolithInv`,
`LimiterTypes` with both potentials, `AllTold`, `KeptInv`).

Many leaves name the prover that finds them (`Zenon`, or `SMTT` and `ZenonT` with more
time). They are first-order steps without arithmetic, which Zenon does at once, while the
SMT encoding gets slower with every obligation of a module.

Only model-checked:

- liveness (`TimeoutEnds`, `FlaggedIsRepaired`, the breaker, the cache): the prover has
  neither fairness nor ENABLED;
- `BillIsExact` and `RefusalHasCause` of `OrderItems`, and its types: totals and
  aggregated lines are folds over sets and sequences, which need induction over data.

Every other property of the passing runs is the subject of a theorem.

## What is not modelled

- gateway routing, status codes, telemetry, metrics, generated gRPC code, frontend: I/O
  and translation without state of their own that the properties could be about.
- roles of administrators: one read per request of a table that no service writes after
  Register.
- the signature of tokens, which is the work of the jwt library.
- process start-up, configuration files and shutdown.
- InnoDB's gap locks, and the shared locks a failed duplicate-key check leaves behind;
  row locks only.
- deadlines as numbers: the request budget appears as calls that may be cut short and
  requests that may expire at any step.
- the monolith with more than one replica of its publisher. Its outbox has no lease, so
  replicas publish events twice; the consumer, which must tolerate repeats, is modelled.

## Hazards

`PROJECT.json` lists them with the properties that would catch each one. They fall into
five groups: two requests on one order; a call whose outcome is unknown; a crash between
two local transactions; leases that run out on a live worker; and limits (BIGINT, batch,
probes, buckets, places for clients).

## Plan

1. Extend the model: a second publisher replica in `Monolith`; the timing of the request
   budget against retries and backoff.
2. Prove more: the parts of `BillIsExact` that are not sums (the total stays within an
   int64, and inventory-service accepts the lines of every order that was inserted).
