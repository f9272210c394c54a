---------------------------- MODULE ProductCache ----------------------------
(***************************************************************************)
(* The product service of the single-database implementation               *)
(* (internal/service/product_service.go) with its Redis cache of product   *)
(* details (internal/bizcache).  Every request is a goroutine that takes   *)
(* one statement on MySQL or one command on Redis at a time.  Of a product *)
(* only its status can change, so an entry of the cache is the status it   *)
(* was read with.                                                          *)
(***************************************************************************)
EXTENDS Naturals

CONSTANTS Products,
          Goroutines    \* requests that are served at the same time

VARIABLES status,       \* products.status, "none" before the row exists
          cache,        \* product:detail:<id> in Redis
          goroutine,    \* what each request is doing
          late,         \* commands given up on that Redis may still run
          blamed        \* history: products whose entry may be stale, see Put, Leave

cacheVars == <<status, cache, goroutine, late, blamed>>

Statuses == {"on", "off"}

Idle == [op |-> "none", product |-> "none", pc |-> "idle", value |-> "none"]

(* pc: what the goroutine does next.  value: the row it has read.          *)
Active ==
  [op : {"get"}, product : Products, pc : {"lookup", "load"}, value : {"none"}]
  \cup [op : {"get"}, product : Products, pc : {"store"}, value : Statuses]
  \cup [op : Statuses, product : Products, pc : {"check", "update", "invalidate"},
        value : {"none"}]

(* A command on the way to Redis: SET with a value, or DEL ("none").       *)
Commands == [product : Products, value : Statuses \cup {"none"}]

(* Types; an entry is only ever made of a row that exists.                 *)
CacheTypeOK ==
  /\ status \in [Products -> Statuses \cup {"none"}]
  /\ cache \in [Products -> Statuses \cup {"none"}]
  /\ \A p \in Products : status[p] = "none" => cache[p] = "none"
  /\ goroutine \in [Goroutines -> Active \cup {Idle}]
  /\ late \subseteq Commands
  /\ blamed \subseteq Products

CacheInit ==
  /\ status = [p \in Products |-> "none"]
  /\ cache = [p \in Products |-> "none"]
  /\ goroutine = [g \in Goroutines |-> Idle]
  /\ late = {}
  /\ blamed = {}

End(g) == goroutine' = [goroutine EXCEPT ![g] = Idle]

Continue(g, pc) == goroutine' = [goroutine EXCEPT ![g].pc = pc]

(* Redis runs SET or DEL.  The entry is to blame on its reader if the row  *)
(* has changed since it was read.                                          *)
Put(p, v) ==
  /\ cache' = [cache EXCEPT ![p] = v]
  /\ blamed' = IF v \in {"none", status[p]} THEN blamed \ {p} ELSE blamed \cup {p}

(* A writer that has changed the row leaves without deleting the entry.    *)
Leave(p) == blamed' = blamed \cup {p}

-----------------------------------------------------------------------------
(* CreateProduct: a valid product is inserted, off sale.                   *)
CreateProduct(p) ==
  /\ status[p] = "none"
  /\ status' = [status EXCEPT ![p] = "off"]
  /\ UNCHANGED <<cache, goroutine, late, blamed>>

(* A request for the details of a product or to put it on or off sale.     *)
Begin(g, op, p) ==
  /\ goroutine[g] = Idle
  /\ goroutine' = [goroutine EXCEPT ![g] =
       [op |-> op, product |-> p, pc |-> IF op = "get" THEN "lookup" ELSE "check",
        value |-> "none"]]
  /\ UNCHANGED <<status, cache, late, blamed>>

(* Mutant of Lookup: a hit stores the entry again, to keep it longer.      *)
LookupRefreshes(g) ==
  LET p == goroutine[g].product
  IN  /\ goroutine[g].pc = "lookup"
      /\ IF cache[p] # "none"
           THEN goroutine' = [goroutine EXCEPT ![g].pc = "store", ![g].value = cache[p]]
           ELSE Continue(g, "load")
      /\ UNCHANGED <<status, cache, late, blamed>>

(* GetProductDetail: a hit is the answer; a miss, or an error of Redis     *)
(* whether there is an entry or not, goes on to the database.              *)
Lookup(g) ==
  /\ goroutine[g].pc = "lookup"
  /\ \/ cache[goroutine[g].product] # "none" /\ End(g)
     \/ Continue(g, "load")
  /\ UNCHANGED <<status, cache, late, blamed>>

(* GetProductByID reads the row; without one, or when the query fails, the *)
(* request ends with an error and nothing is cached.                       *)
Load(g) ==
  LET row == status[goroutine[g].product]
  IN  /\ goroutine[g].pc = "load"
      /\ \/ /\ row # "none"
            /\ goroutine' = [goroutine EXCEPT ![g].pc = "store", ![g].value = row]
         \/ End(g)
      /\ UNCHANGED <<status, cache, late, blamed>>

(* A command that changes Redis is run, is run after its 500 ms are over,  *)
(* or is never run; the goroutine is done in each case, since the error is *)
(* dropped.  Bound: of two equal late commands on their way one is enough. *)
Answered(p, v) == Put(p, v) /\ UNCHANGED late

TimedOut(p, v) ==
  LET c == [product |-> p, value |-> v]
  IN  c \notin late /\ late' = late \cup {c} /\ UNCHANGED cache

Refused == UNCHANGED <<cache, late>>

(* SetProductDetail: the row that was read is cached with a time to live.  *)
Store(g) ==
  LET p == goroutine[g].product
      v == goroutine[g].value
  IN  /\ goroutine[g].pc = "store"
      /\ \/ Answered(p, v)
         \/ TimedOut(p, v) /\ UNCHANGED blamed
         \/ Refused /\ UNCHANGED blamed
      /\ End(g)
      /\ UNCHANGED status

-----------------------------------------------------------------------------
(* OnSaleProduct and OffSaleProduct read the row: a missing row or a       *)
(* failing query is an error, and a product that already has the status is *)
(* left alone, its entry included.                                         *)
Check(g) ==
  LET row == status[goroutine[g].product]
  IN  /\ goroutine[g].pc = "check"
      /\ \/ row \notin {"none", goroutine[g].op} /\ Continue(g, "update")
         \/ End(g)
      /\ UNCHANGED <<status, cache, late, blamed>>

(* Mutant of Update: the entry is deleted before the row is changed.       *)
UpdateAfterDelete(g) ==
  LET p == goroutine[g].product
  IN  \/ /\ goroutine[g].pc = "update"
         /\ Put(p, "none")
         /\ Continue(g, "invalidate")
         /\ UNCHANGED <<status, late>>
      \/ /\ goroutine[g].pc = "invalidate"
         /\ status' = [status EXCEPT ![p] = goroutine[g].op]
         /\ End(g)
         /\ UNCHANGED <<cache, late, blamed>>

(* They then set the status, whatever it is by now.  The update may fail,  *)
(* or commit and be reported as failed: both end the request with an error *)
(* and leave the cache alone.                                              *)
Update(g) ==
  LET p == goroutine[g].product
      set == status' = [status EXCEPT ![p] = goroutine[g].op]
  IN  /\ goroutine[g].pc = "update"
      /\ \/ set /\ Continue(g, "invalidate") /\ UNCHANGED blamed
         \/ set /\ End(g) /\ Leave(p)
         \/ End(g) /\ UNCHANGED <<status, blamed>>
      /\ UNCHANGED <<cache, late>>

(* DeleteProductDetailCache, the last step of a request that changed the   *)
(* row.                                                                    *)
Invalidate(g) ==
  LET p == goroutine[g].product
  IN  /\ goroutine[g].pc = "invalidate"
      /\ \/ Answered(p, "none")
         \/ TimedOut(p, "none") /\ Leave(p)
         \/ Refused /\ Leave(p)
      /\ End(g)
      /\ UNCHANGED status

-----------------------------------------------------------------------------
(* The process of a request dies between two of its steps.                 *)
Crash(g) ==
  /\ goroutine[g] # Idle
  /\ IF goroutine[g].pc = "invalidate" THEN Leave(goroutine[g].product) ELSE UNCHANGED blamed
  /\ End(g)
  /\ UNCHANGED <<status, cache, late>>

(* Redis gets to a command whose caller has given up.                      *)
ServeLate(c) ==
  /\ c \in late
  /\ late' = late \ {c}
  /\ Put(c.product, c.value)
  /\ UNCHANGED <<status, goroutine>>

(* The time to live of an entry is over.                                   *)
Expire(p) ==
  /\ cache[p] # "none"
  /\ Put(p, "none")
  /\ UNCHANGED <<status, goroutine, late>>

Work(g) ==
  \/ Lookup(g) \/ Load(g) \/ Store(g)
  \/ Check(g) \/ Update(g) \/ Invalidate(g)

(* One operation per handler.  Requests that a handler turns away, and     *)
(* ListProducts, change nothing.                                           *)
CacheNext ==
  \/ \E p \in Products : CreateProduct(p) \/ Expire(p)
  \/ \E g \in Goroutines, op \in Statuses \cup {"get"}, p \in Products : Begin(g, op, p)
  \/ \E g \in Goroutines : Work(g) \/ Crash(g)
  \/ \E c \in Commands : ServeLate(c)

CacheSpec == CacheInit /\ [][CacheNext]_cacheVars

(* Goroutines go on, commands that are on their way arrive, and entries    *)
(* expire; nobody has to ask for anything.                                 *)
FairSpec ==
  /\ CacheSpec
  /\ \A g \in Goroutines : WF_cacheVars(Work(g))
  /\ \A c \in Commands : WF_cacheVars(ServeLate(c))
  /\ \A p \in Products : WF_cacheVars(Expire(p))

-----------------------------------------------------------------------------
Stale(p) == cache[p] \notin {"none", status[p]}

(* The row is changed before the entry is deleted, and an entry is made    *)
(* only of a row: a stale entry is either about to be deleted by a writer, *)
(* or its reader was overtaken by a writer, or a writer has failed to      *)
(* delete it.  Without these two coincidences a reader that comes after    *)
(* the answer to OnSaleProduct or OffSaleProduct gets the new status.      *)
StaleHasCause ==
  \A p \in Products : Stale(p) =>
    \/ p \in blamed
    \/ \E g \in Goroutines : goroutine[g].product = p /\ goroutine[g].pc = "invalidate"

(* Once the status of a product stays, its entry is right from some time   *)
(* on: readers that were overtaken and commands that were late run out,    *)
(* and what they left behind expires since a hit does not renew it.        *)
CacheConverges ==
  \A p \in Products, s \in Statuses :
    <>[](status[p] = s) => <>[](cache[p] \in {"none", s})
=============================================================================
