----------------------------- MODULE RateLimiter -----------------------------
(***************************************************************************)
(* The token-bucket limiter of the API gateway                             *)
(* (internal/platform/ratelimit, cmd/api-gateway): a global bucket and one *)
(* per client, kept for at most MaxClients clients.  Allow runs under the  *)
(* limiter's mutex, so it is one step.                                     *)
(*                                                                         *)
(* Time is counted in ticks and tokens in fractions: a request costs Unit  *)
(* of them and a bucket gains its rate in each tick.  An observer that     *)
(* starts to count at some moment sees what a window of time lets through. *)
(***************************************************************************)
EXTENDS Integers, FiniteSets

CONSTANTS Keys,                          \* client keys
          Unit,                          \* what a request costs
          PerClientRate, PerClientBurst, \* Config; a burst is in requests
          GlobalRate, GlobalBurst,
          MaxClients, InactiveTTL, CleanupEvery,
          MaxTime                        \* bound: ticks in a behaviour

(* normalized replaces what is not positive by a default.  It compares no  *)
(* setting with another: a short InactiveTTL may be over before a bucket   *)
(* has filled up.  Unit and MaxTime are the model's.                       *)
ASSUME LimiterAssumption ==
  {Unit, PerClientRate, PerClientBurst, GlobalRate, GlobalBurst,
   MaxClients, InactiveTTL, CleanupEvery, MaxTime} \subseteq Nat \ {0}

VARIABLES now,
          global,       \* the global bucket
          clients,      \* the buckets of the clients that are known
          lastCleanup,
          reply,        \* what the last call of Allow returned
          start,        \* when the observer starts to count
          granted,      \* requests it has seen pass, per client
          forgot        \* how often it has seen a bucket dropped that was not full

vars == <<now, global, clients, lastCleanup, reply, start, granted, forgot>>

Min(a, b) == IF a < b THEN a ELSE b

Max(a, b) == IF a < b THEN b ELSE a

Known == DOMAIN clients

Bucket(burst) == [tokens : 0..(burst * Unit), last : 0..MaxTime]

TypeOK ==
  /\ now \in 0..MaxTime
  /\ global \in Bucket(GlobalBurst)
  /\ Known \subseteq Keys /\ Cardinality(Known) <= MaxClients
  /\ \A k \in Known : /\ clients[k].bucket \in Bucket(PerClientBurst)
                      /\ clients[k].lastSeen \in 0..now
  /\ lastCleanup \in 0..now
  /\ reply \in [key : Keys \cup {"none"}, allowed : BOOLEAN, retryAfter : Nat]
  /\ start \in 0..MaxTime
  /\ granted \in [Keys -> Nat]
  /\ forgot \in [Keys -> Nat]

Init ==
  /\ now = 0
  /\ global = [tokens |-> GlobalBurst * Unit, last |-> 0]
  /\ clients = [k \in {} |-> 0]
  /\ lastCleanup = 0
  /\ reply = [key |-> "none", allowed |-> TRUE, retryAfter |-> 0]
  /\ start \in 0..MaxTime
  /\ granted = [k \in Keys |-> 0]
  /\ forgot = [k \in Keys |-> 0]

-----------------------------------------------------------------------------
(* Mutant of refill: the bucket has no brim.                               *)
refillOver(b, rate, burst, t) ==
  IF t <= b.last THEN b
  ELSE [tokens |-> Min(burst * Unit + rate, b.tokens + (t - b.last) * rate), last |-> t]

refill(b, rate, burst, t) ==
  IF t <= b.last THEN b
  ELSE [tokens |-> Min(burst * Unit, b.tokens + (t - b.last) * rate), last |-> t]

(* Mutant of waitDuration: the quotient is rounded down.                   *)
waitDurationShort(tokens, rate) ==
  IF tokens >= Unit THEN 0 ELSE (Unit - tokens) \div rate

(* The ticks until the bucket has a token again, rounded up.  The code     *)
(* counts tokens in float64; here they are exact.                          *)
waitDuration(tokens, rate) ==
  IF tokens >= Unit THEN 0 ELSE (Unit - tokens + rate - 1) \div rate

(* The clients that cleanupLocked leaves.                                  *)
Cleaned ==
  IF now - lastCleanup < CleanupEvery THEN Known
  ELSE {k \in Known : clients[k].lastSeen >= now - InactiveTTL}

(* The clients that clientLocked leaves, k among them.  Of several clients *)
(* last seen at the same time, map iteration picks any.                    *)
Kept(k) ==
  IF k \in Cleaned \/ Cardinality(Cleaned) < MaxClients THEN {Cleaned \cup {k}}
  ELSE {(Cleaned \ {x}) \cup {k} : x \in
         {x \in Cleaned : \A y \in Cleaned : clients[x].lastSeen <= clients[y].lastSeen}}

(* The buckets that a call which leaves the clients in kept drops, by its  *)
(* cleanup or to make room.                                                *)
Dropped(kept) == Known \ (Cleaned \cap kept)

Full(k) ==
  refill(clients[k].bucket, PerClientRate, PerClientBurst, now).tokens = PerClientBurst * Unit

NewBucket == [tokens |-> PerClientBurst * Unit, last |-> now]

(* Mutant of Take: the client pays and the global bucket does not.         *)
TakeFromClient(g, c) == <<g, [c EXCEPT !.tokens = @ - Unit]>>

(* An allowed request takes a token from both buckets.                     *)
Take(g, c) == <<[g EXCEPT !.tokens = @ - Unit], [c EXCEPT !.tokens = @ - Unit]>>

Allow(k) ==
  \E kept \in Kept(k) :
    LET old == IF k \in Cleaned THEN clients[k].bucket ELSE NewBucket
        g == refill(global, GlobalRate, GlobalBurst, now)
        c == refill(old, PerClientRate, PerClientBurst, now)
        wait == Max(waitDuration(g.tokens, GlobalRate), waitDuration(c.tokens, PerClientRate))
        after == IF wait = 0 THEN Take(g, c) ELSE <<g, c>>
    IN  /\ global' = after[1]
        /\ clients' = [x \in kept |->
             IF x = k THEN [bucket |-> after[2], lastSeen |-> now] ELSE clients[x]]
        /\ lastCleanup' = IF now - lastCleanup < CleanupEvery THEN lastCleanup ELSE now
        /\ reply' = [key |-> k, allowed |-> wait = 0, retryAfter |-> wait]
        /\ granted' = IF wait = 0 /\ now >= start THEN [granted EXCEPT ![k] = @ + 1] ELSE granted
        /\ forgot' = [x \in Keys |->
             IF now >= start /\ x \in Dropped(kept) /\ ~Full(x) THEN forgot[x] + 1 ELSE forgot[x]]
        /\ UNCHANGED <<now, start>>

Tick ==
  /\ now < MaxTime
  /\ now' = now + 1
  /\ UNCHANGED <<global, clients, lastCleanup, reply, start, granted, forgot>>

(* The gateway asks Allow about every request but its health checks and    *)
(* turns it away when told so.  The Retry-After header rounds the wait up  *)
(* to whole seconds; retryAfter is the wait that Allow returns.            *)
Next == Tick \/ \E k \in Keys : Allow(k)

Spec == Init /\ [][Next]_vars

-----------------------------------------------------------------------------
(* In a window of t ticks a bucket lets through its burst and what it      *)
(* gains, whenever the window starts: the brim keeps an idle time from     *)
(* being saved up.                                                         *)
Window(burst, rate) == burst * Unit + rate * (now - start)

Total == Cardinality(UNION {{k} \X (1..granted[k]) : k \in Keys})

(* All clients together are held to the global rate, however their buckets *)
(* come and go.                                                            *)
GlobalRateHolds == now >= start => Total * Unit <= Window(GlobalBurst, GlobalRate)

(* The limiter remembers MaxClients clients and no more, and a client is   *)
(* held to its own rate for as long as it is remembered.  Whoever is       *)
(* forgotten, evicted to make room or dropped by a cleanup, before its     *)
(* bucket has filled up starts anew with a full one: that is one burst for *)
(* each time, and never more.                                              *)
ClientRateHolds ==
  /\ Cardinality(Known) <= MaxClients
  /\ now >= start =>
       \A k \in Keys : granted[k] * Unit <= Window(PerClientBurst, PerClientRate)
                                              + forgot[k] * (PerClientBurst * Unit)

(* A client that is refused and waits as long as Allow says is served if   *)
(* nobody came first, and it is not told to wait longer than that: exact   *)
(* in the fractions of the model, in the code up to the rounding of        *)
(* float64.                                                                *)
Serves(b, rate, burst, wait) == refill(b, rate, burst, b.last + wait).tokens >= Unit

Serve(wait) ==
  /\ Serves(global, GlobalRate, GlobalBurst, wait)
  /\ Serves(clients[reply.key].bucket, PerClientRate, PerClientBurst, wait)

RetryAfterIsExact ==
  ~reply.allowed => Serve(reply.retryAfter) /\ ~Serve(reply.retryAfter - 1)
=============================================================================
