--------------------------- MODULE PlatformProofs ---------------------------
(***************************************************************************)
(* Proofs about the two libraries that all services are built on           *)
(* (internal/platform): the rate limiter, for any clients, rates, bursts   *)
(* and places for clients, and the circuit breaker, for any callers,       *)
(* failure threshold and half-open limit.                                  *)
(*                                                                         *)
(* The argument about the limiter is a potential: the requests that passed *)
(* in the window and what is left in the bucket are together within what   *)
(* the window lets through, however calls and ticks take turns.            *)
(***************************************************************************)
EXTENDS RateLimiter, BreakerHistory, FiniteSetTheorems, TLAPS

(* What rounding a quotient up gives.                                      *)
LEMMA CeilingFits ==
  ASSUME NEW a \in Nat \ {0}, NEW r \in Nat \ {0}, NEW q, q = (a + r - 1) \div r
  PROVE  q \in Nat \ {0} /\ q * r >= a /\ (q - 1) * r < a
  <1>1. a + r - 1 \in Nat /\ q \in Int OBVIOUS
  <1>2. q * r <= a + r - 1 BY <1>1
  <1>3. a + r - 1 < (q + 1) * r BY <1>1
  <1>4. (q + 1) * r = q * r + r /\ (q - 1) * r = q * r - r BY <1>1
  <1>5. q * r >= a /\ (q - 1) * r < a BY <1>1, <1>2, <1>3, <1>4
  <1>6. q > 0 BY <1>1, <1>5
  <1> QED BY <1>1, <1>5, <1>6

-----------------------------------------------------------------------------
IsBucket(b, burst) ==
  b \in [tokens : Nat, last : Nat] /\ b.tokens <= burst * Unit /\ b.last <= now

(* The types, with a client last seen when its bucket was last filled.     *)
LimiterTypes ==
  /\ now \in Nat /\ now <= MaxTime
  /\ IsBucket(global, GlobalBurst)
  /\ IsFiniteSet(Known) /\ Known \subseteq Keys /\ Cardinality(Known) <= MaxClients
  /\ clients = [k \in Known |-> clients[k]]
  /\ \A k \in Known : /\ clients[k] \in [bucket : [tokens : Nat, last : Nat], lastSeen : Nat]
                      /\ IsBucket(clients[k].bucket, PerClientBurst)
                      /\ clients[k].lastSeen = clients[k].bucket.last
  /\ lastCleanup \in Nat /\ lastCleanup <= now
  /\ reply \in [key : Keys \cup {"none"}, allowed : BOOLEAN, retryAfter : Nat]
  /\ start \in 0..MaxTime
  /\ granted \in [Keys -> Nat]
  /\ forgot \in [Keys -> Nat]

(* What a bucket would hold if it were filled now.                         *)
Level(b, rate, burst) == Min(burst * Unit, b.tokens + (now - b.last) * rate)

ClientLevel(k) ==
  IF k \in Known THEN Level(clients[k].bucket, PerClientRate, PerClientBurst)
  ELSE PerClientBurst * Unit

(* What has passed in the window and what the bucket still holds are       *)
(* together no more than the window lets through.                          *)
Passed == UNION {{k} \X (1..granted[k]) : k \in Keys}

GlobalPotential ==
  /\ IsFiniteSet(Passed)
  /\ now < start => Passed = {}
  /\ now >= start =>
       Total * Unit + Level(global, GlobalRate, GlobalBurst) <= Window(GlobalBurst, GlobalRate)

(* What a client gained by being forgotten.                                *)
Grace(k) == forgot[k] * (PerClientBurst * Unit)

ClientBound(k) ==
  /\ now < start => granted[k] = 0
  /\ now >= start =>
       granted[k] * Unit + ClientLevel(k) <= Window(PerClientBurst, PerClientRate) + Grace(k)

ClientPotential == \A k \in Keys : ClientBound(k)

(* InactiveTTL is at least the time that it takes an empty bucket to fill  *)
(* up.  The configuration need not be so, the default is: a hundred        *)
(* requests at fifty a second, and ten minutes.                            *)
DropsOnlyFull == (InactiveTTL + 1) * PerClientRate >= PerClientBurst * Unit

-----------------------------------------------------------------------------
LEMMA ConstantFacts ==
  /\ Unit \in Nat \ {0} /\ PerClientRate \in Nat \ {0} /\ PerClientBurst \in Nat \ {0}
  /\ GlobalRate \in Nat \ {0} /\ GlobalBurst \in Nat \ {0} /\ MaxClients \in Nat \ {0}
  /\ InactiveTTL \in Nat \ {0} /\ CleanupEvery \in Nat \ {0} /\ MaxTime \in Nat \ {0}
  BY LimiterAssumption

(* refill brings a bucket to its level.                                    *)
LEMMA RefillFills ==
  ASSUME now \in Nat, NEW b, NEW rate \in Nat \ {0}, NEW burst \in Nat \ {0},
         IsBucket(b, burst)
  PROVE  /\ IsBucket(refill(b, rate, burst, now), burst)
         /\ refill(b, rate, burst, now).last = now
         /\ refill(b, rate, burst, now).tokens = Level(b, rate, burst)
         /\ Level(b, rate, burst) \in Nat /\ Level(b, rate, burst) <= burst * Unit
  <1>1. /\ b \in [tokens : Nat, last : Nat] /\ b.tokens \in Nat /\ b.last \in Nat
        /\ b.tokens <= burst * Unit /\ b.last <= now
    BY DEF IsBucket
  <1>2. burst * Unit \in Nat /\ (now - b.last) * rate \in Nat BY <1>1, ConstantFacts
  <1>3. Level(b, rate, burst) \in Nat /\ Level(b, rate, burst) <= burst * Unit
    BY <1>1, <1>2 DEF Level, Min
  <1>4. CASE now <= b.last
    <2>1. refill(b, rate, burst, now) = b /\ b.last = now BY <1>1, <1>4 DEF refill
    <2>2. (now - b.last) * rate = 0 BY <1>1, <2>1
    <2>3. Level(b, rate, burst) = b.tokens BY <1>1, <1>2, <2>2 DEF Level, Min
    <2> QED BY <1>3, <2>1, <2>3
  <1>5. CASE ~(now <= b.last)
    <2>1. refill(b, rate, burst, now) = [tokens |-> Level(b, rate, burst), last |-> now]
      BY <1>5, Zenon DEF refill, Level
    <2> QED BY <1>3, <2>1 DEF IsBucket
  <1> QED BY <1>4, <1>5

(* A bucket that was filled now is at its level.                           *)
LEMMA FilledIsLevel ==
  ASSUME now \in Nat, NEW b, NEW rate \in Nat \ {0}, NEW burst \in Nat \ {0},
         IsBucket(b, burst), b.last = now
  PROVE  Level(b, rate, burst) = b.tokens
  <1>1. /\ b.tokens \in Nat /\ b.tokens <= burst * Unit /\ burst * Unit \in Nat
    BY ConstantFacts DEF IsBucket
  <1>2. (now - b.last) * rate = 0 OBVIOUS
  <1> QED BY <1>1, <1>2 DEF Level, Min

LEMMA TokenTaken ==
  ASSUME NEW b, NEW burst \in Nat \ {0}, IsBucket(b, burst), b.tokens >= Unit
  PROVE  /\ IsBucket([b EXCEPT !.tokens = @ - Unit], burst)
         /\ [b EXCEPT !.tokens = @ - Unit].tokens = b.tokens - Unit
         /\ [b EXCEPT !.tokens = @ - Unit].last = b.last
  <1>1. /\ b \in [tokens : Nat, last : Nat] /\ b.tokens \in Nat /\ burst * Unit \in Nat
        /\ Unit \in Nat
    BY ConstantFacts DEF IsBucket
  <1>2. b.tokens - Unit \in Nat /\ (b.tokens <= burst * Unit => b.tokens - Unit <= burst * Unit)
    BY <1>1
  <1> QED BY <1>1, <1>2 DEF IsBucket

(* waitDuration is when the bucket has a token again, and no later.        *)
LEMMA WaitIsExact ==
  ASSUME NEW b \in [tokens : Nat, last : Nat], NEW rate \in Nat \ {0},
         NEW burst \in Nat \ {0}, NEW w, w = waitDuration(b.tokens, rate)
  PROVE  /\ w \in Nat /\ (w = 0 <=> b.tokens >= Unit)
         /\ \A v \in Nat : v >= w => Serves(b, rate, burst, v)
         /\ w > 0 => ~Serves(b, rate, burst, w - 1)
  <1>1. b.tokens \in Nat /\ b.last \in Nat /\ Unit \in Nat \ {0} BY ConstantFacts
  <1>2. burst * Unit >= Unit /\ burst * Unit \in Nat BY <1>1
  <1>3. ASSUME NEW v \in Nat, v > 0
        PROVE  Serves(b, rate, burst, v) <=> b.tokens + v * rate >= Unit
    <2>1. b.last + v > b.last /\ (b.last + v) - b.last = v BY <1>1, <1>3
    <2>2. refill(b, rate, burst, b.last + v).tokens = Min(burst * Unit, b.tokens + v * rate)
      BY <1>1, <2>1 DEF refill
    <2>3. v * rate \in Nat OBVIOUS
    <2> QED BY <1>1, <1>2, <2>2, <2>3 DEF Serves, Min
  <1>4. Serves(b, rate, burst, 0) <=> b.tokens >= Unit
    <2>1. refill(b, rate, burst, b.last + 0) = b BY <1>1 DEF refill
    <2> QED BY <2>1 DEF Serves
  <1>5. CASE b.tokens >= Unit
    <2>1. w = 0 BY <1>5 DEF waitDuration
    <2>2. ASSUME NEW v \in Nat PROVE Serves(b, rate, burst, v)
      <3>1. v * rate \in Nat OBVIOUS
      <3>2. CASE v = 0 BY <1>4, <1>5, <3>2
      <3>3. CASE v > 0
        <4>1. b.tokens + v * rate >= Unit BY <1>1, <1>5, <3>1
        <4> QED BY <1>3, <3>3, <4>1, Zenon
      <3> QED BY <3>2, <3>3
    <2> QED BY <1>5, <2>1, <2>2
  <1>6. CASE ~(b.tokens >= Unit)
    <2> DEFINE a == Unit - b.tokens
    <2>1. a \in Nat \ {0} BY <1>1, <1>6
    <2>2. w = (a + rate - 1) \div rate BY <1>6 DEF waitDuration
    <2> HIDE DEF a
    <2>3. w \in Nat \ {0} /\ w * rate >= a /\ (w - 1) * rate < a
      BY <2>1, <2>2, CeilingFits, Zenon
    <2>4. ASSUME NEW v \in Nat, v >= w PROVE Serves(b, rate, burst, v)
      <3>1. v * rate >= w * rate /\ v * rate \in Nat /\ w * rate \in Nat BY <2>3, <2>4
      <3>2. b.tokens + v * rate >= Unit BY <1>1, <2>3, <3>1 DEF a
      <3> QED BY <1>3, <2>3, <2>4, <3>2
    <2>5. ~Serves(b, rate, burst, w - 1)
      <3>1. CASE w = 1 BY <1>4, <1>6, <3>1
      <3>2. CASE w # 1
        <4>1. w - 1 \in Nat /\ w - 1 > 0 BY <2>3, <3>2
        <4>2. (w - 1) * rate \in Nat BY <4>1
        <4>3. ~(b.tokens + (w - 1) * rate >= Unit) BY <1>1, <2>3, <4>2 DEF a
        <4> QED BY <1>3, <4>1, <4>3
      <3> QED BY <3>1, <3>2
    <2> QED BY <1>6, <2>3, <2>4, <2>5
  <1> QED BY <1>5, <1>6

(* The clients that are left: the one that asks, and others that were      *)
(* there, no more than MaxClients.                                         *)
LEMMA KeptFacts ==
  ASSUME LimiterTypes, NEW k \in Keys, NEW kept \in Kept(k)
  PROVE  /\ k \in kept /\ kept \subseteq Cleaned \cup {k} /\ Cleaned \subseteq Known
         /\ kept \subseteq Keys /\ IsFiniteSet(kept) /\ Cardinality(kept) <= MaxClients
  <1>1. Cleaned \subseteq Known BY DEF Cleaned
  <1>2. IsFiniteSet(Known) /\ Known \subseteq Keys /\ Cardinality(Known) <= MaxClients
    BY DEF LimiterTypes
  <1>3. IsFiniteSet(Cleaned) /\ Cardinality(Cleaned) <= Cardinality(Known)
    BY <1>1, <1>2, FS_Subset
  <1>4. Cardinality(Cleaned) \in Nat /\ Cardinality(Known) \in Nat /\ MaxClients \in Nat
    BY <1>2, <1>3, FS_CardinalityType, ConstantFacts
  <1>5. CASE k \in Cleaned
    <2>1. kept = Cleaned BY <1>5 DEF Kept
    <2> QED BY <1>1, <1>2, <1>3, <1>4, <1>5, <2>1
  <1>6. CASE k \notin Cleaned /\ Cardinality(Cleaned) < MaxClients
    <2>1. kept = Cleaned \cup {k} BY <1>6 DEF Kept
    <2>2. IsFiniteSet(kept) /\ Cardinality(kept) = Cardinality(Cleaned) + 1
      BY <1>3, <1>6, <2>1, FS_AddElement
    <2> QED BY <1>1, <1>2, <1>4, <1>6, <2>1, <2>2
  <1>7. CASE k \notin Cleaned /\ ~(Cardinality(Cleaned) < MaxClients)
    <2>1. PICK x \in Cleaned : kept = (Cleaned \ {x}) \cup {k} BY <1>7 DEF Kept
    <2>2. IsFiniteSet(Cleaned \ {x}) /\ Cardinality(Cleaned \ {x}) = Cardinality(Cleaned) - 1
      BY <1>3, FS_RemoveElement, Zenon
    <2>3. k \notin Cleaned \ {x} BY <1>7
    <2>4. IsFiniteSet(kept) /\ Cardinality(kept) = Cardinality(Cleaned \ {x}) + 1
      BY <2>1, <2>2, <2>3, FS_AddElement, Zenon
    <2> QED BY <1>1, <1>2, <1>3, <1>4, <2>1, <2>2, <2>4
  <1> QED BY <1>5, <1>6, <1>7

-----------------------------------------------------------------------------
(* The local variables of a call of Allow.                                 *)
OldBucket(k) == IF k \in Cleaned THEN clients[k].bucket ELSE NewBucket

FilledGlobal == refill(global, GlobalRate, GlobalBurst, now)

FilledClient(k) == refill(OldBucket(k), PerClientRate, PerClientBurst, now)

Wait(k) == Max(waitDuration(FilledGlobal.tokens, GlobalRate),
               waitDuration(FilledClient(k).tokens, PerClientRate))

After(k) ==
  IF Wait(k) = 0 THEN Take(FilledGlobal, FilledClient(k)) ELSE <<FilledGlobal, FilledClient(k)>>

AllowLeaves(k, kept) ==
  /\ global' = After(k)[1]
  /\ clients' = [x \in kept |->
       IF x = k THEN [bucket |-> After(k)[2], lastSeen |-> now] ELSE clients[x]]
  /\ lastCleanup' \in {lastCleanup, now}
  /\ reply' = [key |-> k, allowed |-> Wait(k) = 0, retryAfter |-> Wait(k)]
  /\ granted' = IF Wait(k) = 0 /\ now >= start THEN [granted EXCEPT ![k] = @ + 1] ELSE granted
  /\ forgot' = [x \in Keys |->
       IF now >= start /\ x \in Dropped(kept) /\ ~Full(x) THEN forgot[x] + 1 ELSE forgot[x]]
  /\ now' = now /\ start' = start

LEMMA AllowIsOneCall ==
  ASSUME NEW k \in Keys, Allow(k)
  PROVE  \E kept \in Kept(k) : AllowLeaves(k, kept)
  <1>1. PICK kept \in Kept(k) :
          /\ global' = After(k)[1]
          /\ clients' = [x \in kept |->
               IF x = k THEN [bucket |-> After(k)[2], lastSeen |-> now] ELSE clients[x]]
          /\ lastCleanup' = IF now - lastCleanup < CleanupEvery THEN lastCleanup ELSE now
          /\ reply' = [key |-> k, allowed |-> Wait(k) = 0, retryAfter |-> Wait(k)]
          /\ granted' = IF Wait(k) = 0 /\ now >= start THEN [granted EXCEPT ![k] = @ + 1] ELSE granted
          /\ forgot' = [x \in Keys |->
               IF now >= start /\ x \in Dropped(kept) /\ ~Full(x) THEN forgot[x] + 1 ELSE forgot[x]]
          /\ UNCHANGED <<now, start>>
    BY Zenon DEF Allow, After, Wait, FilledGlobal, FilledClient, OldBucket
  <1>2. lastCleanup' \in {lastCleanup, now} BY <1>1
  <1>3. now' = now /\ start' = start BY <1>1
  <1> QED BY <1>1, <1>2, <1>3, Zenon DEF AllowLeaves

(* What a call does to the two buckets.                                    *)
LEMMA AllowBuckets ==
  ASSUME LimiterTypes, NEW k \in Keys
  PROVE  /\ IsBucket(FilledGlobal, GlobalBurst) /\ IsBucket(FilledClient(k), PerClientBurst)
         /\ FilledGlobal.tokens = Level(global, GlobalRate, GlobalBurst)
         /\ FilledClient(k).tokens = Level(OldBucket(k), PerClientRate, PerClientBurst)
         /\ Wait(k) \in Nat
         /\ IsBucket(After(k)[1], GlobalBurst) /\ After(k)[1].last = now
         /\ IsBucket(After(k)[2], PerClientBurst) /\ After(k)[2].last = now
         /\ Wait(k) # 0 => After(k)[1] = FilledGlobal /\ After(k)[2] = FilledClient(k)
         /\ Wait(k) = 0 => /\ After(k)[1].tokens = FilledGlobal.tokens - Unit
                           /\ After(k)[2].tokens = FilledClient(k).tokens - Unit
  <1> DEFINE g == FilledGlobal
             c == FilledClient(k)
             wg == waitDuration(g.tokens, GlobalRate)
             wc == waitDuration(c.tokens, PerClientRate)
  <1>1. now \in Nat /\ IsBucket(global, GlobalBurst) BY DEF LimiterTypes
  <1>2. IsBucket(OldBucket(k), PerClientBurst)
    <2>1. CASE k \in Cleaned
      <3>1. k \in Known BY <2>1 DEF Cleaned
      <3> QED BY <2>1, <3>1, Zenon DEF OldBucket, LimiterTypes
    <2>2. CASE k \notin Cleaned
      <3>1. OldBucket(k) = [tokens |-> PerClientBurst * Unit, last |-> now]
        BY <2>2, Zenon DEF OldBucket, NewBucket
      <3>2. PerClientBurst * Unit \in Nat BY ConstantFacts
      <3> QED BY <1>1, <3>1, <3>2 DEF IsBucket
    <2> QED BY <2>1, <2>2
  <1>3. /\ IsBucket(g, GlobalBurst) /\ g.last = now
        /\ g.tokens = Level(global, GlobalRate, GlobalBurst)
    BY <1>1, ConstantFacts, RefillFills, Zenon DEF FilledGlobal
  <1>4. /\ IsBucket(c, PerClientBurst) /\ c.last = now
        /\ c.tokens = Level(OldBucket(k), PerClientRate, PerClientBurst)
    BY <1>1, <1>2, ConstantFacts, RefillFills, Zenon DEF FilledClient
  <1>5. wg \in Nat /\ (wg = 0 <=> g.tokens >= Unit)
    BY <1>3, ConstantFacts, WaitIsExact, Zenon DEF IsBucket
  <1>6. wc \in Nat /\ (wc = 0 <=> c.tokens >= Unit)
    BY <1>4, ConstantFacts, WaitIsExact, Zenon DEF IsBucket
  <1>7. Wait(k) = Max(wg, wc) BY Zenon DEF Wait
  <1> HIDE DEF wg, wc
  <1>8. Wait(k) \in Nat /\ (Wait(k) = 0 => wg = 0 /\ wc = 0) BY <1>5, <1>6, <1>7 DEF Max
  <1>9. /\ IsBucket(After(k)[1], GlobalBurst) /\ After(k)[1].last = now
        /\ IsBucket(After(k)[2], PerClientBurst) /\ After(k)[2].last = now
        /\ Wait(k) # 0 => After(k)[1] = g /\ After(k)[2] = c
        /\ Wait(k) = 0 => After(k)[1].tokens = g.tokens - Unit /\ After(k)[2].tokens = c.tokens - Unit
    <2> HIDE DEF g, c
    <2>1. CASE Wait(k) # 0
      <3>1. After(k)[1] = g /\ After(k)[2] = c BY <2>1 DEF After, g, c
      <3> QED BY <1>3, <1>4, <2>1, <3>1, Zenon
    <2>2. CASE Wait(k) = 0
      <3>1. /\ After(k)[1] = [g EXCEPT !.tokens = @ - Unit]
            /\ After(k)[2] = [c EXCEPT !.tokens = @ - Unit]
        BY <2>2 DEF After, Take, g, c
      <3>2. g.tokens >= Unit /\ c.tokens >= Unit BY <1>5, <1>6, <1>8, <2>2, Zenon
      <3>3. /\ IsBucket([g EXCEPT !.tokens = @ - Unit], GlobalBurst)
            /\ [g EXCEPT !.tokens = @ - Unit].tokens = g.tokens - Unit
            /\ [g EXCEPT !.tokens = @ - Unit].last = g.last
        BY <1>3, <3>2, ConstantFacts, TokenTaken, Zenon
      <3>4. /\ IsBucket([c EXCEPT !.tokens = @ - Unit], PerClientBurst)
            /\ [c EXCEPT !.tokens = @ - Unit].tokens = c.tokens - Unit
            /\ [c EXCEPT !.tokens = @ - Unit].last = c.last
        BY <1>4, <3>2, ConstantFacts, TokenTaken, Zenon
      <3> QED BY <1>3, <1>4, <2>2, <3>1, <3>3, <3>4, Zenon
    <2> QED BY <2>1, <2>2
  <1> QED BY <1>3, <1>4, <1>8, <1>9, Zenon

(* A bucket is full when its level is the brim.                            *)
LEMMA FullIsLevel ==
  ASSUME LimiterTypes, NEW k \in Known
  PROVE  Full(k) <=> ClientLevel(k) = PerClientBurst * Unit
  <1>1. IsBucket(clients[k].bucket, PerClientBurst) /\ now \in Nat BY Zenon DEF LimiterTypes
  <1>2. refill(clients[k].bucket, PerClientRate, PerClientBurst, now).tokens
          = Level(clients[k].bucket, PerClientRate, PerClientBurst)
    BY <1>1, ConstantFacts, RefillFills, Zenon
  <1> QED BY <1>2, Zenon DEF Full, ClientLevel

(* When the TTL is that long a client whom cleanup drops has a full bucket. *)
LEMMA DroppedIsFull ==
  ASSUME LimiterTypes, DropsOnlyFull, NEW k \in Known \ Cleaned
  PROVE  ClientLevel(k) = PerClientBurst * Unit
  <1>2. k \in Known /\ k \notin Cleaned OBVIOUS
  <1>3. ClientLevel(k) = PerClientBurst * Unit
    <2> DEFINE b == clients[k].bucket
    <2>1. /\ b.tokens \in Nat /\ b.last \in Nat /\ clients[k].lastSeen = b.last /\ now \in Nat
      BY <1>2 DEF LimiterTypes, IsBucket
    <2>2. ~(clients[k].lastSeen >= now - InactiveTTL) BY <1>2 DEF Cleaned
    <2>3. now - b.last >= InactiveTTL + 1 BY <2>1, <2>2, ConstantFacts
    <2> HIDE DEF b
    <2>4. (now - b.last) * PerClientRate >= (InactiveTTL + 1) * PerClientRate
      BY <2>1, <2>3, ConstantFacts
    <2>5. PerClientBurst * Unit \in Nat /\ (now - b.last) * PerClientRate \in Int
          /\ (InactiveTTL + 1) * PerClientRate \in Nat
      BY <2>1, ConstantFacts
    <2>6. ~(b.tokens + (now - b.last) * PerClientRate < PerClientBurst * Unit)
      BY <2>1, <2>4, <2>5 DEF DropsOnlyFull
    <2>7. Level(b, PerClientRate, PerClientBurst) = PerClientBurst * Unit
      BY <2>1, <2>5, <2>6 DEF Level, Min
    <2> QED BY <1>2, <2>7 DEF ClientLevel, b
  <1> QED BY <1>3

-----------------------------------------------------------------------------
LEMMA TypesStart == Init => LimiterTypes
  <1> SUFFICES ASSUME Init PROVE LimiterTypes OBVIOUS
  <1>1. Known = {} BY DEF Init, Known
  <1>2. IsFiniteSet(Known) /\ Cardinality(Known) <= MaxClients /\ Known \subseteq Keys
    BY <1>1, FS_EmptySet, ConstantFacts
  <1>3. clients = [k \in Known |-> clients[k]] BY DEF Init, Known
  <1>4. IsBucket(global, GlobalBurst)
    <2>1. GlobalBurst * Unit \in Nat BY ConstantFacts
    <2> QED BY <2>1 DEF Init, IsBucket
  <1>5. /\ now \in Nat /\ now <= MaxTime /\ lastCleanup \in Nat /\ lastCleanup <= now
        /\ reply \in [key : Keys \cup {"none"}, allowed : BOOLEAN, retryAfter : Nat]
        /\ start \in 0..MaxTime /\ granted \in [Keys -> Nat] /\ forgot \in [Keys -> Nat]
    BY ConstantFacts DEF Init
  <1> QED BY <1>1, <1>2, <1>3, <1>4, <1>5 DEF LimiterTypes

(* A bucket that is not touched by a tick stays one.                       *)
LEMMA BucketStays ==
  ASSUME NEW b, NEW burst, IsBucket(b, burst), now \in Nat, now' \in Nat, now <= now'
  PROVE  b \in [tokens : Nat, last : Nat] /\ b.tokens <= burst * Unit /\ b.last <= now'
  BY DEF IsBucket

LEMMA TypesStep == LimiterTypes /\ [Next]_vars => LimiterTypes'
  <1> SUFFICES ASSUME LimiterTypes, [Next]_vars PROVE LimiterTypes' OBVIOUS
  <1>1. CASE Tick
    <2>1. /\ now \in Nat /\ now' \in Nat /\ now' <= MaxTime /\ now <= now' /\ global' = global
          /\ clients' = clients /\ lastCleanup' = lastCleanup /\ reply' = reply
          /\ start' = start /\ granted' = granted /\ forgot' = forgot
      BY <1>1, ConstantFacts DEF Tick, LimiterTypes
    <2>2. Known' = Known BY <2>1 DEF Known
    <2>3. IsBucket(global, GlobalBurst)' BY <2>1, BucketStays DEF LimiterTypes, IsBucket
    <2>4. ASSUME NEW k \in Known PROVE IsBucket(clients[k].bucket, PerClientBurst)'
      <3>1. IsBucket(clients[k].bucket, PerClientBurst) BY Zenon DEF LimiterTypes
      <3> QED BY <2>1, <3>1 DEF IsBucket
    <2>5. lastCleanup' \in Nat /\ lastCleanup' <= now' BY <2>1 DEF LimiterTypes
    <2> QED BY <2>1, <2>2, <2>3, <2>4, <2>5, Zenon DEF LimiterTypes
  <1>2. ASSUME NEW k \in Keys, Allow(k) PROVE LimiterTypes'
    <2>1. PICK kept \in Kept(k) : AllowLeaves(k, kept) BY <1>2, AllowIsOneCall, Zenon
    <2>2. /\ global' = After(k)[1] /\ now' = now /\ start' = start
          /\ clients' = [x \in kept |->
               IF x = k THEN [bucket |-> After(k)[2], lastSeen |-> now] ELSE clients[x]]
          /\ lastCleanup' \in {lastCleanup, now}
          /\ reply' = [key |-> k, allowed |-> Wait(k) = 0, retryAfter |-> Wait(k)]
      BY <2>1, Zenon DEF AllowLeaves
    <2>3. /\ k \in kept /\ kept \subseteq Cleaned \cup {k} /\ Cleaned \subseteq Known
          /\ kept \subseteq Keys /\ IsFiniteSet(kept) /\ Cardinality(kept) <= MaxClients
      BY KeptFacts, Zenon
    <2>4. /\ IsBucket(After(k)[1], GlobalBurst) /\ IsBucket(After(k)[2], PerClientBurst)
          /\ After(k)[2].last = now /\ Wait(k) \in Nat
      BY AllowBuckets, Zenon
    <2>5. Known' = kept BY <2>2 DEF Known
    <2>6. clients' = [x \in Known' |-> clients'[x]] BY <2>2, <2>5
    <2>7. ASSUME NEW x \in kept
          PROVE  /\ clients'[x] \in [bucket : [tokens : Nat, last : Nat], lastSeen : Nat]
                 /\ IsBucket(clients'[x].bucket, PerClientBurst)
                 /\ clients'[x].lastSeen = clients'[x].bucket.last
      <3>1. CASE x = k
        <4>1. clients'[x] = [bucket |-> After(k)[2], lastSeen |-> now] BY <2>2, <3>1
        <4>2. After(k)[2] \in [tokens : Nat, last : Nat] /\ now \in Nat
          BY <2>4, Zenon DEF IsBucket, LimiterTypes
        <4> QED BY <2>4, <4>1, <4>2
      <3>2. CASE x # k
        <4>1. clients'[x] = clients[x] /\ x \in Known BY <2>2, <2>3, <3>2
        <4> QED BY <4>1, Zenon DEF LimiterTypes
      <3> QED BY <3>1, <3>2
    <2>9. IsBucket(global, GlobalBurst)' BY <2>2, <2>4, Zenon DEF IsBucket
    <2>10. \A x \in kept : IsBucket(clients[x].bucket, PerClientBurst)'
      BY <2>2, <2>7, Zenon DEF IsBucket
    <2>11. reply' \in [key : Keys \cup {"none"}, allowed : BOOLEAN, retryAfter : Nat]
      BY <2>2, <2>4
    <2>12. granted' \in [Keys -> Nat]
      BY <2>1 DEF AllowLeaves, LimiterTypes
    <2>13. forgot' \in [Keys -> Nat] BY <2>1 DEF AllowLeaves, LimiterTypes
    <2>14. lastCleanup' \in Nat /\ lastCleanup' <= now BY <2>2 DEF LimiterTypes
    <2> QED BY <2>2, <2>3, <2>5, <2>6, <2>7, <2>9, <2>10, <2>11, <2>12, <2>13, <2>14, Zenon
            DEF LimiterTypes
  <1>3. CASE UNCHANGED vars
    <2>1. /\ now' = now /\ global' = global /\ clients' = clients /\ lastCleanup' = lastCleanup
          /\ reply' = reply /\ start' = start /\ granted' = granted /\ forgot' = forgot
      BY <1>3 DEF vars
    <2>2. Known' = Known BY <2>1, Zenon DEF Known
    <2>3. IsBucket(global, GlobalBurst)' = IsBucket(global, GlobalBurst)
      BY <2>1, Zenon DEF IsBucket
    <2>4. \A k \in Known : IsBucket(clients[k].bucket, PerClientBurst) =>
                            IsBucket(clients[k].bucket, PerClientBurst)'
      BY <2>1, Zenon DEF IsBucket
    <2> QED BY <2>1, <2>2, <2>3, <2>4, Zenon DEF LimiterTypes
  <1> QED BY <1>1, <1>2, <1>3, Zenon DEF Next

-----------------------------------------------------------------------------
(* A tick adds the rate to the window, and no more than that to the level. *)
LEMMA TickFills ==
  ASSUME LimiterTypes, Tick, NEW b, NEW rate \in Nat \ {0}, NEW burst \in Nat \ {0},
         IsBucket(b, burst)
  PROVE  /\ Level(b, rate, burst) \in Nat
         /\ LET new == Min(burst * Unit, b.tokens + (now' - b.last) * rate)
            IN  new \in Nat /\ new <= Level(b, rate, burst) + rate /\ new <= burst * Unit
         /\ LET old == burst * Unit + rate * (now - start)
                new == burst * Unit + rate * (now' - start)
            IN  old \in Int /\ new = old + rate
  <1>1. /\ b.tokens \in Nat /\ b.last \in Nat /\ b.last <= now /\ now \in Nat
        /\ now' = now + 1 /\ start \in Nat
    BY DEF IsBucket, LimiterTypes, Tick
  <1>2. burst * Unit \in Nat /\ (now - b.last) * rate \in Nat BY <1>1, ConstantFacts
  <1>3. (now' - b.last) * rate = (now - b.last) * rate + rate
    <2> DEFINE d == now - b.last
    <2>1. d \in Nat /\ now' - b.last = d + 1 BY <1>1
    <2> HIDE DEF d
    <2>2. (d + 1) * rate = d * rate + rate BY <2>1
    <2> QED BY <2>1, <2>2 DEF d
  <1>4. rate * (now' - start) = rate * (now - start) + rate /\ rate * (now - start) \in Int
    BY <1>1
  <1> HIDE DEF Level
  <1>5. LET new == Min(burst * Unit, b.tokens + (now' - b.last) * rate)
        IN  new \in Nat /\ new <= Level(b, rate, burst) + rate /\ new <= burst * Unit
    BY <1>1, <1>2, <1>3 DEF Level, Min
  <1>6. Level(b, rate, burst) \in Nat BY <1>1, <1>2 DEF Level, Min
  <1> QED BY <1>2, <1>4, <1>5, <1>6

(* When the observer starts to count, nothing has passed.                  *)
LEMMA WindowStarts ==
  ASSUME LimiterTypes, Tick, now < start, now' >= start,
         NEW rate \in Nat \ {0}, NEW burst \in Nat \ {0}
  PROVE  burst * Unit + rate * (now' - start) = burst * Unit /\ burst * Unit \in Nat
  <1>1. now \in Nat /\ start \in Nat /\ now' = now + 1 BY DEF LimiterTypes, Tick
  <1>2. now' - start = 0 BY <1>1
  <1>3. rate * (now' - start) = 0 /\ burst * Unit \in Nat BY <1>2, ConstantFacts
  <1> QED BY <1>3

LEMMA TotalIsPassed == Total = Cardinality(Passed) BY Zenon DEF Total, Passed

(* A request that passes is one more.                                      *)
LEMMA OneMorePasses ==
  ASSUME LimiterTypes, NEW k \in Keys, IsFiniteSet(Passed),
         granted' = [granted EXCEPT ![k] = @ + 1]
  PROVE  /\ IsFiniteSet(Passed') /\ Cardinality(Passed') = Cardinality(Passed) + 1
  <1>1. granted \in [Keys -> Nat] BY DEF LimiterTypes
  <1>2. /\ granted'[k] = granted[k] + 1 /\ granted[k] \in Nat
        /\ \A x \in Keys : x # k => granted'[x] = granted[x]
    BY <1>1
  <1> DEFINE new == <<k, granted[k] + 1>>
  <1>3. new \notin Passed
    <2>1. ASSUME NEW x \in Keys, new \in {x} \X (1..granted[x]) PROVE FALSE
      <3>1. x = k /\ granted[k] + 1 \in 1..granted[k] BY <2>1
      <3> QED BY <1>2, <3>1
    <2> QED BY <2>1, Zenon DEF Passed
  <1>4. {k} \X (1..granted'[k]) = ({k} \X (1..granted[k])) \cup {new}
    <2>1. 1..granted'[k] = (1..granted[k]) \cup {granted[k] + 1} BY <1>2
    <2> QED BY <2>1
  <1>5. Passed' = Passed \cup {new}
    <2>1. ASSUME NEW e \in Passed' PROVE e \in Passed \cup {new}
      <3>1. PICK x \in Keys : e \in {x} \X (1..granted'[x]) BY Zenon DEF Passed
      <3>2. CASE x = k
        <4>1. e \in {k} \X (1..granted[k]) \/ e = new BY <1>4, <3>1, <3>2
        <4> QED BY <4>1, Zenon DEF Passed
      <3>3. CASE x # k
        <4>1. e \in {x} \X (1..granted[x]) BY <1>2, <3>1, <3>3, Zenon
        <4> QED BY <4>1, Zenon DEF Passed
      <3> QED BY <3>2, <3>3
    <2>2. ASSUME NEW e \in Passed PROVE e \in Passed'
      <3>1. PICK x \in Keys : e \in {x} \X (1..granted[x]) BY Zenon DEF Passed
      <3>2. e \in {x} \X (1..granted'[x])
        <4>1. CASE x = k BY <1>4, <3>1, <4>1
        <4>2. CASE x # k BY <1>2, <3>1, <4>2, Zenon
        <4> QED BY <4>1, <4>2
      <3> QED BY <3>2, Zenon DEF Passed
    <2>3. new \in Passed'
      <3>1. new \in {k} \X (1..granted'[k]) BY <1>4
      <3> QED BY <3>1, Zenon DEF Passed
    <2> HIDE DEF new
    <2> QED BY <2>1, <2>2, <2>3
  <1> HIDE DEF new
  <1> QED BY <1>3, <1>5, FS_AddElement

LEMMA GlobalStep == LimiterTypes /\ GlobalPotential /\ [Next]_vars => GlobalPotential'
  <1> SUFFICES ASSUME LimiterTypes, GlobalPotential, [Next]_vars PROVE GlobalPotential' OBVIOUS
  <1> DEFINE level == Level(global, GlobalRate, GlobalBurst)
             window == Window(GlobalBurst, GlobalRate)
  <1>1. /\ now \in Nat /\ start \in Nat /\ IsBucket(global, GlobalBurst) BY DEF LimiterTypes
  <1>2. IsFiniteSet(Passed) /\ Cardinality(Passed) \in Nat
    BY FS_CardinalityType DEF GlobalPotential
  <1>3. level \in Nat /\ level <= GlobalBurst * Unit
    BY <1>1, ConstantFacts, RefillFills, Zenon
  <1>4. window \in Int BY <1>1, ConstantFacts DEF Window
  <1>5. CASE Tick
    <2>1. /\ now' = now + 1 /\ global' = global /\ granted' = granted /\ start' = start
      BY <1>5 DEF Tick
    <2>2. Passed' = Passed BY <2>1, Zenon DEF Passed
    <2>3. Total' = Total /\ Total = Cardinality(Passed)
      BY <2>1, Zenon DEF Total, Passed
    <2>4. CASE now >= start
      <3>1. level' <= level + GlobalRate /\ level' \in Nat
        BY <1>1, <1>5, <2>1, ConstantFacts, TickFills DEF Level
      <3>2. window' = window + GlobalRate
        BY <1>1, <1>5, <2>1, ConstantFacts, TickFills DEF Window
      <3>3. Total * Unit + level <= window BY <2>4, Zenon DEF GlobalPotential
      <3>4. Total * Unit \in Nat BY <1>2, <2>3, ConstantFacts
      <3>5. Total' * Unit + level' <= window'
        BY <1>3, <1>4, <2>3, <3>1, <3>2, <3>3, <3>4, ConstantFacts
      <3>6. ~(now' < start') BY <1>1, <2>1, <2>4
      <3> QED BY <1>2, <2>2, <3>5, <3>6, Zenon DEF GlobalPotential
    <2>5. CASE ~(now >= start)
      <3>1. Passed = {} BY <1>1, <2>5 DEF GlobalPotential
      <3>2. Total' * Unit = 0 BY <2>3, <3>1, FS_EmptySet, ConstantFacts
      <3>3. ASSUME now' >= start PROVE Total' * Unit + level' <= window'
        <4>1. level' <= GlobalBurst * Unit /\ level' \in Nat
          BY <1>1, <1>5, <2>1, ConstantFacts, TickFills DEF Level
        <4>2. now < start BY <1>1, <2>5
        <4>3. window' = GlobalBurst * Unit
          BY <1>5, <2>1, <3>3, <4>2, ConstantFacts, WindowStarts DEF Window
        <4> QED BY <3>2, <4>1, <4>3
      <3> QED BY <1>2, <2>1, <2>2, <3>1, <3>3, Zenon DEF GlobalPotential
    <2> QED BY <2>4, <2>5
  <1>6. ASSUME NEW k \in Keys, Allow(k) PROVE GlobalPotential'
    <2>1. PICK kept \in Kept(k) : AllowLeaves(k, kept) BY <1>6, AllowIsOneCall, Zenon
    <2>2. /\ global' = After(k)[1] /\ now' = now /\ start' = start
          /\ granted' = IF Wait(k) = 0 /\ now >= start THEN [granted EXCEPT ![k] = @ + 1] ELSE granted
      BY <2>1, Zenon DEF AllowLeaves
    <2>3. window' = window BY <2>2, Zenon DEF Window
    <2>4. level' = After(k)[1].tokens
      <3>1. IsBucket(After(k)[1], GlobalBurst) /\ After(k)[1].last = now
        BY AllowBuckets, Zenon
      <3>2. level' = Level(After(k)[1], GlobalRate, GlobalBurst) BY <2>2, Zenon DEF Level
      <3> QED BY <1>1, <3>1, <3>2, ConstantFacts, FilledIsLevel, Zenon
    <2>5. /\ FilledGlobal.tokens = level
          /\ Wait(k) # 0 => After(k)[1] = FilledGlobal
          /\ Wait(k) = 0 => After(k)[1].tokens = FilledGlobal.tokens - Unit
      BY AllowBuckets, Zenon
    <2> HIDE DEF level, window
    <2>6. CASE Wait(k) = 0 /\ now >= start
      <3>1. granted' = [granted EXCEPT ![k] = @ + 1] BY <2>2, <2>6
      <3>2. IsFiniteSet(Passed') /\ Cardinality(Passed') = Cardinality(Passed) + 1
        BY <1>2, <3>1, OneMorePasses, Zenon
      <3>3. Total' = Cardinality(Passed') /\ Total = Cardinality(Passed)
        BY Zenon DEF Total, Passed
      <3>4. Total * Unit + level <= window BY <2>6, Zenon DEF GlobalPotential, level, window
      <3>5. Total' * Unit = Total * Unit + Unit /\ Total * Unit \in Nat
        BY <1>2, <3>2, <3>3, ConstantFacts
      <3>6. level' = level - Unit BY <2>4, <2>5, <2>6, Zenon
      <3>7. Total' * Unit + level' <= window'
        BY <1>3, <1>4, <2>3, <3>4, <3>5, <3>6, ConstantFacts
      <3>8. ~(now' < start') BY <1>1, <2>2, <2>6
      <3> QED BY <3>2, <3>7, <3>8, Zenon DEF GlobalPotential, level, window
    <2>7. CASE ~(Wait(k) = 0 /\ now >= start)
      <3>1. granted' = granted BY <2>2, <2>7
      <3>2. Passed' = Passed /\ Total' = Total BY <3>1, Zenon DEF Passed, Total
      <3>3. ASSUME now >= start PROVE Total' * Unit + level' <= window'
        <4>1. Total * Unit + level <= window BY <3>3, Zenon DEF GlobalPotential, level, window
        <4>2. level' = level BY <2>4, <2>5, <2>7, <3>3, Zenon
        <4> QED BY <2>3, <3>2, <4>1, <4>2
      <3>4. now < start => Passed = {} BY DEF GlobalPotential
      <3> QED BY <1>2, <2>2, <3>2, <3>3, <3>4, Zenon DEF GlobalPotential, level, window
    <2> QED BY <2>6, <2>7
  <1>7. CASE UNCHANGED vars
    <2>1. now' = now /\ start' = start /\ global' = global /\ granted' = granted
      BY <1>7 DEF vars
    <2> QED BY <2>1, Zenon DEF GlobalPotential, Passed, Total, Level, Window
  <1> QED BY <1>5, <1>6, <1>7, Zenon DEF Next

-----------------------------------------------------------------------------
LEMMA ClientLevelFits ==
  ASSUME LimiterTypes, NEW k \in Keys
  PROVE  ClientLevel(k) \in Nat /\ ClientLevel(k) <= PerClientBurst * Unit
  <1>1. now \in Nat /\ PerClientBurst * Unit \in Nat BY ConstantFacts DEF LimiterTypes
  <1>2. CASE k \in Known
    <2>1. IsBucket(clients[k].bucket, PerClientBurst) BY <1>2, Zenon DEF LimiterTypes
    <2>2. LET l == Level(clients[k].bucket, PerClientRate, PerClientBurst)
          IN  l \in Nat /\ l <= PerClientBurst * Unit
      BY <1>1, <2>1, ConstantFacts, RefillFills, Zenon
    <2> QED BY <1>2, <2>2, Zenon DEF ClientLevel
  <1>3. CASE k \notin Known BY <1>1, <1>3 DEF ClientLevel
  <1> QED BY <1>2, <1>3

LEMMA GraceFits ==
  ASSUME LimiterTypes, NEW k \in Keys
  PROVE  Grace(k) \in Nat
  <1>1. forgot[k] \in Nat /\ PerClientBurst * Unit \in Nat BY ConstantFacts DEF LimiterTypes
  <1> QED BY <1>1 DEF Grace

LEMMA ClientTick ==
  ASSUME LimiterTypes, Tick, NEW k \in Keys, ClientBound(k)
  PROVE  ClientBound(k)'
  <1> DEFINE window == Window(PerClientBurst, PerClientRate)
  <1>1. /\ now \in Nat /\ start \in Nat /\ granted[k] \in Nat BY DEF LimiterTypes
  <1>2. /\ now' = now + 1 /\ clients' = clients /\ granted' = granted /\ start' = start
        /\ forgot' = forgot
    BY DEF Tick
  <1>3. Known' = Known BY <1>2, Zenon DEF Known
  <1>4. /\ ClientLevel(k) \in Nat /\ ClientLevel(k)' \in Nat
        /\ ClientLevel(k)' <= ClientLevel(k) + PerClientRate
        /\ ClientLevel(k)' <= PerClientBurst * Unit
    <2>1. CASE k \in Known
      <3>1. IsBucket(clients[k].bucket, PerClientBurst) BY <2>1, Zenon DEF LimiterTypes
      <3> DEFINE b == clients[k].bucket
      <3>2. /\ ClientLevel(k) = Level(b, PerClientRate, PerClientBurst)
            /\ ClientLevel(k)' =
                 Min(PerClientBurst * Unit, b.tokens + (now' - b.last) * PerClientRate)
        BY <1>2, <1>3, <2>1, Zenon DEF ClientLevel, Level
      <3> HIDE DEF b
      <3>3. IsBucket(b, PerClientBurst) BY <3>1 DEF b
      <3> QED BY <3>2, <3>3, ConstantFacts, TickFills
    <2>2. CASE k \notin Known
      <3>1. ClientLevel(k) = PerClientBurst * Unit /\ ClientLevel(k)' = PerClientBurst * Unit
        BY <1>3, <2>2, Zenon DEF ClientLevel
      <3>2. PerClientBurst * Unit \in Nat BY ConstantFacts
      <3> QED BY <3>1, <3>2, ConstantFacts
    <2> QED BY <2>1, <2>2
  <1>7. Grace(k) \in Nat /\ Grace(k)' \in Nat BY <1>2, GraceFits, Zenon DEF Grace
  <1>5. CASE now >= start
    <2>1. window \in Int /\ window' = window + PerClientRate
      <3> DEFINE d == now - start
      <3>1. d \in Nat /\ now' - start = d + 1 BY <1>1, <1>2, <1>5
      <3> HIDE DEF d
      <3>2. PerClientRate * (d + 1) = PerClientRate * d + PerClientRate
            /\ PerClientRate * d \in Nat /\ PerClientBurst * Unit \in Nat
        BY <3>1, ConstantFacts
      <3>3. /\ window = PerClientBurst * Unit + PerClientRate * d
            /\ window' = PerClientBurst * Unit + PerClientRate * (d + 1)
        BY <1>2, <3>1 DEF Window, d
      <3> QED BY <3>2, <3>3, ConstantFacts
    <2> HIDE DEF window
    <2>2. granted[k] * Unit \in Nat BY <1>1, ConstantFacts
    <2>3. granted[k] * Unit + ClientLevel(k)' <= window' + Grace(k)'
      <3>1. granted[k] * Unit + ClientLevel(k) <= window + Grace(k)
        BY <1>5, Zenon DEF ClientBound, window
      <3>2. Grace(k)' = Grace(k) BY <1>2, Zenon DEF Grace
      <3> QED BY <1>4, <1>7, <2>1, <2>2, <3>1, <3>2, ConstantFacts
    <2>4. ~(now' < start) BY <1>1, <1>2, <1>5
    <2> QED BY <1>2, <2>3, <2>4, Zenon DEF ClientBound, window
  <1>6. CASE ~(now >= start)
    <2>1. granted[k] = 0 BY <1>1, <1>6 DEF ClientBound
    <2>2. ASSUME now' >= start PROVE granted[k] * Unit + ClientLevel(k)' <= window' + Grace(k)'
      <3>1. now < start BY <1>1, <1>6
      <3>2. window' = PerClientBurst * Unit
        BY <1>2, <2>2, <3>1, ConstantFacts, WindowStarts DEF Window
      <3>3. granted[k] * Unit = 0 BY <2>1, ConstantFacts
      <3>4. PerClientBurst * Unit \in Nat BY ConstantFacts
      <3> QED BY <1>4, <1>7, <3>2, <3>3, <3>4
    <2> QED BY <1>2, <2>1, <2>2, Zenon DEF ClientBound
  <1> QED BY <1>5, <1>6

(* A call drops a bucket that is full, or the client gains a burst: then   *)
(* base is what the client has left before the call takes its token.       *)
LEMMA ForgottenGains ==
  ASSUME LimiterTypes, NEW a \in Keys, NEW kept \in Kept(a), AllowLeaves(a, kept),
         NEW k \in Keys, now >= start, NEW base,
         base = IF k \in Dropped(kept) THEN PerClientBurst * Unit ELSE ClientLevel(k)
  PROVE  /\ base \in Nat /\ Grace(k) \in Nat /\ Grace(k)' \in Nat
         /\ base + Grace(k) <= ClientLevel(k) + Grace(k)'
  <1> DEFINE B == PerClientBurst * Unit
  <1>1. B \in Nat /\ forgot \in [Keys -> Nat] BY ConstantFacts DEF LimiterTypes
  <1>2. ClientLevel(k) \in Nat /\ ClientLevel(k) <= B BY ClientLevelFits, Zenon
  <1>3. forgot'[k] = IF k \in Dropped(kept) /\ ~Full(k) THEN forgot[k] + 1 ELSE forgot[k]
    BY Zenon DEF AllowLeaves
  <1>4. Grace(k) = forgot[k] * B /\ Grace(k)' = forgot'[k] * B BY Zenon DEF Grace
  <1> HIDE DEF B
  <1>5. Grace(k) \in Nat BY <1>1, <1>4
  <1>6. CASE k \in Dropped(kept) /\ ~Full(k)
    <2>1. Grace(k)' = Grace(k) + B BY <1>1, <1>3, <1>4, <1>6
    <2>2. base = B BY <1>6, Zenon DEF B
    <2> QED BY <1>1, <1>2, <1>5, <2>1, <2>2
  <1>7. CASE k \in Dropped(kept) /\ Full(k)
    <2>1. Grace(k)' = Grace(k) BY <1>3, <1>4, <1>7
    <2>2. k \in Known BY <1>7, Zenon DEF Dropped
    <2>3. ClientLevel(k) = B BY <1>7, <2>2, FullIsLevel, Zenon DEF B
    <2>4. base = B BY <1>7, Zenon DEF B
    <2> QED BY <1>1, <1>5, <2>1, <2>3, <2>4
  <1>8. CASE k \notin Dropped(kept)
    <2>1. Grace(k)' = Grace(k) /\ base = ClientLevel(k) BY <1>3, <1>4, <1>8
    <2> QED BY <1>2, <1>5, <2>1
  <1> QED BY <1>6, <1>7, <1>8, Zenon

LEMMA ClientAllow ==
  ASSUME LimiterTypes, NEW a \in Keys, Allow(a),
         NEW k \in Keys, ClientBound(k)
  PROVE  ClientBound(k)'
  <1>1. PICK kept \in Kept(a) : AllowLeaves(a, kept) BY AllowIsOneCall, Zenon
  <1> DEFINE window == Window(PerClientBurst, PerClientRate)
             base == IF k \in Dropped(kept) THEN PerClientBurst * Unit ELSE ClientLevel(k)
  <1>2. /\ now' = now /\ start' = start
        /\ clients' = [x \in kept |->
             IF x = a THEN [bucket |-> After(a)[2], lastSeen |-> now] ELSE clients[x]]
        /\ granted' = IF Wait(a) = 0 /\ now >= start THEN [granted EXCEPT ![a] = @ + 1] ELSE granted
    BY <1>1, Zenon DEF AllowLeaves
  <1>3. a \in kept /\ kept \subseteq Cleaned \cup {a} /\ Cleaned \subseteq Known
    BY <1>1, KeptFacts, Zenon
  <1>4. /\ now \in Nat /\ start \in Nat /\ granted \in [Keys -> Nat] BY DEF LimiterTypes
  <1>5. Known' = kept BY <1>2 DEF Known
  <1>6. window' = window BY <1>2, Zenon DEF Window
  <1>7. window \in Int BY <1>4, ConstantFacts DEF Window
  <1>8. ClientLevel(k) \in Nat /\ ClientLevel(k) <= PerClientBurst * Unit
    BY ClientLevelFits, Zenon
  <1>9. now >= start => /\ base \in Nat /\ Grace(k) \in Nat /\ Grace(k)' \in Nat
                        /\ base + Grace(k) <= ClientLevel(k) + Grace(k)'
    BY <1>1, ForgottenGains, Zenon
  <1> HIDE DEF window, base
  <1>10. ASSUME now >= start
         PROVE  granted[k] * Unit + base <= window' + Grace(k)' /\ granted[k] * Unit \in Nat
    <2>1. granted[k] * Unit + ClientLevel(k) <= window + Grace(k)
      BY <1>10, Zenon DEF ClientBound, window
    <2>2. granted[k] * Unit \in Nat BY <1>4, ConstantFacts
    <2> QED BY <1>6, <1>7, <1>8, <1>9, <1>10, <2>1, <2>2
  <1>11. CASE k = a
    <2>1. ClientLevel(k)' = After(k)[2].tokens
      <3>1. clients'[k].bucket = After(k)[2] BY <1>2, <1>3, <1>11
      <3>2. IsBucket(After(k)[2], PerClientBurst) /\ After(k)[2].last = now
        BY AllowBuckets, Zenon
      <3>3. ClientLevel(k)' = Level(After(k)[2], PerClientRate, PerClientBurst)
        BY <1>2, <1>3, <1>5, <1>11, <3>1, Zenon DEF ClientLevel, Level
      <3> QED BY <1>4, <3>2, <3>3, ConstantFacts, FilledIsLevel, Zenon
    <2>2. FilledClient(k).tokens = base
      <3>1. FilledClient(k).tokens = Level(OldBucket(k), PerClientRate, PerClientBurst)
        BY AllowBuckets, Zenon
      <3>2. CASE k \in Cleaned
        <4>1. k \in Known /\ k \notin Dropped(kept) BY <1>3, <1>11, <3>2, Zenon DEF Dropped
        <4> QED BY <3>1, <3>2, <4>1, Zenon DEF OldBucket, ClientLevel, base
      <3>3. CASE k \notin Cleaned
        <4>1. OldBucket(k) = [tokens |-> PerClientBurst * Unit, last |-> now]
          BY <3>3, Zenon DEF OldBucket, NewBucket
        <4>2. PerClientBurst * Unit \in Nat BY ConstantFacts
        <4>3. Level(OldBucket(k), PerClientRate, PerClientBurst) = PerClientBurst * Unit
          <5>1. (now - now) * PerClientRate = 0 BY <1>4, ConstantFacts
          <5> QED BY <1>4, <4>1, <4>2, <5>1 DEF Level, Min
        <4>4. base = PerClientBurst * Unit
          BY <3>3, Zenon DEF base, Dropped, ClientLevel
        <4> QED BY <3>1, <4>3, <4>4, Zenon
      <3> QED BY <3>2, <3>3
    <2>3. /\ Wait(k) # 0 => After(k)[2] = FilledClient(k)
          /\ Wait(k) = 0 => After(k)[2].tokens = FilledClient(k).tokens - Unit
      BY AllowBuckets, Zenon
    <2>4. CASE Wait(k) = 0 /\ now >= start
      <3>1. granted'[k] = granted[k] + 1 BY <1>2, <1>4, <1>11, <2>4
      <3>2. ClientLevel(k)' = base - Unit BY <2>1, <2>2, <2>3, <2>4, Zenon
      <3>3. granted'[k] * Unit = granted[k] * Unit + Unit BY <1>4, <3>1, ConstantFacts
      <3>4. granted'[k] * Unit + ClientLevel(k)' <= window' + Grace(k)'
        BY <1>6, <1>7, <1>9, <1>10, <2>4, <3>2, <3>3, ConstantFacts
      <3>5. ~(now' < start') BY <1>2, <1>4, <2>4
      <3> QED BY <3>4, <3>5, Zenon DEF ClientBound, window
    <2>5. CASE ~(Wait(k) = 0 /\ now >= start)
      <3>1. granted' = granted BY <1>2, <1>11, <2>5
      <3>2. ASSUME now >= start
            PROVE  granted'[k] * Unit + ClientLevel(k)' <= window' + Grace(k)'
        <4>1. ClientLevel(k)' = base BY <2>1, <2>2, <2>3, <2>5, <3>2, Zenon
        <4> QED BY <1>10, <3>1, <3>2, <4>1, Zenon
      <3> QED BY <1>2, <3>1, <3>2, Zenon DEF ClientBound, window
    <2> QED BY <2>4, <2>5
  <1>12. CASE k # a
    <2>1. granted'[k] = granted[k] BY <1>2, <1>4, <1>12
    <2>2. ClientLevel(k)' = base
      <3>1. CASE k \in kept
        <4>1. clients'[k] = clients[k] /\ k \in Known /\ k \in Cleaned
          BY <1>2, <1>3, <1>12, <3>1
        <4>2. now' = now /\ k \in Known' BY <1>2, <1>5, <3>1
        <4>3. /\ ClientLevel(k) = Level(clients[k].bucket, PerClientRate, PerClientBurst)
              /\ ClientLevel(k)' = Level(clients[k].bucket, PerClientRate, PerClientBurst)'
          BY <4>1, <4>2, Zenon DEF ClientLevel
        <4>4. ClientLevel(k)' = ClientLevel(k) BY <4>1, <4>2, <4>3 DEF Level
        <4>5. base = ClientLevel(k) BY <3>1, <4>1, Zenon DEF base, Dropped
        <4> QED BY <4>4, <4>5, Zenon
      <3>2. CASE k \notin kept
        <4>1. ClientLevel(k)' = PerClientBurst * Unit BY <1>5, <3>2, Zenon DEF ClientLevel
        <4>2. base = PerClientBurst * Unit BY <3>2, Zenon DEF base, Dropped, ClientLevel
        <4> QED BY <4>1, <4>2, Zenon
      <3> QED BY <3>1, <3>2
    <2>3. ASSUME now >= start
          PROVE  granted'[k] * Unit + ClientLevel(k)' <= window' + Grace(k)'
      BY <1>10, <2>1, <2>2, <2>3, Zenon
    <2> QED BY <1>2, <2>1, <2>3, Zenon DEF ClientBound, window
  <1> QED BY <1>11, <1>12

LEMMA ClientStep == LimiterTypes /\ ClientPotential /\ [Next]_vars => ClientPotential'
  <1> SUFFICES ASSUME LimiterTypes, ClientPotential, [Next]_vars, NEW k \in Keys
               PROVE  ClientBound(k)'
    BY Zenon DEF ClientPotential
  <1>1. ClientBound(k) BY Zenon DEF ClientPotential
  <1>2. CASE Tick BY <1>1, <1>2, ClientTick, Zenon
  <1>3. ASSUME NEW a \in Keys, Allow(a) PROVE ClientBound(k)'
    BY <1>1, <1>3, ClientAllow, Zenon
  <1>4. CASE UNCHANGED vars
    <2>1. /\ now' = now /\ start' = start /\ clients' = clients /\ granted' = granted
          /\ forgot' = forgot
      BY <1>4 DEF vars
    <2> QED BY <1>1, <2>1, Zenon DEF ClientBound, ClientLevel, Known, Level, Window, Grace
  <1> QED BY <1>2, <1>3, <1>4, Zenon DEF Next

-----------------------------------------------------------------------------
(* What a refused client is told: the longer of the waits of its two       *)
(* buckets, before which one of them does not serve it.                    *)
LEMMA RetryStep == LimiterTypes /\ RetryAfterIsExact /\ [Next]_vars => RetryAfterIsExact'
  <1> SUFFICES ASSUME LimiterTypes, RetryAfterIsExact, [Next]_vars PROVE RetryAfterIsExact'
    OBVIOUS
  <1>1. ASSUME NEW k \in Keys, Allow(k) PROVE RetryAfterIsExact'
    <2> DEFINE g == FilledGlobal
               c == FilledClient(k)
               wg == waitDuration(g.tokens, GlobalRate)
               wc == waitDuration(c.tokens, PerClientRate)
    <2>1. PICK kept \in Kept(k) : AllowLeaves(k, kept) BY <1>1, AllowIsOneCall, Zenon
    <2>2. /\ global' = After(k)[1]
          /\ clients' = [x \in kept |->
               IF x = k THEN [bucket |-> After(k)[2], lastSeen |-> now] ELSE clients[x]]
          /\ reply' = [key |-> k, allowed |-> Wait(k) = 0, retryAfter |-> Wait(k)]
      BY <2>1, Zenon DEF AllowLeaves
    <2>3. reply'.key = k /\ reply'.allowed = (Wait(k) = 0) /\ reply'.retryAfter = Wait(k)
      BY <2>2
    <2>4. clients'[k].bucket = After(k)[2] BY <2>2, KeptFacts
    <2>5. CASE Wait(k) = 0
      <3>1. reply'.allowed BY <2>3, <2>5, Zenon
      <3> QED BY <3>1, Zenon DEF RetryAfterIsExact
    <2>6. CASE Wait(k) # 0
      <3>1. global' = g /\ clients'[k].bucket = c BY <2>2, <2>4, <2>6, AllowBuckets, Zenon
      <3>2. g \in [tokens : Nat, last : Nat] /\ c \in [tokens : Nat, last : Nat]
        BY AllowBuckets, Zenon DEF IsBucket
      <3> HIDE DEF g, c
      <3>3. /\ wg \in Nat
            /\ \A v \in Nat : v >= wg => Serves(g, GlobalRate, GlobalBurst, v)
            /\ wg > 0 => ~Serves(g, GlobalRate, GlobalBurst, wg - 1)
        BY <3>2, ConstantFacts, WaitIsExact, Zenon
      <3>4. /\ wc \in Nat
            /\ \A v \in Nat : v >= wc => Serves(c, PerClientRate, PerClientBurst, v)
            /\ wc > 0 => ~Serves(c, PerClientRate, PerClientBurst, wc - 1)
        BY <3>2, ConstantFacts, WaitIsExact, Zenon
      <3>5. Wait(k) = Max(wg, wc) BY Zenon DEF Wait, g, c
      <3> HIDE DEF wg, wc
      <3>6. Wait(k) \in Nat /\ Wait(k) >= wg /\ Wait(k) >= wc /\ Wait(k) > 0
            /\ (Wait(k) = wg \/ Wait(k) = wc)
        BY <2>6, <3>3, <3>4, <3>5 DEF Max
      <3>7. /\ Serves(g, GlobalRate, GlobalBurst, Wait(k))
            /\ Serves(c, PerClientRate, PerClientBurst, Wait(k))
        BY <3>3, <3>4, <3>6, Zenon
      <3>8. \/ ~Serves(g, GlobalRate, GlobalBurst, Wait(k) - 1)
            \/ ~Serves(c, PerClientRate, PerClientBurst, Wait(k) - 1)
        BY <3>3, <3>4, <3>6, Zenon
      <3>9. /\ Serves(global', GlobalRate, GlobalBurst, reply'.retryAfter)
            /\ Serves(clients'[reply'.key].bucket, PerClientRate, PerClientBurst, reply'.retryAfter)
            /\ \/ ~Serves(global', GlobalRate, GlobalBurst, reply'.retryAfter - 1)
               \/ ~Serves(clients'[reply'.key].bucket, PerClientRate, PerClientBurst,
                          reply'.retryAfter - 1)
        BY <2>3, <3>1, <3>7, <3>8, Zenon
      <3> QED BY <3>9, Zenon DEF RetryAfterIsExact, Serve, Serves, refill
    <2> QED BY <2>5, <2>6
  <1>2. CASE Tick
    <2>1. global' = global /\ clients' = clients /\ reply' = reply BY <1>2 DEF Tick
    <2> QED BY <2>1, Zenon DEF RetryAfterIsExact, Serve, Serves, refill
  <1>3. CASE UNCHANGED vars
    <2>1. global' = global /\ clients' = clients /\ reply' = reply BY <1>3 DEF vars
    <2> QED BY <2>1, Zenon DEF RetryAfterIsExact, Serve, Serves, refill
  <1> QED BY <1>1, <1>2, <1>3, Zenon DEF Next

-----------------------------------------------------------------------------
LEMMA LimiterStart ==
  ASSUME Init
  PROVE  LimiterTypes /\ GlobalPotential /\ ClientPotential /\ RetryAfterIsExact
  <1>1. LimiterTypes BY TypesStart, Zenon
  <1>2. /\ now = 0 /\ start \in Nat /\ \A k \in Keys : granted[k] = 0
        /\ Known = {} /\ reply.allowed
        /\ global = [tokens |-> GlobalBurst * Unit, last |-> 0]
    BY ConstantFacts DEF Init, Known
  <1>3. Passed = {}
    <2>1. \A k \in Keys : 1..granted[k] = {} BY <1>2
    <2> QED BY <2>1 DEF Passed
  <1>4. ASSUME now >= start, NEW rate \in Nat \ {0}, NEW burst \in Nat \ {0}
        PROVE  burst * Unit \in Nat /\ Window(burst, rate) = burst * Unit
    <2>1. now - start = 0 /\ burst * Unit \in Nat BY <1>2, <1>4, ConstantFacts
    <2>2. rate * (now - start) = 0 BY <2>1
    <2> QED BY <2>1, <2>2 DEF Window
  <1>5. GlobalPotential
    <2>1. IsFiniteSet(Passed) /\ Total = 0 BY <1>3, FS_EmptySet, TotalIsPassed
    <2>2. ASSUME now >= start
          PROVE  Total * Unit + Level(global, GlobalRate, GlobalBurst) <= Window(GlobalBurst, GlobalRate)
      <3>1. Window(GlobalBurst, GlobalRate) = GlobalBurst * Unit /\ GlobalBurst * Unit \in Nat
        BY <1>4, <2>2, ConstantFacts, Zenon
      <3>2. LET l == Level(global, GlobalRate, GlobalBurst)
            IN  l \in Nat /\ l <= GlobalBurst * Unit
        BY <1>1, ConstantFacts, RefillFills, Zenon DEF LimiterTypes
      <3>3. Total * Unit = 0 BY <2>1, ConstantFacts
      <3> QED BY <3>1, <3>2, <3>3
    <2> QED BY <1>3, <2>1, <2>2, Zenon DEF GlobalPotential
  <1>6. ClientPotential
    <2> SUFFICES ASSUME NEW k \in Keys PROVE ClientBound(k) BY Zenon DEF ClientPotential
    <2>1. ClientLevel(k) = PerClientBurst * Unit BY <1>2 DEF ClientLevel
    <2>2. granted[k] * Unit = 0 BY <1>2, ConstantFacts
    <2>3. ASSUME now >= start
          PROVE  granted[k] * Unit + ClientLevel(k) <= Window(PerClientBurst, PerClientRate) + Grace(k)
      <3>1. /\ Window(PerClientBurst, PerClientRate) = PerClientBurst * Unit
            /\ PerClientBurst * Unit \in Nat
        BY <1>4, <2>3, ConstantFacts, Zenon
      <3>2. Grace(k) \in Nat BY <1>1, GraceFits, Zenon
      <3> QED BY <2>1, <2>2, <3>1, <3>2
    <2> QED BY <1>2, <2>3, Zenon DEF ClientBound
  <1>7. RetryAfterIsExact BY <1>2, Zenon DEF RetryAfterIsExact
  <1> QED BY <1>1, <1>5, <1>6, <1>7

(* The limiter's map of clients holds no more than maxClients of them, its *)
(* buckets are never below empty or above their burst, and no bucket was   *)
(* filled in the future.                                                   *)
THEOREM LimiterTypesHold == Spec => []TypeOK
  <1>1. Init => LimiterTypes BY TypesStart
  <1>2. LimiterTypes => TypeOK
    <2> SUFFICES ASSUME LimiterTypes PROVE TypeOK OBVIOUS
    <2>1. now \in 0..MaxTime /\ lastCleanup \in 0..now BY ConstantFacts DEF LimiterTypes
    <2>2. ASSUME NEW b, NEW burst \in Nat \ {0}, IsBucket(b, burst) PROVE b \in Bucket(burst)
      <3>1. /\ b \in [tokens : Nat, last : Nat] /\ b.tokens <= burst * Unit /\ b.last <= now
        BY <2>2, Zenon DEF IsBucket
      <3>2. burst * Unit \in Nat BY ConstantFacts
      <3>3. b.tokens \in 0..(burst * Unit) /\ b.last \in 0..MaxTime
        BY <2>1, <3>1, <3>2, ConstantFacts
      <3> QED BY <3>1, <3>3 DEF Bucket
    <2>3. global \in Bucket(GlobalBurst) BY <2>2, ConstantFacts, Zenon DEF LimiterTypes
    <2>4. ASSUME NEW k \in Known
          PROVE  clients[k].bucket \in Bucket(PerClientBurst) /\ clients[k].lastSeen \in 0..now
      <3>1. clients[k].bucket \in Bucket(PerClientBurst)
        BY <2>2, ConstantFacts, Zenon DEF LimiterTypes
      <3>2. clients[k].lastSeen \in 0..now BY <2>1 DEF LimiterTypes, IsBucket
      <3> QED BY <3>1, <3>2
    <2> QED BY <2>1, <2>3, <2>4, Zenon DEF TypeOK, LimiterTypes
  <1> QED BY <1>1, <1>2, TypesStep, PTL DEF Spec

(* Whatever window of time one looks at, the requests that Allow lets      *)
(* through in it cost no more than the global burst and what the rate adds *)
(* in the window, for every rate, burst and number of clients.             *)
THEOREM GlobalRateIsKept == Spec => []GlobalRateHolds
  <1>1. Init => LimiterTypes /\ GlobalPotential BY LimiterStart
  <1>2. LimiterTypes /\ GlobalPotential => GlobalRateHolds
    <2> SUFFICES ASSUME LimiterTypes, GlobalPotential, now >= start
                 PROVE  Total * Unit <= Window(GlobalBurst, GlobalRate)
      BY Zenon DEF GlobalRateHolds
    <2>1. now \in Nat /\ start \in Nat BY DEF LimiterTypes
    <2>2. Total * Unit \in Nat
      BY TotalIsPassed, FS_CardinalityType, ConstantFacts DEF GlobalPotential
    <2>3. Window(GlobalBurst, GlobalRate) \in Int BY <2>1, ConstantFacts DEF Window
    <2>4. Level(global, GlobalRate, GlobalBurst) \in Nat
      BY ConstantFacts, RefillFills, Zenon DEF LimiterTypes
    <2>5. Total * Unit + Level(global, GlobalRate, GlobalBurst) <= Window(GlobalBurst, GlobalRate)
      BY Zenon DEF GlobalPotential
    <2> QED BY <2>2, <2>3, <2>4, <2>5
  <1> QED BY <1>1, <1>2, TypesStep, GlobalStep, PTL DEF Spec

(* Theorem for ClientRateHolds, with any configuration: each client is     *)
(* held to its own rate in every window of time, but for one burst each    *)
(* time that clientLocked or cleanupLocked drops its bucket too early.     *)
THEOREM ClientRateIsKept == Spec => []ClientRateHolds
  <1>1. Init => LimiterTypes /\ ClientPotential BY LimiterStart
  <1>2. LimiterTypes /\ ClientPotential => ClientRateHolds
    <2> SUFFICES ASSUME LimiterTypes, ClientPotential PROVE ClientRateHolds OBVIOUS
    <2>1. now \in Nat /\ start \in Nat /\ granted \in [Keys -> Nat] BY DEF LimiterTypes
    <2>2. ASSUME now >= start, NEW k \in Keys
          PROVE  granted[k] * Unit <= Window(PerClientBurst, PerClientRate) + Grace(k)
      <3>1. granted[k] * Unit + ClientLevel(k) <= Window(PerClientBurst, PerClientRate) + Grace(k)
        BY <2>2, Zenon DEF ClientPotential, ClientBound
      <3>2. ClientLevel(k) \in Nat /\ Grace(k) \in Nat BY <2>2, ClientLevelFits, GraceFits
      <3>3. granted[k] * Unit \in Nat BY <2>1, <2>2, ConstantFacts
      <3>4. Window(PerClientBurst, PerClientRate) \in Int BY <2>1, ConstantFacts DEF Window
      <3> QED BY <3>1, <3>2, <3>3, <3>4
    <2> QED BY <2>2, Zenon DEF ClientRateHolds, LimiterTypes, Grace
  <1> QED BY <1>1, <1>2, TypesStep, ClientStep, PTL DEF Spec

(* With an InactiveTTL as long as it takes a bucket to fill up, which      *)
(* normalized does not ask for, cleanupLocked drops full buckets only, so  *)
(* that a client gains by eviction alone.                                  *)
THEOREM CleanupDropsFullBuckets ==
  ASSUME DropsOnlyFull
  PROVE  Spec => [](\A k \in Known \ Cleaned : Full(k))
  <1>1. Init => LimiterTypes BY LimiterStart
  <1>2. LimiterTypes => \A k \in Known \ Cleaned : Full(k)
    BY DroppedIsFull, FullIsLevel, Zenon
  <1> QED BY <1>1, <1>2, TypesStep, PTL DEF Spec

(* The wait that Allow returns with a refusal is the least after which     *)
(* both buckets serve the client, whatever the rates: the quotient that    *)
(* waitDuration rounds up is neither a tick short nor a tick long.         *)
THEOREM RetryAfterHolds == Spec => []RetryAfterIsExact
  <1>1. Init => LimiterTypes /\ RetryAfterIsExact BY LimiterStart
  <1> QED BY <1>1, TypesStep, RetryStep, PTL DEF Spec

-----------------------------------------------------------------------------
(* The types, and that the probes under way can be counted.                *)
BreakerInv == BreakerTypeOK /\ IsFiniteSet(Probing) /\ HalfOpenAwaitsProbe

(* What a step of one caller does to the probes under way.                 *)
LEMMA ProbingMoves ==
  ASSUME BreakerTypeOK, IsFiniteSet(Probing), NEW c \in Callers,
         NEW new \in Active \cup {Idle}, caller' = [caller EXCEPT ![c] = new]
  PROVE  /\ IsFiniteSet(Probing')
         /\ Cardinality(Probing) \in Nat /\ Cardinality(Probing') \in Nat
         /\ c \in Probing <=> caller[c].pc = "sending" /\ caller[c].probe
         /\ ~(new.pc = "sending" /\ new.probe) /\ c \in Probing
              => Cardinality(Probing') = Cardinality(Probing) - 1
         /\ ~(new.pc = "sending" /\ new.probe) /\ c \notin Probing
              => Cardinality(Probing') = Cardinality(Probing)
         /\ new.pc = "sending" /\ new.probe /\ c \notin Probing
              => Cardinality(Probing') = Cardinality(Probing) + 1
  <1> DEFINE in == new.pc = "sending" /\ new.probe
  <1>1. caller \in [Callers -> Active \cup {Idle}] BY DEF BreakerTypeOK
  <1>2. caller'[c] = new /\ \A d \in Callers \ {c} : caller'[d] = caller[d] BY <1>1
  <1>3. (c \in Probing <=> caller[c].pc = "sending" /\ caller[c].probe)
        /\ (c \in Probing' <=> in)
    BY <1>2 DEF Probing
  <1>4. \A d \in Callers \ {c} : d \in Probing' <=> d \in Probing
    BY <1>2, Zenon DEF Probing
  <1>5. Probing \subseteq Callers /\ Probing' \subseteq Callers BY DEF Probing
  <1>6. CASE in
    <2>1. Probing' = Probing \cup {c} BY <1>3, <1>4, <1>5, <1>6
    <2> QED BY <1>3, <1>6, <2>1, FS_AddElement, FS_CardinalityType
  <1>7. CASE ~in
    <2>1. Probing' = Probing \ {c} BY <1>3, <1>4, <1>5, <1>7
    <2> QED BY <1>3, <1>7, <2>1, FS_RemoveElement, FS_CardinalityType
  <1> QED BY <1>6, <1>7

(* A request begins, gives up or is rejected, or its attempt goes ahead.   *)
LEMMA AdmissionKeeps ==
  ASSUME BreakerInv, NEW c \in Callers, Start(c) \/ GiveUp(c) \/ Reject(c) \/ Acquire(c)
  PROVE  BreakerInv'
  <1>1. BreakerTypeOK /\ IsFiniteSet(Probing) /\ HalfOpenAwaitsProbe BY DEF BreakerInv
  <1>2. caller[c] \in Active \cup {Idle} BY <1>1 DEF BreakerTypeOK
  <1>3. ASSUME NEW new \in Active \cup {Idle}, caller' = [caller EXCEPT ![c] = new]
        PROVE  caller' \in [Callers -> Active \cup {Idle}]
    BY <1>1, <1>3 DEF BreakerTypeOK
  <1>4. ASSUME NEW new \in Active \cup {Idle}, caller' = [caller EXCEPT ![c] = new],
               caller[c].pc # "sending", ~new.probe,
               UNCHANGED <<failed, inFlight, ripe, healthy>>,
               \/ state' = state
               \/ HalfOpens /\ inFlight >= HalfOpenMaxProbes /\ state' = "half_open"
        PROVE  BreakerInv'
    <2>1. IsFiniteSet(Probing') /\ Cardinality(Probing') = Cardinality(Probing)
      BY <1>1, <1>4, ProbingMoves, Zenon
    <2>2. state' = state
      BY <1>1, <1>4, BreakerAssumption DEF HalfOpens, HalfOpenAwaitsProbe, Normalized
    <2>3. BreakerTypeOK' BY <1>1, <1>3, <1>4, <2>2 DEF BreakerTypeOK
    <2>4. HalfOpenAwaitsProbe' BY <1>1, <1>4, <2>1, <2>2 DEF HalfOpenAwaitsProbe
    <2> QED BY <2>1, <2>3, <2>4 DEF BreakerInv
  <1>5. Idle.pc = "idle" /\ ~Idle.probe BY DEF Idle
  <1>6. CASE Start(c)
    <2> DEFINE new == [pc |-> "trying", attempt |-> 1, probe |-> FALSE]
    <2>1. new \in Active /\ ~new.probe
      BY BreakerAssumption DEF Active, RetryNormalized
    <2>2. caller[c].pc # "sending" /\ caller' = [caller EXCEPT ![c] = new]
      BY <1>5, <1>6, Zenon DEF Start
    <2>3. UNCHANGED <<state, failed, inFlight, ripe, healthy>> BY <1>6, Zenon DEF Start
    <2> HIDE DEF new
    <2> QED BY <1>4, <2>1, <2>2, <2>3, Zenon
  <1>7. CASE GiveUp(c)
    <2>1. /\ caller[c].pc # "sending" /\ caller' = [caller EXCEPT ![c] = Idle]
          /\ UNCHANGED <<state, failed, inFlight, ripe, healthy>>
      BY <1>7, Zenon DEF GiveUp, Return
    <2> QED BY <1>4, <1>5, <2>1, Zenon
  <1>8. CASE Reject(c)
    <2>1. state' = state \/ (HalfOpens /\ inFlight >= HalfOpenMaxProbes /\ state' = "half_open")
      BY <1>8 DEF Reject, HalfOpens
    <2>2. /\ caller[c].pc # "sending" /\ caller' = [caller EXCEPT ![c] = Idle]
          /\ UNCHANGED <<failed, inFlight, ripe, healthy>>
      BY <1>8, Zenon DEF Reject, Return
    <2> QED BY <1>4, <1>5, <2>1, <2>2, Zenon
  <1>9. CASE Acquire(c)
    <2> DEFINE new == [caller[c] EXCEPT !.pc = "sending", !.probe = HalfOpens]
    <2>1. HalfOpens \in BOOLEAN BY DEF HalfOpens
    <2>2. caller[c] \in Active /\ caller[c].pc = "trying" BY <1>2, <1>5, <1>9 DEF Acquire
    <2>3. new \in Active /\ new.pc = "sending" /\ new.probe = HalfOpens
      BY <2>1, <2>2, Zenon DEF Active
    <2>4. caller' = [caller EXCEPT ![c] = new] BY <1>1, <1>9, Zenon DEF Acquire, BreakerTypeOK
    <2> HIDE DEF new
    <2>5. /\ IsFiniteSet(Probing')
          /\ Cardinality(Probing) \in Nat
          /\ HalfOpens => Cardinality(Probing') = Cardinality(Probing) + 1
          /\ ~HalfOpens => Cardinality(Probing') = Cardinality(Probing)
      BY <1>1, <2>2, <2>3, <2>4, ProbingMoves, Zenon
    <2>6. BreakerTypeOK'
      <3>1. caller' \in [Callers -> Active \cup {Idle}] BY <1>3, <2>3, <2>4, Zenon
      <3>2. \/ inFlight' = inFlight
            \/ inFlight < HalfOpenMaxProbes /\ inFlight' = inFlight + 1
        BY <1>9 DEF Acquire, HalfOpens
      <3>3. inFlight \in 0..HalfOpenMaxProbes BY <1>1, Zenon DEF BreakerTypeOK
      <3>4. inFlight' \in 0..HalfOpenMaxProbes
        BY <3>2, <3>3, BreakerAssumption DEF Normalized
      <3> QED BY <1>1, <1>9, <3>1, <3>4, Zenon DEF Acquire, BreakerTypeOK
    <2>7. HalfOpenAwaitsProbe'
      BY <1>1, <1>9, <2>5 DEF Acquire, BreakerTypeOK, HalfOpenAwaitsProbe, HalfOpens
    <2> QED BY <2>5, <2>6, <2>7 DEF BreakerInv
  <1> QED BY <1>6, <1>7, <1>8, <1>9

(* An attempt ends.                                                        *)
LEMMA FinishKeeps ==
  ASSUME BreakerInv, NEW c \in Callers, Finish(c)
  PROVE  BreakerInv'
  <1>1. BreakerTypeOK /\ IsFiniteSet(Probing) /\ HalfOpenAwaitsProbe BY DEF BreakerInv
  <1>2. PICK success \in BOOLEAN : complete(c, success)
    BY Zenon DEF Finish, Answered, Cancelled, Failed
  <1>3. caller[c] \in Active /\ caller[c].pc = "sending"
    <2>1. caller[c].pc = "sending" BY Zenon DEF Finish, Answered, Cancelled, Failed
    <2>2. Idle.pc = "idle" BY DEF Idle
    <2>3. caller[c] \in Active \cup {Idle} BY <1>1, Zenon DEF BreakerTypeOK
    <2> QED BY <2>1, <2>2, <2>3, Zenon
  <1>4. PICK new \in Active \cup {Idle} : new.pc # "sending" /\ caller' = [caller EXCEPT ![c] = new]
    <2> DEFINE again == [pc |-> "trying", attempt |-> caller[c].attempt + 1, probe |-> FALSE]
    <2>1. caller[c].attempt < MaxAttempts => again \in Active /\ again.pc = "trying"
      BY <1>3, BreakerAssumption DEF Active, RetryNormalized
    <2>2. Idle.pc = "idle" BY DEF Idle
    <2>3. \/ caller' = [caller EXCEPT ![c] = Idle]
          \/ caller[c].attempt < MaxAttempts /\ caller' = [caller EXCEPT ![c] = again]
      BY <1>1, Zenon DEF Finish, Answered, Cancelled, Failed, Return, BreakerTypeOK
    <2> QED BY <2>1, <2>2, <2>3, Zenon
  <1>5. caller' \in [Callers -> Active \cup {Idle}] BY <1>1, <1>4 DEF BreakerTypeOK
  <1>6. /\ IsFiniteSet(Probing')
        /\ Cardinality(Probing) \in Nat /\ Cardinality(Probing') \in Nat
        /\ caller[c].probe => Cardinality(Probing') = Cardinality(Probing) - 1
        /\ ~caller[c].probe => Cardinality(Probing') = Cardinality(Probing)
    BY <1>1, <1>3, <1>4, ProbingMoves, Zenon
  <1>7. healthy' = healthy BY Zenon DEF Finish, Answered, Cancelled, Failed
  <1>8. CASE caller[c].probe
    <2>1. completeProbe(success) BY <1>2, <1>8 DEF complete
    <2>2. BreakerTypeOK'
      <3>1. failed' \in {failed, 0} /\ ripe' \in {ripe, FALSE}
            /\ state' \in {state, "open", "closed"}
        BY <2>1, Zenon DEF completeProbe, openLocked
      <3>2. inFlight' \in 0..HalfOpenMaxProbes
        BY <1>1, <2>1, BreakerAssumption DEF BreakerTypeOK, completeProbe, openLocked, Normalized
      <3>3. failed \in 0..(FailureThreshold - 1) /\ 0 \in 0..(FailureThreshold - 1)
        BY <1>1, BreakerAssumption DEF BreakerTypeOK, Normalized
      <3> QED BY <1>1, <1>5, <1>7, <3>1, <3>2, <3>3, Zenon DEF BreakerTypeOK
    <2>3. HalfOpenAwaitsProbe'
      BY <1>1, <1>6, <1>8, <2>1 DEF BreakerTypeOK, HalfOpenAwaitsProbe, completeProbe, openLocked
    <2> QED BY <1>6, <2>2, <2>3 DEF BreakerInv
  <1>9. CASE ~caller[c].probe
    <2>1. completeCall(success) BY <1>2, <1>9 DEF complete
    <2>2. BreakerTypeOK'
      <3>1. inFlight' \in {inFlight, 0} /\ ripe' \in {ripe, FALSE}
            /\ state' \in {state, "open"}
        BY <2>1, Zenon DEF completeCall, openLocked
      <3>2. failed' \in 0..(FailureThreshold - 1)
        BY <1>1, <2>1, BreakerAssumption DEF BreakerTypeOK, completeCall, openLocked, Normalized
      <3>3. inFlight \in 0..HalfOpenMaxProbes /\ 0 \in 0..HalfOpenMaxProbes
        BY <1>1, BreakerAssumption DEF BreakerTypeOK, Normalized
      <3> QED BY <1>1, <1>5, <1>7, <3>1, <3>2, <3>3, Zenon DEF BreakerTypeOK
    <2>3. HalfOpenAwaitsProbe'
      BY <1>1, <1>6, <1>9, <2>1 DEF BreakerTypeOK, HalfOpenAwaitsProbe, completeCall, openLocked
    <2> QED BY <1>6, <2>2, <2>3 DEF BreakerInv
  <1> QED BY <1>8, <1>9

LEMMA BreakerStart == BreakerInit => BreakerInv
  <1> SUFFICES ASSUME BreakerInit PROVE BreakerInv OBVIOUS
  <1>1. 0 \in 0..(FailureThreshold - 1) /\ 0 \in 0..HalfOpenMaxProbes
    BY BreakerAssumption DEF Normalized
  <1>5. caller \in [Callers -> Active \cup {Idle}] BY DEF BreakerInit
  <1>6. BreakerTypeOK BY <1>1, <1>5, Zenon DEF BreakerInit, BreakerTypeOK
  <1>2. Probing = {} BY DEF BreakerInit, Probing, Idle
  <1>3. IsFiniteSet(Probing) BY <1>2, FS_EmptySet
  <1>4. HalfOpenAwaitsProbe BY DEF BreakerInit, HalfOpenAwaitsProbe
  <1> QED BY <1>3, <1>4, <1>6 DEF BreakerInv

LEMMA BreakerStep == BreakerInv /\ [BreakerNext]_breakerVars => BreakerInv'
  <1> SUFFICES ASSUME BreakerInv, [BreakerNext]_breakerVars PROVE BreakerInv' OBVIOUS
  <1>1. ASSUME state' = state, failed' = failed, inFlight' = inFlight, caller' = caller,
               ripe' \in {ripe, TRUE}, healthy' \in {healthy, ~healthy}
        PROVE  BreakerInv'
    <2>1. Probing' = Probing BY <1>1, Zenon DEF Probing
    <2>2. BreakerTypeOK' BY <1>1, Zenon DEF BreakerInv, BreakerTypeOK
    <2> QED BY <1>1, <2>1, <2>2, Zenon DEF BreakerInv, HalfOpenAwaitsProbe
  <1>2. CASE OpenIntervalPasses BY <1>1, <1>2, Zenon DEF OpenIntervalPasses
  <1>3. CASE UpstreamChanges BY <1>1, <1>3, Zenon DEF UpstreamChanges
  <1>4. CASE UNCHANGED breakerVars BY <1>1, <1>4, Zenon DEF breakerVars
  <1> QED BY <1>2, <1>3, <1>4, AdmissionKeeps, FinishKeeps, Zenon DEF BreakerNext

(* Theorem for HalfOpenAwaitsProbe, with any number of callers, probes and *)
(* attempts: as long as complete is called for every acquire, the count of *)
(* probes cannot lock a half-open circuit.  A probe that outlives its half *)
(* open period is in Probing and not in inFlight, so the two are not equal.*)
THEOREM ProbesAreAwaited == BreakerSpec => []HalfOpenAwaitsProbe
  <1>1. BreakerInv => HalfOpenAwaitsProbe BY DEF BreakerInv
  <1> QED BY <1>1, BreakerStart, BreakerStep, PTL DEF BreakerSpec

(* Theorem for ClosesOnProbe.  Only complete of a probe closes the circuit, *)
(* and only in a half-open one; this is inductive because no step leads     *)
(* from open to closed.                                                     *)
THEOREM ProbesClose == Recorded => []ClosesOnProbe
  <1>1. RecordedInit => BreakerInv /\ ClosesOnProbe
    BY BreakerStart DEF RecordedInit, ClosesOnProbe
  <1>2. BreakerInv /\ ClosesOnProbe /\ [RecordedNext]_<<breakerVars, since>>
          => BreakerInv' /\ ClosesOnProbe'
    <2> SUFFICES ASSUME BreakerInv, ClosesOnProbe, [RecordedNext]_<<breakerVars, since>>
                 PROVE  BreakerInv' /\ ClosesOnProbe'
      OBVIOUS
    <2>1. BreakerInv' BY BreakerStep, Zenon DEF RecordedNext
    <2>2. CASE UNCHANGED <<breakerVars, since>> BY <2>1, <2>2, Zenon DEF ClosesOnProbe, breakerVars
    <2>3. CASE RecordedNext /\ state' = "closed" /\ state # "closed"
      <3>1. PICK c \in Callers : Finish(c)
        BY <2>3, Zenon DEF RecordedNext, BreakerNext, Start, GiveUp, Reject, Acquire,
           OpenIntervalPasses,
                    UpstreamChanges
      <3>2. ASSUME NEW success \in BOOLEAN, complete(c, success)
            PROVE  state = "half_open" /\ success /\ caller[c].probe
        <4>1. CASE caller[c].probe
          <5>1. completeProbe(success) BY <3>2, <4>1, Zenon DEF complete
          <5> QED BY <2>3, <4>1, <5>1 DEF completeProbe, openLocked
        <4>2. CASE ~caller[c].probe
          <5>1. completeCall(success) BY <3>2, <4>2, Zenon DEF complete
          <5> QED BY <2>3, <5>1 DEF completeCall, openLocked
        <4> QED BY <4>1, <4>2
      <3>3. ~Failed(c) BY <3>2, Zenon DEF Failed
      <3>4. caller[c].pc = "sending" /\ complete(c, TRUE) /\ Return(c)
        BY <3>1, <3>3, Zenon DEF Finish, Answered, Cancelled
      <3>5. state = "half_open" /\ c \in Probing BY <3>2, <3>4, Zenon DEF Probing
      <3>6. caller'[c] = Idle BY <3>4 DEF Return, BreakerInv, BreakerTypeOK
      <3>7. since' = "probed" BY <2>3, <3>5, <3>6 DEF RecordedNext
      <3> QED BY <2>1, <3>7 DEF ClosesOnProbe
    <2>4. CASE RecordedNext /\ ~(state' = "closed" /\ state # "closed")
      BY <2>1, <2>4 DEF RecordedNext, ClosesOnProbe
    <2> QED BY <2>2, <2>3, <2>4
  <1>3. BreakerInv /\ ClosesOnProbe => ClosesOnProbe OBVIOUS
  <1> QED BY <1>1, <1>2, <1>3, PTL DEF Recorded
=============================================================================
