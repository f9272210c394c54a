--------------------------- MODULE CircuitBreaker ---------------------------
(***************************************************************************)
(* The retry executor and the circuit breaker of one upstream operation    *)
(* (internal/platform/resiliencehttp).  Goroutines call Do concurrently;   *)
(* every attempt passes acquire before and complete after the HTTP         *)
(* exchange, and these two run under the mutex of the breaker.             *)
(*                                                                         *)
(* Time is what ripe says of the open interval, and the freedom of a       *)
(* caller's budget to run out at any moment.                               *)
(***************************************************************************)
EXTENDS Integers, FiniteSets

CONSTANTS Callers,           \* goroutines inside Do
          FailureThreshold,  \* CircuitBreakerConfig
          HalfOpenMaxProbes,
          MaxAttempts        \* RetryPolicy

(* What a configuration is after the defaults are filled in.               *)
Normalized ==
  /\ FailureThreshold \in Nat \ {0}
  /\ HalfOpenMaxProbes \in Nat \ {0}

(* The same of a retry policy; its delays are moments that come.           *)
RetryNormalized == MaxAttempts \in Nat \ {0}

ASSUME BreakerAssumption == Normalized /\ RetryNormalized

VARIABLES state,        \* "closed", "open" or "half_open"
          failed,       \* consecutiveFailed
          inFlight,     \* halfOpenInFlight
          ripe,         \* the open interval has passed
          healthy,      \* the upstream answers
          caller        \* what each goroutine is doing

breakerVars == <<state, failed, inFlight, ripe, healthy, caller>>

Idle == [pc |-> "idle", attempt |-> 0, probe |-> FALSE]

(* pc: about to acquire ("trying") or waiting for the upstream ("sending"). *)
Active == [pc : {"trying", "sending"}, attempt : 1..MaxAttempts, probe : BOOLEAN]

BreakerTypeOK ==
  /\ state \in {"closed", "open", "half_open"}
  /\ failed \in 0..(FailureThreshold - 1)
  /\ inFlight \in 0..HalfOpenMaxProbes
  /\ ripe \in BOOLEAN
  /\ healthy \in BOOLEAN
  /\ caller \in [Callers -> Active \cup {Idle}]

BreakerInit ==
  /\ state = "closed"
  /\ failed = 0
  /\ inFlight = 0
  /\ ripe = FALSE
  /\ healthy = TRUE
  /\ caller = [c \in Callers |-> Idle]

-----------------------------------------------------------------------------
Return(c) == caller' = [caller EXCEPT ![c] = Idle]

Start(c) ==
  /\ caller[c] = Idle
  /\ caller' = [caller EXCEPT ![c] = [pc |-> "trying", attempt |-> 1, probe |-> FALSE]]
  /\ UNCHANGED <<state, failed, inFlight, ripe, healthy>>

(* Before an attempt, or asleep after one, Do finds its context done or    *)
(* its budget spent.                                                       *)
GiveUp(c) ==
  /\ caller[c].pc = "trying"
  /\ Return(c)
  /\ UNCHANGED <<state, failed, inFlight, ripe, healthy>>

(* The circuit is half open, or becomes so at the next acquire.            *)
HalfOpens == state = "half_open" \/ (state = "open" /\ ripe)

(* acquire, when the circuit is open or has all its probes out.            *)
Reject(c) ==
  /\ caller[c].pc = "trying"
  /\ \/ state = "open" /\ ~ripe
     \/ HalfOpens /\ inFlight >= HalfOpenMaxProbes
  /\ state' = IF HalfOpens THEN "half_open" ELSE state
  /\ Return(c)
  /\ UNCHANGED <<failed, inFlight, ripe, healthy>>

(* acquire, when the attempt may go ahead, as a probe if half open.        *)
Acquire(c) ==
  /\ caller[c].pc = "trying"
  /\ state = "closed" \/ (HalfOpens /\ inFlight < HalfOpenMaxProbes)
  /\ state' = IF HalfOpens THEN "half_open" ELSE state
  /\ inFlight' = IF HalfOpens THEN inFlight + 1 ELSE inFlight
  /\ caller' = [caller EXCEPT ![c].pc = "sending", ![c].probe = HalfOpens]
  /\ UNCHANGED <<failed, ripe, healthy>>

-----------------------------------------------------------------------------
(* Mutant of openLocked: the probes in flight stay counted.                *)
openKeepingProbes == state' = "open" /\ failed' = 0 /\ ripe' = FALSE /\ UNCHANGED inFlight

openLocked == state' = "open" /\ failed' = 0 /\ ripe' = FALSE /\ inFlight' = 0

(* complete of a probe, of whichever half-open period it is.               *)
completeProbe(success) ==
  LET left == IF inFlight > 0 THEN inFlight - 1 ELSE 0
  IN  IF state # "half_open" THEN UNCHANGED <<state, failed, inFlight, ripe>>
      ELSE IF ~success THEN openLocked
      ELSE /\ inFlight' = left
           /\ IF left = 0 THEN state' = "closed" /\ failed' = 0 ELSE UNCHANGED <<state, failed>>
           /\ UNCHANGED ripe

(* Mutant of completeCall: a success closes the circuit.                   *)
completeCallCloses(success) ==
  IF state = "closed" /\ ~success /\ failed + 1 >= FailureThreshold THEN openLocked
  ELSE /\ failed' = IF success THEN 0 ELSE IF state = "closed" THEN failed + 1 ELSE failed
       /\ state' = IF success THEN "closed" ELSE state
       /\ UNCHANGED <<inFlight, ripe>>

(* complete of an attempt that was let through by a closed circuit.        *)
completeCall(success) ==
  IF state = "closed" /\ ~success /\ failed + 1 >= FailureThreshold THEN openLocked
  ELSE /\ failed' = IF state # "closed" THEN failed ELSE IF success THEN 0 ELSE failed + 1
       /\ UNCHANGED <<state, inFlight, ripe>>

complete(c, success) == IF caller[c].probe THEN completeProbe(success) ELSE completeCall(success)

(* An attempt ends with a response or an error that shouldRetry does not   *)
(* retry; complete is told of success and Do returns.                      *)
Answered(c) ==
  /\ caller[c].pc = "sending"
  /\ healthy
  /\ complete(c, TRUE)
  /\ Return(c)
  /\ UNCHANGED healthy

(* The same when the caller's own context has ended, or the request could  *)
(* not be built, whatever the upstream is doing.                           *)
Cancelled(c) ==
  /\ caller[c].pc = "sending"
  /\ complete(c, TRUE)
  /\ Return(c)
  /\ UNCHANGED healthy

(* A network error, a 502, 503 or 504: complete is told of failure, and Do *)
(* tries again while it has attempts and budget left.                      *)
Failed(c) ==
  /\ caller[c].pc = "sending"
  /\ ~healthy
  /\ complete(c, FALSE)
  /\ \/ Return(c)
     \/ /\ caller[c].attempt < MaxAttempts
        /\ caller' = [caller EXCEPT ![c] =
             [pc |-> "trying", attempt |-> @.attempt + 1, probe |-> FALSE]]
  /\ UNCHANGED healthy

-----------------------------------------------------------------------------
OpenIntervalPasses ==
  /\ state = "open" /\ ~ripe
  /\ ripe' = TRUE
  /\ UNCHANGED <<state, failed, inFlight, healthy, caller>>

UpstreamChanges ==
  /\ healthy' = ~healthy
  /\ UNCHANGED <<state, failed, inFlight, ripe, caller>>

Finish(c) == Answered(c) \/ Cancelled(c) \/ Failed(c)

BreakerNext ==
  \/ \E c \in Callers : Start(c) \/ GiveUp(c) \/ Reject(c) \/ Acquire(c) \/ Finish(c)
  \/ OpenIntervalPasses
  \/ UpstreamChanges

BreakerSpec == BreakerInit /\ [][BreakerNext]_breakerVars

(* Calls keep coming and not all of them give up before they are made;     *)
(* attempts end, since the HTTP client has a timeout; time passes.         *)
Fairness ==
  /\ WF_breakerVars(OpenIntervalPasses)
  /\ \A c \in Callers : /\ WF_breakerVars(Start(c)) /\ SF_breakerVars(Acquire(c))
                        /\ WF_breakerVars(Finish(c))

-----------------------------------------------------------------------------
Probing == {c \in Callers : caller[c].pc = "sending" /\ caller[c].probe}

(* A half-open circuit waits for a probe that is really under way: the     *)
(* probes it counts are at least one and no more than there are.  Counting *)
(* one that never ends would reject every call from then on.               *)
HalfOpenAwaitsProbe ==
  /\ state = "half_open" => inFlight > 0 /\ inFlight <= Cardinality(Probing)
  /\ state # "half_open" => inFlight = 0

(* The breaker never shuts its callers out for good: again and again one   *)
(* of them gets through to the upstream.                                   *)
KeepsAdmitting == []<>(\E c \in Callers : caller[c].pc = "sending")
=============================================================================
