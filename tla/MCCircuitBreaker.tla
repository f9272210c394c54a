-------------------------- MODULE MCCircuitBreaker --------------------------
(* A small instance of CircuitBreaker, with the history of its probes.     *)
EXTENDS BreakerHistory

CONSTANTS c1, c2, c3, c4

FourCallers == {c1, c2, c3, c4}

RecordedSpec == Recorded /\ Fairness
=============================================================================
