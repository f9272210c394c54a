--------------------------- MODULE BreakerHistory ---------------------------
(***************************************************************************)
(* CircuitBreaker with a history variable, which tells what has happened   *)
(* since the circuit last opened.                                          *)
(***************************************************************************)
EXTENDS CircuitBreaker

VARIABLE since          \* "never" opened, "opened", or since then "probed"

RecordedInit == BreakerInit /\ since = "never"

(* A probe that ends with its caller gone while the circuit stays half     *)
(* open or closes was answered or cancelled.                               *)
RecordedNext ==
  /\ BreakerNext
  /\ since' =
       CASE state # "open" /\ state' = "open" -> "opened"
         [] state = "half_open" /\ \E c \in Probing : caller'[c] = Idle -> "probed"
         [] OTHER -> since

Recorded == RecordedInit /\ [][RecordedNext]_<<breakerVars, since>>

(* Once open, the circuit closes only after a probe that did not fail.     *)
(* Late answers to attempts from before it opened never close it, so while *)
(* the upstream is down nothing but a cancelled probe does.                *)
ClosesOnProbe == state = "closed" => since # "opened"
=============================================================================
