----------------------------- MODULE SagaHistory -----------------------------
(***************************************************************************)
(* OrderSaga with a history variable, which remembers whether a call to    *)
(* the inventory service was ever given up on.                             *)
(***************************************************************************)
EXTENDS OrderSaga

VARIABLE gaveUp

AnsweredInit == Init /\ gaveUp = FALSE

AnsweredNext == Next /\ gaveUp' = (gaveUp \/ \E r \in Requests : LoseCall(r))

Answered == AnsweredInit /\ [][AnsweredNext]_<<vars, gaveUp>>

(* While every call has been answered, the status that a client reads      *)
(* tells what happened to the stock, whatever transactions fail, requests  *)
(* expire or processes die: the compensation of Create, the way back of    *)
(* Pay and cancel, and the order of their steps.  A call that was given up *)
(* on takes that away (FailedHoldsNothing).                                *)
HonestWhileAnswered == ~gaveUp => StatusIsHonest
=============================================================================
