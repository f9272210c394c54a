--------------------------- MODULE MCProductCache ---------------------------
(* A small instance of ProductCache.  Requests on different products do    *)
(* not meet, so one product is enough.                                     *)
EXTENDS ProductCache

CONSTANTS p1, g1, g2, g3

OneProduct == {p1}
TwoGoroutines == {g1, g2}
ThreeGoroutines == {g1, g2, g3}
=============================================================================
