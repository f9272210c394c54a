---------------------------- MODULE MCOrderItems ----------------------------
(* A small instance of OrderItems with 4-bit integers.                      *)
EXTENDS OrderItems

MCProducts == 1..3

MCPrices == {1, 3}

MCAmounts == {0, 2, 7}
=============================================================================
