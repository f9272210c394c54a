SPECIFICATION Spec
CONSTANTS
  Products <- MCProducts
  Prices <- MCPrices
  Amounts <- MCAmounts
  MaxLines = 3
  MaxInt = 7
INVARIANTS BillIsExact RefusalHasCause
CHECK_DEADLOCK FALSE
