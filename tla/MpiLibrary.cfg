SPECIFICATION LibrarySpec
CONSTANTS
  Size = 3
  Capacity = 3
  Partial = TRUE
  Programs <- Pairs
INVARIANTS SendsOriginal ExchangeGoesOn AssertsHold CallsReceiveTheirs CallsLeaveNothing
PROPERTIES EverybodyReturns
CHECK_DEADLOCK FALSE
