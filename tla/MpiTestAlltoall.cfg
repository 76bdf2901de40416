SPECIFICATION LibrarySpec
CONSTANTS
  Size = 3
  Capacity = 3
  Partial = TRUE
  Programs <- TestAlltoall
PROPERTIES EverybodyReturns
CHECK_DEADLOCK FALSE
