SPECIFICATION FairSpec
CONSTANTS
  Size = 4
  Rounds = 3
INVARIANTS TypeOK AssertsHold NobodyStuck
PROPERTIES BarrierSpec EverybodyLeaves
CHECK_DEADLOCK FALSE
