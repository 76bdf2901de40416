SPECIFICATION Spec
CONSTANTS
  Width = 2
  Height = 2
  SendSize = 3
  RecvSize = 2
  CornerSize = 1
  BypassX = "buf"
  BypassY = "buf"
  StallX = "exp"
  StallY = "exp"
  InjectX = "none"
  InjectY = "none"
  Flows <- ToLast
  MaxFlits = 2
  NoFlit = NoFlit
INVARIANTS TypeOK NoAssertFails Room Conservation
PROPERTIES NocSpec
