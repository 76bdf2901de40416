SPECIFICATION Spec
CONSTANTS
  Width = 3
  Height = 2
  Types = {"fixedlat"}
  CyclesPerHop = 3
  MaxSendFifo = 4
  TransportDelay = 3
  Flows <- FiveToOne
  MaxFlits = 1
INVARIANT ReadyMeansSent
