SPECIFICATION Spec
CONSTANTS
  Width = 3
  Height = 1
  Types = {"manhattan"}
  CyclesPerHop = 3
  MaxSendFifo = 2
  TransportDelay = 3
  Flows <- BothWays
  MaxFlits = 2
INVARIANT ProbeSeesArrived
