------------------------------ MODULE MCPnRings ------------------------------
(***************************************************************************)
(* PnConfig on single rings of three routers, where two senders compete    *)
(* for one receiver: a row, a column and a column without a bypass, each   *)
(* with policies of its own; and on a torus of 2x2 routers that eject two  *)
(* flits per cycle, with a receive buffer that is large enough for all     *)
(* flits.  The configuration is chosen in the initial state.               *)
(***************************************************************************)
EXTENDS FiniteSetsExt, Naturals

CONSTANT NoFlit

VARIABLES
  ring,   \* which of the configurations is simulated
  sendFifo, recvFifo, cornerFifo, delay, sendFull, recvFull,
  inSouth, inWest, stallY, stallX, injectY, injectX, sent, got, aborted

RowFlows == {<<0, 2>>, <<1, 2>>}
ColumnFlows == {<<2, 0>>, <<1, 0>>}
LoopFlows == {<<0, 0>>, <<1, 0>>}
DoubleFlows == {<<1, 3>>, <<2, 3>>}
AllFlows == RowFlows \cup ColumnFlows \cup LoopFlows \cup DoubleFlows

Row == INSTANCE PnConfig WITH
  Width <- 3, Height <- 1, SendSize <- 3, RecvSize <- 2, CornerSize <- 1,
  BypassX <- "unbuf", BypassY <- "unbuf", StallX <- "exp", StallY <- "exp",
  InjectX <- "alternate", InjectY <- "alternate", Flows <- RowFlows, MaxFlits <- 3

Column == INSTANCE PnConfig WITH
  Width <- 1, Height <- 3, SendSize <- 3, RecvSize <- 2, CornerSize <- 1,
  BypassX <- "unbuf", BypassY <- "unbuf", StallX <- "cheap", StallY <- "cheap",
  InjectX <- "request", InjectY <- "request", Flows <- ColumnFlows, MaxFlits <- 2

\* One of the two senders sends to itself.
Loop == INSTANCE PnConfig WITH
  Width <- 1, Height <- 3, SendSize <- 3, RecvSize <- 2, CornerSize <- 1,
  BypassX <- "none", BypassY <- "none", StallX <- "cheap", StallY <- "cheap",
  InjectX <- "none", InjectY <- "none", Flows <- LoopFlows, MaxFlits <- 2

Double == INSTANCE PnConfig WITH
  Width <- 2, Height <- 2, SendSize <- 3, RecvSize <- 4, CornerSize <- 1,
  BypassX <- "buf", BypassY <- "2unbuf", StallX <- "exp", StallY <- "exp",
  InjectX <- "none", InjectY <- "none", Flows <- DoubleFlows, MaxFlits <- 2

vars == <<ring, Row!vars>>

Init ==
  \/ ring = "row" /\ Row!Init
  \/ ring = "column" /\ Column!Init
  \/ ring = "loop" /\ Loop!Init
  \/ ring = "double" /\ Double!Init

RouteAll ==
  /\ \/ ring = "row" /\ Row!RouteAll
     \/ ring = "column" /\ Column!RouteAll
     \/ ring = "loop" /\ Loop!RouteAll
     \/ ring = "double" /\ Double!RouteAll
  /\ UNCHANGED ring

Send(f) ==
  /\ \/ ring = "row" /\ f \in RowFlows /\ Row!Send(f)
     \/ ring = "column" /\ f \in ColumnFlows /\ Column!Send(f)
     \/ ring = "loop" /\ f \in LoopFlows /\ Loop!Send(f)
     \/ ring = "double" /\ f \in DoubleFlows /\ Double!Send(f)
  /\ UNCHANGED ring

Recv(f) ==
  /\ \/ ring = "row" /\ f \in RowFlows /\ Row!Recv(f)
     \/ ring = "column" /\ f \in ColumnFlows /\ Column!Recv(f)
     \/ ring = "loop" /\ f \in LoopFlows /\ Loop!Recv(f)
     \/ ring = "double" /\ f \in DoubleFlows /\ Double!Recv(f)
  /\ UNCHANGED ring

Next == RouteAll \/ \E f \in AllFlows : Send(f) \/ Recv(f)

Spec == Init /\ [][Next]_vars

\* The simulation calls noc_route_all in every cycle, and the cores keep
\* receiving what has arrived for them.
FairSpec == Spec /\ WF_vars(RouteAll) /\ \A f \in AllFlows : WF_vars(Recv(f))

-----------------------------------------------------------------------------
\* The flows that the configuration does not have exchange nothing.
Extended(count) == [f \in AllFlows |-> IF f \in DOMAIN count THEN count[f] ELSE 0]
Last == [f \in DOMAIN got |-> Max(got[f] \cup {0})]

Channels == INSTANCE Noc WITH
  Flows <- AllFlows, MaxFlits <- 3, sent <- Extended(sent), got <- Extended(Last)

\* Flits of one sender arrive in the order in which they were sent: the timers
\* stop every ejection and injection that would overtake a deflected flit.
NocSpec == Channels!Spec

\* Every flit that was sent is received in the end: none circles for ever, and
\* none waits for ever to be injected (the flows end, so that everything is
\* received again and again means that it is for good).
Delivery == []<>(\A f \in DOMAIN sent : got[f] = 1 .. sent[f])
=============================================================================
