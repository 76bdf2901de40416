-------------------------------- MODULE Pnjm0 --------------------------------
(***************************************************************************)
(* The router of src/macsim/src/noc/pnjm0.c, the predecessor of PnConfig:  *)
(* timers per router instead of policies, direct ejection from the row,    *)
(* and no delay in front of the receive buffer.                            *)
(*                                                                         *)
(* The request signals are left out: nothing sets request_from_north or    *)
(* request_from_east, so that my_turn_y and my_turn_x never decide.        *)
(***************************************************************************)
EXTENDS Flits

CONSTANTS SendSize, RecvSize, CornerSize  \* conf_send_fifo_size, ...

VARIABLES
  ctx,        \* noc_context of every node
  sent, got   \* history: number of flits sent, the numbers of those received

vars == <<ctx, sent, got>>

Wire(fc, deflected) == [fc |-> fc, deflected |-> deflected]
NoWire == Wire(NoFlit, FALSE)

Init ==
  /\ ctx = [n \in Node |->
       [inSouth |-> NoWire, inWest |-> NoWire,
        stallSouth |-> 0, stallNorth |-> 0, stallY |-> 0,
        stallWest |-> 0, stallEast |-> 0, stallX |-> 0,
        send |-> EmptyBuffer, recv |-> EmptyBuffer, corner |-> EmptyBuffer]]
  /\ sent = [f \in Flows |-> 0]
  /\ got = [f \in Flows |-> {}]

-----------------------------------------------------------------------------
\* One direction of router n: wire is its input, at the row or column here of
\* which the flit has to leave, src the one where it was injected.

\* stall_north and stall_east: no injection for a round behind a deflected flit.
InjectTimer(k, wire, len) == IF k # 0 THEN k - 1 ELSE IF wire.deflected THEN len ELSE 0

\* stall_y and stall_x: no injection while own flits take an extra round.
RingTimer(k, wire, own, len) == IF wire.fc # NoFlit /\ own THEN len ELSE Dec(k)

StallSouth(n) == Dec(ctx[n].stallSouth)
StallNorth(n) == InjectTimer(ctx[n].stallNorth, ctx[n].inSouth, Height)
StallY(n) == RingTimer(ctx[n].stallY, ctx[n].inSouth, Y(ctx[n].inSouth.fc.src) = Y(n), Height)
StallWest(n) == Dec(ctx[n].stallWest)
StallEast(n) == InjectTimer(ctx[n].stallEast, ctx[n].inWest, Width)
StallX(n) == RingTimer(ctx[n].stallX, ctx[n].inWest, X(ctx[n].inWest.fc.src) = X(n), Width)

\* South to north decisions.
SouthArrives(n) == ctx[n].inSouth.fc # NoFlit /\ Y(ctx[n].inSouth.fc.dest) = Y(n)
TrySouth(n) == SouthArrives(n) /\ StallSouth(n) = 0
EjectSouth(n) == TrySouth(n) /\ HasSlot(ctx[n].recv, RecvSize)
NorthTaken(n) == ctx[n].inSouth.fc # NoFlit /\ ~EjectSouth(n)
InjectCorner(n) ==
  /\ ~NorthTaken(n) /\ ctx[n].corner # EmptyBuffer
  /\ StallY(n) = 0 /\ StallNorth(n) = 0

\* West to east decisions.
WestArrives(n) == ctx[n].inWest.fc # NoFlit /\ X(ctx[n].inWest.fc.dest) = X(n)
TryWest(n) == WestArrives(n) /\ StallWest(n) = 0
InRow(n) == Y(ctx[n].inWest.fc.dest) = Y(n)
EjectWest(n) ==
  TryWest(n) /\ InRow(n) /\ HasSlot(ctx[n].recv, RecvSize) /\ ~EjectSouth(n)
TurnWest(n) == TryWest(n) /\ ~InRow(n) /\ HasSlot(ctx[n].corner, CornerSize)
EastTaken(n) == ctx[n].inWest.fc # NoFlit /\ ~EjectWest(n) /\ ~TurnWest(n)

\* A flit of the send buffer that is already in its column.
InColumn(n) == X(Head(ctx[n].send).dest) = X(n)
SendCorner(n) ==
  /\ ctx[n].send # EmptyBuffer /\ InColumn(n)
  /\ HasSlot(ctx[n].corner, CornerSize) /\ ~TurnWest(n)
SendEast(n) ==
  /\ ctx[n].send # EmptyBuffer /\ ~InColumn(n)
  /\ ~EastTaken(n) /\ StallX(n) = 0 /\ StallEast(n) = 0

-----------------------------------------------------------------------------
\* Outputs and buffers.
OutNorth(n) ==
  CASE NorthTaken(n) -> Wire(ctx[n].inSouth.fc, ctx[n].inSouth.deflected \/ TrySouth(n))
    [] InjectCorner(n) -> Wire(Head(ctx[n].corner), FALSE)
    [] OTHER -> NoWire
OutEast(n) ==
  CASE EastTaken(n) -> Wire(ctx[n].inWest.fc, ctx[n].inWest.deflected \/ TryWest(n))
    [] SendEast(n) -> Wire(Head(ctx[n].send), FALSE)
    [] OTHER -> NoWire

\* Mutant: a deflected flit does not close the ejection from its row.
StallWestAfterNone(n) == StallWest(n)

\* No ejection for one round after a deflection.
StallSouthAfter(n) == IF TrySouth(n) /\ ~EjectSouth(n) THEN Height ELSE StallSouth(n)
StallWestAfter(n) == IF TryWest(n) /\ EastTaken(n) THEN Width ELSE StallWest(n)

\* Mutant: the flit that turns is put into the buffer before the room is tested.
CornerAfterEarly(n) ==
  IF TurnWest(n) THEN Append(ctx[n].corner, ctx[n].inWest.fc) ELSE ctx[n].corner

CornerAfter(n) ==
  LET left == IF InjectCorner(n) THEN Dequeued(ctx[n].corner) ELSE ctx[n].corner
  IN CASE TurnWest(n) -> Enqueued(left, CornerSize, ctx[n].inWest.fc)
       [] SendCorner(n) -> Enqueued(left, CornerSize, Head(ctx[n].send))
       [] OTHER -> left
RecvAfter(n) ==
  CASE EjectSouth(n) -> Enqueued(ctx[n].recv, RecvSize, ctx[n].inSouth.fc)
    [] EjectWest(n) -> Enqueued(ctx[n].recv, RecvSize, ctx[n].inWest.fc)
    [] OTHER -> ctx[n].recv

\* pnjm0_route_all: router_one_cycle of all nodes, then the inputs of the next
\* cycle are the neighbours' outputs of this one.
Routed(n) ==
  [inSouth |-> OutNorth(South(n)), inWest |-> OutEast(West(n)),
   stallSouth |-> StallSouthAfter(n), stallNorth |-> StallNorth(n), stallY |-> StallY(n),
   stallWest |-> StallWestAfter(n), stallEast |-> StallEast(n), stallX |-> StallX(n),
   send |-> IF SendCorner(n) \/ SendEast(n) THEN Dequeued(ctx[n].send) ELSE ctx[n].send,
   recv |-> RecvAfter(n), corner |-> CornerAfter(n)]
RouteAll == ctx' = [n \in Node |-> Routed(n)] /\ UNCHANGED <<sent, got>>

\* ENABLED <<RouteAll>>_vars.
Working == \E n \in Node : Routed(n) # ctx[n]

\* pnjm0_send_flit, when it returns true.
Send(f) ==
  /\ sent[f] < MaxFlits /\ HasSlot(ctx[f[1]].send, SendSize)
  /\ ctx' = [ctx EXCEPT ![f[1]].send =
       Append(@, [src |-> f[1], dest |-> f[2], seq |-> sent[f] + 1])]
  /\ sent' = [sent EXCEPT ![f] = @ + 1]
  /\ UNCHANGED got

\* pnjm0_recv_flit, when it returns true.
Recv(f) ==
  LET q == ctx[f[2]].recv IN
  /\ FirstFrom(q, f[1]) # 0
  /\ ctx' = [ctx EXCEPT ![f[2]].recv = WithoutFirstFrom(@, f[1])]
  /\ got' = [got EXCEPT ![f] = @ \cup {q[FirstFrom(q, f[1])].seq}]
  /\ UNCHANGED sent

\* The flits in router n, each as often as it is stored there.
Store(n) == <<ctx[n].inSouth.fc, ctx[n].inWest.fc>>
            \o ctx[n].send \o ctx[n].corner \o ctx[n].recv

\* A flit that was sent is in one place of one router until it is received, and
\* then in none.
Conservation ==
  \A f \in Flows : \A k \in 1 .. sent[f] :
    Copies([n \in Node |-> Store(n)], f, k) = IF k \in got[f] THEN 0 ELSE 1
=============================================================================
