-------------------------------- MODULE Pnbe2 --------------------------------
(***************************************************************************)
(* The best effort router of src/macsim/src/noc/pnbe2.c.  A flit in its    *)
(* row that meets one from the south, or a full corner buffer, takes       *)
(* another round; a router that sees its own flit again, or one marked at  *)
(* a full corner buffer, holds back the flits that would overtake it.      *)
(***************************************************************************)
EXTENDS PnNode

Context(n) ==
  [inWest |-> NoFlit, inSouth |-> NoFlit, inCore |-> NoFlit,
   inj |-> EmptyBuffer, corner |-> EmptyBuffer, core |-> EmptyBuffer,
   hTimers |-> NoTimers, sendBlock |-> 0, receiveTimeout |-> 0,
   sentNorth |-> FALSE, sentEast |-> FALSE,
   isSignaledNorth |-> FALSE, isSignaledEast |-> FALSE,
   outEast |-> NoFlit, outNorth |-> NoFlit, signalWest |-> FALSE,
   signalSouth |-> FALSE, outCore |-> FALSE, outCorner |-> FALSE,
   dropped |-> {}, fatal |-> FALSE]

Init == InitWith(Context)

\* West to core, unless a flit came from the south or one was refused before.
WestToCore(r) ==
  CASE r.receiveTimeout # 0 -> [r EXCEPT !.outEast = r.inWest]
    [] r.receiveTimeout = 0 /\ r.outCore ->
         [r EXCEPT !.outEast = r.inWest, !.receiveTimeout = Width]
    [] OTHER -> ToCore(r, r.inWest)

WestInput(n, r) ==
  CASE r.inWest = NoFlit -> r
    [] r.inWest # NoFlit /\ r.inWest.dest = n -> WestToCore(r)
    [] r.inWest # NoFlit /\ r.inWest.dest # n /\ InColumn(n, r.inWest) -> WestToCorner(n, r)
    [] OTHER -> [r EXCEPT !.outEast = r.inWest]

CoreInput(n, r) ==
  CASE r.inCore = NoFlit -> NoCoreInput(r)
    [] r.inCore # NoFlit /\ InColumn(n, r.inCore) -> CoreToCorner(n, r)
    [] OTHER -> CoreToEast(r, r.sendBlock = 0 /\ r.hTimers[X(r.inCore.dest)] = 0)

\* pnbe2_route_one_cycle of node n.
Cycle(n) ==
  LET corner == CornerToNorth(SouthInput(n, Updated(ctx[n])))
      west == WestInput(n, Remembered(n, OwnFlit(n, corner)))
  IN Timeouts(CoreInput(n, west))

RouteAll == RouteWith(Cycle, Signaled)
Working == WorkingWith(Cycle, Signaled)
Send(f) == SendFlit(f)
Recv(f) == RecvFlit(f)
Holds(n) == Store(n) \o ctx[n].corner
\* A flit that was sent is in one place of one router until it is received, and
\* then in none.
Conservation == Conserved([n \in Node |-> Holds(n)])
=============================================================================
