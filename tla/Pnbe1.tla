-------------------------------- MODULE Pnbe1 --------------------------------
(***************************************************************************)
(* The best effort router of src/macsim/src/noc/pnbe1.c: a flit that has   *)
(* reached its destination in the row goes through the corner buffer too,  *)
(* from where it can ask for a free slot.                                  *)
(***************************************************************************)
EXTENDS PnNode

Context(n) ==
  [inWest |-> NoFlit, inSouth |-> NoFlit, inCore |-> NoFlit,
   inj |-> EmptyBuffer, corner |-> EmptyBuffer, core |-> EmptyBuffer,
   hTimers |-> NoTimers, sentNorth |-> FALSE, sentEast |-> FALSE,
   isSignaledNorth |-> FALSE, isSignaledEast |-> FALSE,
   outEast |-> NoFlit, outNorth |-> NoFlit, signalWest |-> FALSE,
   signalSouth |-> FALSE, outCore |-> FALSE, outCorner |-> FALSE,
   dropped |-> {}, fatal |-> FALSE]

Init == InitWith(Context)

\* Mutant: a flit for the core is copied from the corner buffer.
CornerOutCopies(n, r) ==
  CASE r.corner = EmptyBuffer \/ Oldest(r.corner).dest # n -> CornerToNorth(r)
    [] r.outCore -> [r EXCEPT !.signalSouth = TRUE]
    [] OTHER -> ToCore(r, Head(r.corner))

\* Corner buffer to core, if nothing came from the south, or to north.
CornerOut(n, r) ==
  CASE r.corner = EmptyBuffer \/ Oldest(r.corner).dest # n -> CornerToNorth(r)
    [] r.corner # EmptyBuffer /\ Oldest(r.corner).dest = n /\ r.outCore ->
         [r EXCEPT !.signalSouth = TRUE]
    [] OTHER ->
         ToCore([r EXCEPT !.corner = Tail(@), !.sentNorth = @ /\ r.outNorth # NoFlit],
                Head(r.corner))

WestInput(n, r) ==
  CASE r.inWest = NoFlit -> r
    [] r.inWest # NoFlit /\ InColumn(n, r.inWest) -> WestToCorner(n, r)
    [] OTHER -> [r EXCEPT !.outEast = r.inWest]

CoreInput(n, r) ==
  CASE r.inCore = NoFlit -> NoCoreInput(r)
    [] r.inCore # NoFlit /\ InColumn(n, r.inCore) -> CoreToCorner(n, r)
    [] OTHER -> CoreToEast(r, r.hTimers[X(r.inCore.dest)] = 0)

\* pnbe1_route_one_cycle of node n.
Cycle(n) ==
  LET south == SouthInput(n, Updated(ctx[n]))
      west == WestInput(n, Remembered(n, CornerOut(n, south)))
  IN [CoreInput(n, west) EXCEPT !.hTimers = Counted(@)]

RouteAll == RouteWith(Cycle, Signaled)
Working == WorkingWith(Cycle, Signaled)
Send(f) == SendFlit(f)
Recv(f) == RecvFlit(f)
Holds(n) == Store(n) \o ctx[n].corner
\* A flit that was sent is in one place of one router until it is received, and
\* then in none.
Conservation == Conserved([n \in Node |-> Holds(n)])
=============================================================================
