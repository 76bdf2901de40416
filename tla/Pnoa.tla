--------------------------------- MODULE Pnoa ---------------------------------
(***************************************************************************)
(* The router of src/macsim/src/noc/pnoa.c, which follows a schedule: in   *)
(* a round of Width * (Width - 1) + 1 cycles every node may send one flit. *)
(* Nothing is asked before a flit is put into the corner slot or on a ring,*)
(* the schedule has to keep the places free.                               *)
(***************************************************************************)
EXTENDS PnNode

RoundTime == Width * (Width - 1) + 1

Context(n) ==
  [inWest |-> NoFlit, inSouth |-> NoFlit, inCore |-> NoFlit,
   inj |-> EmptyBuffer, corner |-> NoFlit, core |-> EmptyBuffer,
   currentCycle |-> 0,
   outEast |-> NoFlit, outNorth |-> NoFlit, signalWest |-> FALSE,
   signalSouth |-> FALSE, outCore |-> FALSE, outCorner |-> FALSE,
   dropped |-> {}, fatal |-> FALSE]

Init == InitWith(Context)

NewRound(r) == [r EXCEPT !.currentCycle = IF @ = RoundTime THEN 0 ELSE @]

\* A flit put into a place that is not free replaces the one it finds there.
IntoCorner(r, fc) == [r EXCEPT !.dropped = @ \cup ({r.corner} \ {NoFlit}), !.corner = fc]
IntoNorth(r, fc) == [r EXCEPT !.dropped = @ \cup ({r.outNorth} \ {NoFlit}), !.outNorth = fc]
IntoEast(r, fc) == [r EXCEPT !.dropped = @ \cup ({r.outEast} \ {NoFlit}), !.outEast = fc]

\* The number of columns the flit has to pass, Width to this column.
Distance(n, fc) ==
  IF X(fc.dest) <= X(n) THEN Width + X(fc.dest) - X(n) ELSE X(fc.dest) - X(n)

\* Mutant: the slots of two distances of the schedule coincide.
EastSlotEarly(n, r) == r.currentCycle % (Width - 1) = 0 /\ ~InColumn(n, r.inCore)

\* The core's flit may go east in the slot of its distance.
EastSlot(n, r) ==
  /\ Distance(n, r.inCore) * (Width - 2) = r.currentCycle
  /\ Distance(n, r.inCore) < Width
CoreInput(n, r) ==
  CASE r.inCore = NoFlit -> r
    [] r.inCore # NoFlit /\ InColumn(n, r.inCore) /\ r.currentCycle = 0 ->
         IntoCorner([r EXCEPT !.inCore = NoFlit], r.inCore)
    [] r.inCore # NoFlit /\ ~(InColumn(n, r.inCore) /\ r.currentCycle = 0)
                         /\ EastSlot(n, r) ->
         IntoEast([r EXCEPT !.inCore = NoFlit], r.inCore)
    [] OTHER -> r

\* The slots of the vertical rings; the torus of 2 x 2 nodes is a special case.
NorthSlot(r) ==
  \/ r.currentCycle % (Width - 1) = 1
  \/ Width = 2 /\ r.currentCycle # 0
CornerInput(r) ==
  IF r.corner # NoFlit /\ NorthSlot(r)
  THEN IntoNorth([r EXCEPT !.corner = NoFlit], r.corner) ELSE r

WestInput(n, r) ==
  CASE r.inWest = NoFlit -> r
    [] r.inWest # NoFlit /\ r.inWest.dest = n -> ToCoreOrLost(r, r.inWest)
    [] r.inWest # NoFlit /\ r.inWest.dest # n /\ InColumn(n, r.inWest) ->
         IntoCorner(r, r.inWest)
    [] OTHER -> IntoEast(r, r.inWest)

\* South to core or to north.
SouthTurn(n, r) ==
  CASE r.inSouth = NoFlit -> r
    [] r.inSouth # NoFlit /\ r.inSouth.dest = n -> ToCoreOrLost(r, r.inSouth)
    [] OTHER -> IntoNorth(r, r.inSouth)

\* pnoa_route_one_cycle of node n.
Cycle(n) ==
  LET core == CoreInput(n, NewRound(Updated(ctx[n])))
      west == WestInput(n, CornerInput(core))
  IN [SouthTurn(n, west) EXCEPT !.currentCycle = @ + 1]

RouteAll == RouteWith(Cycle, Handover)
Working == WorkingWith(Cycle, Handover)
Send(f) == SendFlit(f)
Recv(f) == RecvFlit(f)
Holds(n) == Store(n) \o <<ctx[n].corner>>
\* A flit that was sent is in one place of one router until it is received or
\* lost, and then in none.
Conservation == Conserved([n \in Node |-> Holds(n)])
=============================================================================
