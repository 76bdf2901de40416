--------------------------------- MODULE Pnaa ---------------------------------
(***************************************************************************)
(* The router of src/macsim/src/noc/pnaa.c: its schedule has a slot for    *)
(* every pair of nodes, and a node sends its next flit in the slot of the  *)
(* flit's destination.                                                     *)
(***************************************************************************)
EXTENDS PnNode

\* The schedule is one of square tori.
PnaaAssumption == Width = Height

Context(n) ==
  [inWest |-> NoFlit, inSouth |-> NoFlit, inCore |-> NoFlit,
   inj |-> EmptyBuffer, corner |-> [i \in 0 .. Width - 1 |-> NoFlit], core |-> EmptyBuffer,
   smallCycle |-> 0, hPhase |-> 0, hCycle |-> 0, hTimeout |-> 0,
   vCycle |-> 0, vTimeout |-> 0, vTarget |-> 0,
   outEast |-> NoFlit, outNorth |-> NoFlit, signalWest |-> FALSE,
   signalSouth |-> FALSE, outCore |-> FALSE, outCorner |-> FALSE,
   dropped |-> {}, fatal |-> FALSE]

Init == InitWith(Context)

-----------------------------------------------------------------------------
\* The schedule.

RoundTime == (Width * Width * (Width - 1)) \div 2

\* A new round of the schedule.  The timeouts go on.
NewRound(r) ==
  IF r.smallCycle # RoundTime THEN r
  ELSE [r EXCEPT !.smallCycle = 0, !.hPhase = 0, !.hCycle = 0, !.vCycle = 0]

Even(k) == k % 2 = 0

\* The number of columns a flit sent in this phase has to pass.
ColumnOffset(phase) ==
  CASE phase = Width - 1 -> Width - 1
    [] phase # Width - 1 /\ ~Even(Width) /\ phase = Width - 2 -> Width \div 2
    [] OTHER ->
         IF Even(phase) THEN Width \div 2 - phase \div 2
         ELSE IF Even(Width) THEN Width \div 2 + phase \div 2 ELSE Width \div 2 + 1

\* Mutant: the far nodes of an odd torus are counted as those of an even one.
NodeOffsetEven(cycle) ==
  IF ~Even(Width) /\ cycle = Width - 2 THEN Width \div 2
  ELSE IF Even(cycle) THEN Width \div 2 + cycle \div 2 ELSE Width \div 2 - cycle \div 2 - 1

\* The number of rows, in the slot cycle of a phase or of the vertical schedule.
NodeOffset(cycle) ==
  IF ~Even(Width) /\ cycle = Width - 2 THEN Width \div 2
  ELSE IF Even(cycle) THEN Width \div 2 + cycle \div 2 + (Width % 2)
  ELSE Width \div 2 - cycle \div 2 - 1
HorizontalOffset(cycle) == IF cycle = Width - 1 THEN 0 ELSE NodeOffset(cycle)

\* Every distance to a column, in it, and between two nodes of a column has its
\* phase or slot, so that a round serves all pairs of nodes.
ScheduleComplete ==
  /\ {ColumnOffset(p) : p \in 1 .. Width - 1} = 1 .. Width - 1
  /\ {HorizontalOffset(c) : c \in 0 .. Width - 1} = 0 .. Width - 1
  /\ {NodeOffset(c) : c \in 0 .. Width - 2} = 1 .. Width - 1

\* The node that many rows to the north of n, and that many columns to the east.
Above(n, rows) == RankOf(X(n), (Y(n) + Height - rows) % Height)
Target(n, columns, rows) == Above(RankOf((X(n) + columns) % Width, Y(n)), rows)

\* The slots of the corner buffer are those of the distances to the north.
Rows(n, fc) == (Y(n) + Height - Y(fc.dest)) % Height

-----------------------------------------------------------------------------
\* The first cycle of a round: core to corner buffer, up to Width - 1 flits,
\* until one is for another column or its slot is taken.
CoreTurn(n, r) ==
  IF r.inCore # NoFlit /\ InColumn(n, r.inCore) /\ r.corner[Rows(n, r.inCore)] = NoFlit
  THEN Updated([r EXCEPT !.corner[Rows(n, r.inCore)] = r.inCore, !.inCore = NoFlit])
  ELSE r
CoreTurns(n, r) ==
  LET after[i \in 0 .. Width - 1] == IF i = 0 THEN r ELSE CoreTurn(n, after[i - 1])
  IN IF r.hPhase = 0 THEN [after[Width - 1] EXCEPT !.hPhase = 1] ELSE r

\* Core to east, if the slot is the one of the flit's destination.
CoreEast(n, r, columns) ==
  IF r.inCore # NoFlit /\ r.inCore.dest = Target(n, columns, HorizontalOffset(r.hCycle))
  THEN [r EXCEPT !.outEast = r.inCore, !.inCore = NoFlit] ELSE r
NextSlot(r, columns) ==
  IF r.hCycle = Width - 1
  THEN [r EXCEPT !.hTimeout = columns - 1, !.hPhase = @ + 1, !.hCycle = 0]
  ELSE [r EXCEPT !.hTimeout = columns - 1, !.hCycle = @ + 1]
Horizontal(n, r) ==
  IF r.hTimeout # 0 THEN [r EXCEPT !.hTimeout = @ - 1]
  ELSE NextSlot(CoreEast(n, r, ColumnOffset(r.hPhase)), ColumnOffset(r.hPhase))

\* Corner buffer to north.
Vertical(r) ==
  LET rows == NodeOffset(r.vCycle) IN
  IF r.vTimeout # 0 THEN [r EXCEPT !.vTimeout = @ - 1, !.vTarget = 0]
  ELSE [r EXCEPT !.outNorth = r.corner[rows], !.corner[rows] = NoFlit,
                 !.vTimeout = rows - 1, !.vTarget = rows,
                 !.vCycle = IF @ = Width - 2 THEN 0 ELSE @ + 1]

\* South to core or to north.  A flit put into a place that is not free replaces
\* the one it finds there.
SouthTurn(n, r) ==
  CASE r.inSouth = NoFlit -> r
    [] r.inSouth # NoFlit /\ r.inSouth.dest = n -> ToCore(r, r.inSouth)
    [] OTHER -> [r EXCEPT !.dropped = @ \cup ({r.outNorth} \ {NoFlit}), !.outNorth = r.inSouth]

\* West to core, past the corner buffer to north, to its slot, or to east.
Bypass(n, r) ==
  r.vTarget # 0 /\ r.inWest.dest = Above(n, r.vTarget) /\ r.outNorth = NoFlit
WestTurn(n, r) ==
  LET rows == Rows(n, r.inWest) IN
  IF Bypass(n, r) THEN [r EXCEPT !.outNorth = r.inWest]
  ELSE [r EXCEPT !.dropped = @ \cup ({r.corner[rows]} \ {NoFlit}), !.corner[rows] = r.inWest]
WestInput(n, r) ==
  CASE r.inWest = NoFlit -> r
    [] r.inWest # NoFlit /\ r.inWest.dest = n -> ToCore(r, r.inWest)
    [] r.inWest # NoFlit /\ r.inWest.dest # n /\ InColumn(n, r.inWest) -> WestTurn(n, r)
    [] OTHER -> [r EXCEPT !.dropped = @ \cup ({r.outEast} \ {NoFlit}), !.outEast = r.inWest]

\* pnaa_route_one_cycle of node n.
Cycle(n) ==
  LET core == CoreTurns(n, NewRound(Updated(ctx[n])))
      sending == Vertical(Horizontal(n, core))
  IN [WestInput(n, SouthTurn(n, sending)) EXCEPT !.vTarget = 0, !.smallCycle = @ + 1]

RouteAll == RouteWith(Cycle, Handover)
Working == WorkingWith(Cycle, Handover)
Send(f) == SendFlit(f)
Recv(f) == RecvFlit(f)
Holds(n) == Store(n) \o [i \in 1 .. Width |-> ctx[n].corner[i - 1]]
\* A flit that was sent is in one place of one router until it is received or
\* lost, and then in none.
Conservation == Conserved([n \in Node |-> Holds(n)])
=============================================================================
