-------------------------------- MODULE Caerus --------------------------------
(***************************************************************************)
(* The router of src/macsim/src/noc/caerus.c.  The corner buffers of the   *)
(* rows take turns in sending north instead of asking for slots.           *)
(***************************************************************************)
EXTENDS PnNode

CONSTANT CounterThreshold   \* COUNTER_THRESHOLD

\* dest & conf_noc_width is read bit by bit here.
CaerusAssumption == \E k \in 0 .. Width : Width = 2 ^ k

Context(n) ==
  [inWest |-> NoFlit, inSouth |-> NoFlit, inCore |-> NoFlit,
   inj |-> EmptyBuffer, corner |-> EmptyBuffer, core |-> EmptyBuffer,
   hTimers |-> NoTimers, cornerON |-> Y(n) % 2 = 0, cornerCounter |-> 0,
   sentEast |-> FALSE, isSignaledEast |-> FALSE,
   outEast |-> NoFlit, outNorth |-> NoFlit, signalWest |-> FALSE,
   signalSouth |-> FALSE, outCore |-> FALSE, outCorner |-> FALSE,
   dropped |-> {}, fatal |-> FALSE]

Init == InitWith(Context)

\* Corner buffer to core, where the flit is lost if there is no room, or north.
CornerOpen(r) ==
  \/ r.cornerON
  \/ CornerSize - Len(r.corner) < Width \div 2
  \/ r.cornerCounter = 0
CornerOut(n, r) ==
  CASE r.corner = EmptyBuffer \/ ~CornerOpen(r) -> r
    [] r.corner # EmptyBuffer /\ CornerOpen(r) /\ Oldest(r.corner).dest = n /\ ~r.outCore ->
         ToCoreOrLost([r EXCEPT !.corner = Tail(@)], Head(r.corner))
    [] OTHER ->
         IF r.outNorth # NoFlit THEN r
         ELSE [r EXCEPT !.outNorth = Head(r.corner), !.corner = Tail(@)]

\* cornerON changes when the counter is full.
CornerCounted(r) ==
  IF r.cornerCounter = CounterThreshold
  THEN [r EXCEPT !.cornerCounter = 0, !.cornerON = ~@]
  ELSE [r EXCEPT !.cornerCounter = @ + 1]

\* A marked flit is remembered at the index dest & conf_noc_width: 0, or Width,
\* which is the padding behind the array.
RememberedBit(n, r) ==
  IF /\ r.inWest # NoFlit /\ r.inWest.marked /\ ~InColumn(n, r.inWest)
     /\ (r.inWest.dest \div Width) % 2 = 0
  THEN [r EXCEPT !.hTimers[0] = Width] ELSE r

\* West to corner buffer, or to east.
WestInput(n, r) ==
  CASE r.inWest = NoFlit -> r
    [] r.inWest # NoFlit /\ (~InColumn(n, r.inWest) \/ r.hTimers[X(n)] # 0) ->
         [r EXCEPT !.outEast = r.inWest]
    [] OTHER ->
         IF HasSlot(r.corner, CornerSize)
         THEN [r EXCEPT !.corner = Append(@, r.inWest), !.outCorner = TRUE]
         ELSE [r EXCEPT !.outEast = [r.inWest EXCEPT !.marked = TRUE],
                        !.hTimers[X(n)] = Width]

\* Core to corner buffer, or to east.
CoreTurn(n, r) ==
  CASE r.hTimers[X(n)] = 0 /\ r.outCorner -> [r EXCEPT !.signalWest = TRUE]
    [] r.hTimers[X(n)] = 0 /\ ~r.outCorner /\ HasSlot(r.corner, CornerSize) ->
         [r EXCEPT !.corner = Append(@, r.inCore), !.inCore = NoFlit]
    [] OTHER -> r
CoreInput(n, r) ==
  CASE r.inCore = NoFlit -> NoCoreInput(r)
    [] r.inCore # NoFlit /\ InColumn(n, r.inCore) -> CoreTurn(n, r)
    [] OTHER -> CoreToEast(r, r.hTimers[X(r.inCore.dest)] = 0)

\* caerus_route_one_cycle of node n.
Cycle(n) ==
  LET corner == CornerCounted(CornerOut(n, SouthInput(n, Updated(ctx[n]))))
      west == WestInput(n, RememberedBit(n, corner))
  IN [CoreInput(n, west) EXCEPT !.hTimers = Counted(@)]

\* caerus_signalWesternNode.
Exchanged(c, n) == [Handover(c, n) EXCEPT !.isSignaledEast = c[East(n)].signalWest]

RouteAll == RouteWith(Cycle, Exchanged)
Working == WorkingWith(Cycle, Exchanged)
Send(f) == SendFlit(f)
Recv(f) == RecvFlit(f)
Holds(n) == Store(n) \o ctx[n].corner
\* A flit that was sent is in one place of one router until it is received or
\* dropped at a full core buffer, and then in none.
Conservation == Conserved([n \in Node |-> Holds(n)])
=============================================================================
