-------------------------------- MODULE Pnbe0 --------------------------------
(***************************************************************************)
(* The first best effort router, src/macsim/src/noc/pnbe0.c.  It differs   *)
(* from Pnbe2 in that the corner buffer comes last in a cycle, so that the *)
(* slot it frees can be used at once, and in that a block of the column    *)
(* does not concern flits for another router of the row.                   *)
(***************************************************************************)
EXTENDS PnNode

Context(n) ==
  [inWest |-> NoFlit, inSouth |-> NoFlit, inCore |-> NoFlit,
   inj |-> EmptyBuffer, corner |-> EmptyBuffer, core |-> EmptyBuffer,
   hTimers |-> NoTimers, sendBlock |-> 0, receiveTimeout |-> 0,
   sentNorth |-> FALSE, sentEast |-> FALSE,
   isSignaledNorth |-> FALSE, isSignaledEast |-> FALSE,
   outEast |-> NoFlit, outNorth |-> NoFlit, signalWest |-> FALSE,
   signalSouth |-> FALSE, outCore |-> FALSE, outCorner |-> FALSE,
   hBlocked |-> FALSE, forwarded |-> FALSE, justInjected |-> 0,
   delayedWest |-> FALSE, delayedCore |-> FALSE,
   dropped |-> {}, fatal |-> FALSE]

Init == InitWith(Context)

\* h_blocked is decided before anything else.
Blocked(n, r) == [r EXCEPT !.hBlocked = r.hTimers[X(n)] # 0]

\* A full corner buffer frees a slot at the end of the cycle.
WillFree(r) == r.outNorth = NoFlit /\ ~MustPassNorth(r)
IntoCorner(r, fc) ==
  [r EXCEPT !.corner = Append(@, fc), !.justInjected = @ + 1]

\* West to corner buffer, at once or at the end of the cycle, or another round.
WestTurn(n, r) ==
  CASE HasSlot(r.corner, CornerSize) -> [IntoCorner(r, r.inWest) EXCEPT !.outCorner = TRUE]
    [] ~HasSlot(r.corner, CornerSize) /\ WillFree(r) ->
         [r EXCEPT !.delayedWest = TRUE, !.outCorner = TRUE]
    [] OTHER -> [r EXCEPT !.outEast = [r.inWest EXCEPT !.marked = TRUE],
                          !.hTimers[X(n)] = Width]

\* West to core, unless a flit came from the south or one was refused before.
\* A conflict closes the ejection for a round, except in a blocked router.
WestInput(n, r) ==
  LET fc == r.inWest IN
  CASE fc = NoFlit -> r
    [] fc # NoFlit /\ fc.dest = n /\ ~r.outCore /\ r.receiveTimeout = 0 -> ToCore(r, fc)
    [] fc # NoFlit /\ fc.dest = n /\ ~r.hBlocked /\ r.outCore /\ r.receiveTimeout = 0 ->
         [r EXCEPT !.outEast = fc, !.receiveTimeout = Width]
    [] fc # NoFlit /\ fc.dest # n /\ InColumn(n, fc) /\ ~r.hBlocked -> WestTurn(n, r)
    [] OTHER -> [r EXCEPT !.outEast = fc, !.forwarded = r.hBlocked]

\* Core to corner buffer, at once or at the end of the cycle.
CoreTurn(r) ==
  CASE r.hBlocked \/ r.outCorner -> r
    [] ~r.hBlocked /\ ~r.outCorner /\ HasSlot(r.corner, CornerSize) ->
         [IntoCorner(r, r.inCore) EXCEPT !.inCore = NoFlit]
    [] OTHER -> IF ~r.delayedWest /\ ~MustPassNorth(r)
                THEN [r EXCEPT !.delayedCore = TRUE] ELSE [r EXCEPT !.signalWest = TRUE]

\* A flit from the west that wants to go east is in the way.  One that had to
\* go east because the router is blocked, or that belongs into this column, is
\* not, although it has taken the output: the core's flit replaces it.
InTheWay(n, r) == r.inWest # NoFlit /\ ~InColumn(n, r.inWest) /\ ~r.forwarded

\* Core to east.  sendBlock holds back flits for the row, the timer of their
\* column those for other rows.
Held(n, r) ==
  IF Y(r.inCore.dest) = Y(n) THEN r.sendBlock # 0 ELSE r.hTimers[X(r.inCore.dest)] # 0
CoreEast(n, r) ==
  CASE Held(n, r) -> [r EXCEPT !.sentEast = @ /\ r.outEast # NoFlit]
    [] ~Held(n, r) /\ InTheWay(n, r) -> [r EXCEPT !.signalWest = TRUE]
    [] ~Held(n, r) /\ ~InTheWay(n, r) /\ MustPassEast(r) ->
         [r EXCEPT !.sentEast = FALSE, !.signalWest = TRUE]
    [] OTHER -> [r EXCEPT !.dropped = {r.outEast} \ {NoFlit}, !.outEast = r.inCore,
                          !.inCore = NoFlit, !.sentEast = TRUE]
CoreInput(n, r) ==
  CASE r.inCore = NoFlit -> NoCoreInput(r)
    [] r.inCore # NoFlit /\ InColumn(n, r.inCore) -> CoreTurn(r)
    [] OTHER -> CoreEast(n, r)

\* Corner buffer to north, and the delayed flit into the slot that gets free.
CornerSend(r) ==
  LET sending == [r EXCEPT !.outNorth = Head(r.corner), !.corner = Tail(@), !.sentNorth = TRUE]
  IN CASE r.delayedWest -> [sending EXCEPT !.corner = Enqueued(@, CornerSize, r.inWest)]
       [] ~r.delayedWest /\ r.delayedCore ->
            [sending EXCEPT !.corner = Enqueued(@, CornerSize, r.inCore), !.inCore = NoFlit]
       [] OTHER -> sending
CornerInput(r) ==
  CASE Len(r.corner) # r.justInjected /\ r.outNorth # NoFlit -> [r EXCEPT !.signalSouth = TRUE]
    [] Len(r.corner) # r.justInjected /\ r.outNorth = NoFlit /\ ~MustPassNorth(r) ->
         CornerSend(r)
    [] Len(r.corner) = r.justInjected /\ r.outNorth # NoFlit ->
         [r EXCEPT !.signalSouth = r.isSignaledNorth]
    [] OTHER -> [r EXCEPT !.sentNorth = FALSE]

\* The flags of the cycle.
Cleared(r) ==
  [r EXCEPT !.hBlocked = FALSE, !.forwarded = FALSE, !.justInjected = 0,
            !.delayedWest = FALSE, !.delayedCore = FALSE]

\* pnbe0_route_one_cycle of node n.
Cycle(n) ==
  LET start == OwnFlit(n, Remembered(n, Blocked(n, Updated(ctx[n]))))
      core == CoreInput(n, WestInput(n, SouthInput(n, start)))
  IN Cleared(Timeouts(CornerInput(core)))

RouteAll == RouteWith(Cycle, Signaled)
Working == WorkingWith(Cycle, Signaled)
Send(f) == SendFlit(f)
Recv(f) == RecvFlit(f)
Holds(n) == Store(n) \o ctx[n].corner
\* A flit that was sent is in one place of one router until it is received or
\* replaced by a flit of a core, and then in none.
Conservation == Conserved([n \in Node |-> Holds(n)])
=============================================================================
