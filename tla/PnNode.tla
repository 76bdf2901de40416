-------------------------------- MODULE PnNode --------------------------------
(***************************************************************************)
(* The common parts of the PaterNoster routers pnbe0, pnbe1, pnbe2, caerus,*)
(* pnoa and pnaa of src/macsim/src/noc: a queue between the core and its   *)
(* router, a buffer with what has arrived for the core, and the end of a   *)
(* cycle, when the router that is simulated last hands the outputs of all  *)
(* routers to their neighbours.                                            *)
(*                                                                         *)
(* A router module describes one cycle of router n as a chain of functions *)
(* on its context r, in the order of the code.  The context holds the      *)
(* outputs and the locals of the cycle too; they are cleared at its end.   *)
(***************************************************************************)
EXTENDS Flits

CONSTANTS
  InjSize, CornerSize, CoreSize,  \* the sizes of the buffers
  Marks    \* h_marked of a new flit: nothing sets it before it is read, it is
           \* what the memory that malloc returns holds at its place

VARIABLES
  ctx,        \* noc_context of every node
  sent, got,  \* history: number of flits sent, the numbers of those received
  lost,       \* history: the flits that did not fit into the core buffer
  stopped     \* fatal() has ended the simulation

vars == <<ctx, sent, got, lost, stopped>>

InitWith(Context(_)) ==
  /\ ctx = [n \in Node |-> Context(n)]
  /\ sent = [f \in Flows |-> 0]
  /\ got = [f \in Flows |-> {}]
  /\ lost = {}
  /\ stopped = FALSE

\* *_updateInjectionQueue: the next flit is prepared.  The code does so at the
\* begin of a cycle, when it sends and when it tells whether it can send; as the
\* others update first too, the last of these is not an action of its own.
Updated(r) ==
  IF r.inCore # NoFlit THEN r
  ELSE [r EXCEPT !.inCore = Oldest(r.inj), !.inj = Dequeued(r.inj)]

\* *_send_flit, when it returns true.
SendFlit(f) ==
  LET r == Updated(ctx[f[1]]) IN
  /\ ~stopped /\ sent[f] < MaxFlits /\ HasSlot(r.inj, InjSize)
  /\ \E m \in Marks :
       ctx' = [ctx EXCEPT ![f[1]] = [r EXCEPT !.inj =
         Append(@, [src |-> f[1], dest |-> f[2], seq |-> sent[f] + 1, marked |-> m])]]
  /\ sent' = [sent EXCEPT ![f] = @ + 1]
  /\ UNCHANGED <<got, lost, stopped>>

\* *_recv_flit, when it returns true.
RecvFlit(f) ==
  LET q == ctx[f[2]].core IN
  /\ ~stopped /\ FirstFrom(q, f[1]) # 0
  /\ ctx' = [ctx EXCEPT ![f[2]].core = WithoutFirstFrom(@, f[1])]
  /\ got' = [got EXCEPT ![f] = @ \cup {q[FirstFrom(q, f[1])].seq}]
  /\ UNCHANGED <<sent, lost, stopped>>

-----------------------------------------------------------------------------
\* A flit for the core; the simulation ends if its buffer is full.
ToCore(r, fc) ==
  IF HasSlot(r.core, CoreSize)
  THEN [r EXCEPT !.core = Append(@, fc), !.outCore = TRUE]
  ELSE [r EXCEPT !.fatal = TRUE]

\* A flit for the core; it is lost, with a message, if its buffer is full.
ToCoreOrLost(r, fc) ==
  IF HasSlot(r.core, CoreSize)
  THEN [r EXCEPT !.core = Append(@, fc), !.outCore = TRUE]
  ELSE [r EXCEPT !.dropped = @ \cup {fc}, !.outCore = TRUE]

InColumn(n, fc) == X(fc.dest) = X(n)
Counted(t) == [i \in DOMAIN t |-> Dec(t[i])]
NoTimers == [i \in 0 .. Width - 1 |-> 0]

\* A free slot must be let pass: a node down the ring has asked for one, and
\* this node has used the last one.
MustPassNorth(r) == r.isSignaledNorth /\ r.sentNorth
MustPassEast(r) == r.isSignaledEast /\ r.sentEast

\* The south input of pnbe1, pnbe2 and caerus.
SouthInput(n, r) ==
  CASE r.inSouth = NoFlit -> r
    [] r.inSouth # NoFlit /\ r.inSouth.dest = n -> ToCore(r, r.inSouth)
    [] OTHER -> [r EXCEPT !.outNorth = r.inSouth]

\* The corner buffer of pnbe1 and pnbe2: a flit of it goes north, or a slot is
\* let pass, or one is asked for.
CornerToNorth(r) ==
  CASE r.outNorth = NoFlit /\ r.corner # EmptyBuffer /\ ~MustPassNorth(r) ->
         [r EXCEPT !.outNorth = Head(r.corner), !.corner = Tail(@), !.sentNorth = TRUE]
    [] r.outNorth = NoFlit /\ (r.corner = EmptyBuffer \/ MustPassNorth(r)) ->
         [r EXCEPT !.sentNorth = FALSE]
    [] OTHER ->
         [r EXCEPT !.signalSouth = r.corner # EmptyBuffer \/ r.isSignaledNorth]

\* The west input remembers that the column of a marked flit was full.
Remembered(n, r) ==
  IF r.inWest # NoFlit /\ r.inWest.marked /\ ~InColumn(n, r.inWest)
  THEN [r EXCEPT !.hTimers[X(r.inWest.dest)] = Width] ELSE r

\* An own flit has taken another round, in pnbe0 and pnbe2.
OwnFlit(n, r) ==
  IF r.inWest # NoFlit /\ r.inWest.src = n THEN [r EXCEPT !.sendBlock = Width] ELSE r

\* West to corner buffer in pnbe1 and pnbe2.  The flag out_corner is set even
\* if the buffer was full.
WestToCorner(n, r) ==
  CASE r.hTimers[X(n)] # 0 -> [r EXCEPT !.outEast = r.inWest]
    [] r.hTimers[X(n)] = 0 /\ HasSlot(r.corner, CornerSize) ->
         [r EXCEPT !.corner = Append(@, r.inWest), !.outCorner = TRUE]
    [] OTHER ->
         [r EXCEPT !.outEast = [r.inWest EXCEPT !.marked = TRUE],
                   !.hTimers[X(n)] = Width, !.outCorner = TRUE]

\* Core to corner buffer in pnbe1 and pnbe2.
CoreToCorner(n, r) ==
  CASE r.outCorner -> [r EXCEPT !.signalWest = TRUE]
    [] ~r.outCorner /\ r.hTimers[X(n)] = 0 /\ HasSlot(r.corner, CornerSize) ->
         [r EXCEPT !.corner = Append(@, r.inCore), !.inCore = NoFlit]
    [] OTHER -> r

\* Core to east, allowed unless a timer forbids it, in pnbe1, pnbe2 and caerus.
CoreToEast(r, allowed) ==
  CASE r.outEast = NoFlit /\ allowed /\ ~MustPassEast(r) ->
         [r EXCEPT !.outEast = r.inCore, !.inCore = NoFlit, !.sentEast = TRUE]
    [] r.outEast = NoFlit /\ ~(allowed /\ ~MustPassEast(r)) -> [r EXCEPT !.sentEast = FALSE]
    [] OTHER -> [r EXCEPT !.signalWest = r.isSignaledEast \/ allowed]

\* There is nothing to inject: a free slot passes, or a signal is passed on.
NoCoreInput(r) ==
  IF r.outEast = NoFlit THEN [r EXCEPT !.sentEast = FALSE]
  ELSE [r EXCEPT !.signalWest = r.isSignaledEast]

\* The end of a cycle of pnbe0 and pnbe2.
Timeouts(r) ==
  [r EXCEPT !.hTimers = Counted(@), !.sendBlock = Dec(@), !.receiveTimeout = Dec(@)]

-----------------------------------------------------------------------------
\* The end of a cycle, done by the last node.  c is the context of every node
\* after its cycle.
Handover(c, n) ==
  [c[n] EXCEPT !.inSouth = c[South(n)].outNorth, !.inWest = c[West(n)].outEast,
               !.outNorth = NoFlit, !.outEast = NoFlit,
               !.signalWest = FALSE, !.signalSouth = FALSE,
               !.outCore = FALSE, !.outCorner = FALSE, !.dropped = {}]

\* signalWesternNode and signalSouthernNode.
Signaled(c, n) ==
  [Handover(c, n) EXCEPT !.isSignaledEast = c[East(n)].signalWest,
                         !.isSignaledNorth = c[North(n)].signalSouth]

\* noc_route_all: the cycles of all nodes, then the exchange.
RouteWith(Cycle(_), Exchanged(_, _)) ==
  /\ ~stopped
  /\ \E c \in {[n \in Node |-> Cycle(n)]} :
       IF \E n \in Node : c[n].fatal
       THEN stopped' = TRUE /\ UNCHANGED <<ctx, lost>>
       ELSE /\ ctx' = [n \in Node |-> Exchanged(c, n)]
            /\ lost' = lost \cup UNION {c[n].dropped : n \in Node}
            /\ UNCHANGED stopped
  /\ UNCHANGED <<sent, got>>

\* ENABLED <<RouteWith(Cycle, Exchanged)>>_vars.
WorkingWith(Cycle(_), Exchanged(_, _)) ==
  LET c == [n \in Node |-> Cycle(n)]
  IN ~stopped /\ \E n \in Node : c[n].fatal \/ Exchanged(c, n) # ctx[n]

\* The flits in the inputs and buffers of router n.
Store(n) == <<ctx[n].inWest, ctx[n].inSouth, ctx[n].inCore>>
            \o ctx[n].inj \o ctx[n].core

\* Every flit that was sent and neither received nor lost is in one place of one
\* router, and one that is received or lost in none.  held[n] lists the flits of
\* router n, each as often as it is there.
IsLost(f, k) == \E fc \in lost : IsFlit(fc, f, k)
Conserved(held) ==
  \A f \in Flows : \A k \in 1 .. sent[f] :
    Copies(held, f, k) = IF k \in got[f] \/ IsLost(f, k) THEN 0 ELSE 1
=============================================================================
