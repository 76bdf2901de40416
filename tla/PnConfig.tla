------------------------------- MODULE PnConfig -------------------------------
(***************************************************************************)
(* The configurable PaterNoster router, src/macsim/src/noc/pnconfig.c.     *)
(*                                                                         *)
(* Every column of the torus is a ring that carries flits north, every row *)
(* one that carries them east.  A flit is injected into its row, leaves it *)
(* at the column of its destination for the corner buffer, is injected     *)
(* into the column and ejected at the row of its destination.  A flit that *)
(* cannot leave a ring is deflected: it takes another round, and timers    *)
(* stop ejections and injections that would overtake it.                   *)
(*                                                                         *)
(* One step RouteAll is pnconfig_route_all, one cycle of all routers.      *)
(* Between two cycles the cores call pnconfig_send_flit and _recv_flit; a  *)
(* core makes at most one such call per cycle, the model allows any number.*)
(***************************************************************************)
EXTENDS Torus, Sequences, FiniteSetsExt

CONSTANTS
  SendSize, RecvSize, CornerSize,  \* conf_send_fifo_size, ...
  BypassX,           \* conf_bypass_x: "none", "unbuf" or "buf"
  BypassY,           \* conf_bypass_y: these, "2unbuf" or "2buf"
  StallX, StallY,    \* conf_stall_*: "cheap" or "exp"
  InjectX, InjectY,  \* conf_inject_*: "none", "request" or "alternate"
  Flows,             \* the pairs <<src, dest>> that exchange flits
  MaxFlits,          \* the number of flits each of them exchanges
  NoFlit             \* an output, a slot or a wire without a flit

Flit == [src : Node, dest : Node, seq : 1 .. MaxFlits]

ASSUME PnAssumption ==
  /\ SendSize \in Nat /\ RecvSize \in Nat /\ CornerSize \in Nat
  /\ BypassX \in {"none", "unbuf", "buf"}
  /\ BypassY \in {"none", "unbuf", "buf", "2unbuf", "2buf"}
  /\ StallX \in {"cheap", "exp"} /\ StallY \in {"cheap", "exp"}
  /\ InjectX \in {"none", "request", "alternate"}
  /\ InjectY \in {"none", "request", "alternate"}
  /\ Flows \subseteq Node \X Node
  /\ MaxFlits \in Nat
  /\ NoFlit \notin Flit

VARIABLES
  sendFifo, recvFifo, cornerFifo,  \* the flits in the buffers, oldest first
  delay,              \* recv_slot_delay: slots 0 and 1; slot 2 is empty
                      \* between cycles
  sendFull, recvFull, \* send_fifo_full_last_cycle, recv_fifo_full_last_cycle
  inSouth, inWest,    \* the input registers: a flit and its deflected bit
  stallY, stallX,     \* the stall timers of the column and of the row
  injectY, injectX,   \* the state of the injection policies
  sent, got,          \* history: flits sent, the numbers of those received
  aborted             \* an assert has failed and the simulator has stopped

buffers == <<sendFifo, recvFifo, cornerFifo, delay, sendFull, recvFull>>
rings == <<inSouth, inWest, stallY, stallX, injectY, injectX>>
vars == <<buffers, rings, sent, got, aborted>>

-----------------------------------------------------------------------------
\* The stall timers of one ring.  eject is stall_south or stall_west, inject is
\* stall_north or stall_east, ring is stall_y or stall_x and per is
\* stall_per_y_dest or stall_per_x_dest.

Dec(k) == IF k = 0 THEN 0 ELSE k - 1

\* Mutant: stall_per_y_dest is set after the loop that decrements it.
NextStallUndecremented(s, late, own, dest, len, policy) ==
  [eject  |-> Dec(s.eject),
   ring   |-> IF late /\ own THEN len ELSE Dec(s.ring),
   inject |-> IF policy = "cheap" /\ late /\ s.inject = 0 THEN len ELSE Dec(s.inject),
   per    |-> [i \in 0 .. len - 1 |->
                 IF policy = "exp" /\ late /\ i = dest /\ s.per[i] = 0
                 THEN len + 1 ELSE Dec(s.per[i])]]

\* Mutant: stall_y and stall_x are not set by a returning deflected flit.
NextStallForgetsRing(s, late, own, dest, len, policy) ==
  [eject  |-> Dec(s.eject),
   ring   |-> Dec(s.ring),
   inject |-> IF policy = "cheap" /\ late /\ s.inject = 0 THEN len ELSE Dec(s.inject),
   per    |-> [i \in 0 .. len - 1 |->
                 IF policy = "exp" /\ late /\ i = dest /\ s.per[i] = 0
                 THEN len ELSE Dec(s.per[i])]]

\* late: the arriving flit is deflected; own: it was injected here.
NextStall(s, late, own, dest, len, policy) ==
  [eject  |-> Dec(s.eject),
   ring   |-> IF late /\ own THEN len ELSE Dec(s.ring),
   inject |-> IF policy = "cheap" /\ late /\ s.inject = 0 THEN len ELSE Dec(s.inject),
   per    |-> [i \in 0 .. len - 1 |->
                 IF policy = "exp" /\ late /\ i = dest /\ s.per[i] = 0
                 THEN len ELSE Dec(s.per[i])]]

\* Mutant: injections do not wait for the flits that were deflected elsewhere.
StallsNever(s, i) == FALSE

\* STALL_NORTH and STALL_EAST: no injection towards dest behind a deflected flit.
Stalls(s, i) == s.inject # 0 \/ s.per[i] # 0

TimersY(n) ==
  NextStall(stallY[n], inSouth[n].deflected, Y(inSouth[n].fc.src) = Y(n),
            Y(inSouth[n].fc.dest), Height, StallY)
TimersX(n) ==
  NextStall(stallX[n], inWest[n].deflected, X(inWest[n].fc.src) = X(n),
            X(inWest[n].fc.dest), Width, StallX)

-----------------------------------------------------------------------------
\* The injection policies.  request is request_from_north or _east, wire is
\* in_north_request or in_east_request, asked is already_requested_south or
\* _west.  The code keeps all of them under every policy; they are only read
\* under the one they belong to, and the model leaves them alone otherwise.

Requested(i, policy) == policy = "request" /\ (i.request \/ i.wire)

Allowed(i, policy, period) ==
  CASE policy = "none" -> TRUE
    [] policy = "request" -> i.myTurn \/ ~Requested(i, policy)
    [] policy = "alternate" -> i.counter >= period

AllowedY(n) == Allowed(injectY[n], InjectY, Height \div 2)
AllowedX(n) == Allowed(injectX[n], InjectX, Width \div 2)

\* The counter of CONF_INJECT_ALTERNATE.  With a period of 0 it underflows and
\* is always large enough; 0 stands for that.
NextCounter(c, period) ==
  IF period = 0 THEN 0 ELSE (IF c = 0 THEN 2 * period ELSE c) - 1

\* injected: a flit was injected; idle: the ring's output stays empty.
NextTurn(i, policy, period, valid, injected, idle, waiting) ==
  LET asked == i.asked /\ valid
      request == Requested(i, policy) /\ ~idle
      asks == ~asked /\ (waiting \/ request)
  IN CASE policy = "none" -> i
       [] policy = "alternate" -> [i EXCEPT !.counter = NextCounter(@, period)]
       [] policy = "request" ->
            [i EXCEPT !.request = request,
                      !.myTurn = idle \/ (@ /\ ~injected),
                      !.asked = asked \/ asks,
                      !.asks = asks]

-----------------------------------------------------------------------------
\* The decisions of router_one_cycle for router n.

CornerFull(n) == Len(cornerFifo[n]) >= CornerSize

\* South to north.
SouthArrives(n) == inSouth[n].fc # NoFlit /\ Y(inSouth[n].fc.dest) = Y(n)
EjectSouth(n) == SouthArrives(n) /\ TimersY(n).eject = 0 /\ ~recvFull[n]
NorthTaken(n) == inSouth[n].fc # NoFlit /\ ~EjectSouth(n)

\* Mutant: without the special case without bypass.
InjectCornerAnyTime(n) ==
  /\ cornerFifo[n] # <<>>
  /\ AllowedY(n)
  /\ BypassY \in {"buf", "2buf"} => Head(cornerFifo[n]).dest # n
  /\ TimersY(n).ring = 0
  /\ ~Stalls(TimersY(n), Y(Head(cornerFifo[n]).dest))
  /\ ~NorthTaken(n)

\* Corner buffer to north.
InjectCorner(n) ==
  /\ cornerFifo[n] # <<>>
  /\ AllowedY(n)
  /\ BypassY \in {"buf", "2buf"} => Head(cornerFifo[n]).dest # n
  /\ TimersY(n).ring = 0
  /\ ~Stalls(TimersY(n), Y(Head(cornerFifo[n]).dest))
  /\ BypassY = "none" => TimersY(n).eject = 0
  /\ ~NorthTaken(n)

\* West to local, corner buffer or east.
WestArrives(n) == inWest[n].fc # NoFlit /\ X(inWest[n].fc.dest) = X(n)
MayLeaveRow(n) == WestArrives(n) /\ TimersX(n).eject = 0
InRow(n) == Y(inWest[n].fc.dest) = Y(n)
NoDoubleEject(n) ==
  \/ ~EjectSouth(n) /\ Len(recvFifo[n]) >= RecvSize
  \/ Len(recvFifo[n]) + 2 > RecvSize

EjectWest(n) ==
  MayLeaveRow(n) /\ InRow(n) /\ BypassY = "unbuf" /\ ~recvFull[n] /\ ~EjectSouth(n)
EjectWest2(n) ==
  MayLeaveRow(n) /\ InRow(n) /\ BypassY = "2unbuf" /\ ~NoDoubleEject(n)
TurnWest(n) ==
  /\ MayLeaveRow(n) /\ ~CornerFull(n)
  /\ ~(InRow(n) /\ BypassY \in {"unbuf", "2unbuf"})
LeavesRow(n) == EjectWest(n) \/ EjectWest2(n) \/ TurnWest(n)
EastTaken(n) == inWest[n].fc # NoFlit /\ ~LeavesRow(n)

\* Corner buffer to local, with the buffered bypasses.
CornerArrived(n) == cornerFifo[n] # <<>> /\ Head(cornerFifo[n]).dest = n
EjectCorner(n) ==
  /\ CornerArrived(n) /\ BypassY = "buf"
  /\ ~recvFull[n] /\ ~InjectCorner(n) /\ ~EjectSouth(n) /\ ~EjectWest(n)
EjectCorner2(n) ==
  CornerArrived(n) /\ BypassY = "2buf" /\ ~NoDoubleEject(n) /\ ~InjectCorner(n)

\* Send buffer to north (unbuffered bypass), corner buffer (buffered) or east.
InColumn(n) == X(Head(sendFifo[n]).dest) = X(n)
SendNorth(n) ==
  /\ sendFifo[n] # <<>> /\ InColumn(n) /\ BypassX = "unbuf"
  /\ AllowedY(n)
  /\ TimersY(n).ring = 0
  /\ ~Stalls(TimersY(n), Y(Head(sendFifo[n]).dest))
  /\ ~NorthTaken(n) /\ ~InjectCorner(n)
SendCorner(n) ==
  /\ sendFifo[n] # <<>> /\ InColumn(n) /\ BypassX = "buf"
  /\ ~CornerFull(n) /\ ~TurnWest(n)
SendEast(n) ==
  /\ sendFifo[n] # <<>> /\ (InColumn(n) => BypassX = "none")
  /\ AllowedX(n)
  /\ TimersX(n).ring = 0
  /\ ~Stalls(TimersX(n), X(Head(sendFifo[n]).dest))
  /\ InColumn(n) => TimersX(n).eject = 0
  /\ ~EastTaken(n)

-----------------------------------------------------------------------------
\* The outputs and buffers after the decisions.

Wire(fc, deflected) == [fc |-> fc, deflected |-> deflected]

OutNorth(n) ==
  CASE NorthTaken(n) ->
         Wire(inSouth[n].fc, inSouth[n].deflected \/ SouthArrives(n))
    [] SendNorth(n) -> Wire(Head(sendFifo[n]), FALSE)
    [] InjectCorner(n) -> Wire(Head(cornerFifo[n]), FALSE)
    [] OTHER -> Wire(NoFlit, FALSE)

OutEast(n) ==
  CASE EastTaken(n) -> Wire(inWest[n].fc, inWest[n].deflected \/ WestArrives(n))
    [] SendEast(n) -> Wire(Head(sendFifo[n]), FALSE)
    [] OTHER -> Wire(NoFlit, FALSE)

\* Mutants: the round without ejections never starts, or starts again with
\* every flit that is deflected because of it.
StallXAfterNone(n) == TimersX(n)
StallXAfterAny(n) ==
  IF WestArrives(n) /\ ~LeavesRow(n)
  THEN [TimersX(n) EXCEPT !.eject = Width] ELSE TimersX(n)
StallYAfterAny(n) ==
  IF SouthArrives(n) /\ ~EjectSouth(n)
  THEN [TimersY(n) EXCEPT !.eject = Height] ELSE TimersY(n)

\* stall_south and stall_west: no ejection for one round after a deflection.
StallYAfter(n) ==
  IF SouthArrives(n) /\ TimersY(n).eject = 0 /\ ~EjectSouth(n)
  THEN [TimersY(n) EXCEPT !.eject = Height] ELSE TimersY(n)
StallXAfter(n) ==
  IF MayLeaveRow(n) /\ ~LeavesRow(n)
  THEN [TimersX(n) EXCEPT !.eject = Width] ELSE TimersX(n)

SendAfter(n) ==
  IF SendNorth(n) \/ SendCorner(n) \/ SendEast(n)
  THEN Tail(sendFifo[n]) ELSE sendFifo[n]

\* Mutant: a flit that is ejected from the corner buffer stays in it.
CornerLeftKeeps(n) == IF InjectCorner(n) THEN Tail(cornerFifo[n]) ELSE cornerFifo[n]

CornerLeft(n) ==
  IF InjectCorner(n) \/ EjectCorner(n) \/ EjectCorner2(n)
  THEN Tail(cornerFifo[n]) ELSE cornerFifo[n]
ToCorner(n) ==
  CASE TurnWest(n) -> inWest[n].fc
    [] SendCorner(n) -> Head(sendFifo[n])
    [] OTHER -> NoFlit

\* The ejection port that goes through recv_slot_delay, and the second one of
\* the double ejection that goes to the receive buffer at once.
ToLocal(n) ==
  CASE EjectSouth(n) -> inSouth[n].fc
    [] EjectWest(n) -> inWest[n].fc
    [] EjectCorner(n) -> Head(cornerFifo[n])
    [] OTHER -> NoFlit
ToLocal2(n) ==
  CASE EjectWest2(n) -> inWest[n].fc
    [] EjectCorner2(n) -> Head(cornerFifo[n])
    [] OTHER -> NoFlit

\* flitslotdelay_insert into slot 2, then flitslotdelay_step.
DelayAfter(n) == [i \in {0, 1} |-> IF i = 0 THEN delay[n][1] ELSE ToLocal(n)]

\* flitfifo_insert of the flit fc, if there is one.
Inserted(q, fc) == IF fc = NoFlit THEN q ELSE Append(q, fc)
RecvWith2(n) == Inserted(recvFifo[n], ToLocal2(n))
RecvAfter(n) == Inserted(RecvWith2(n), delay[n][0])

\* Mutant: flitfifo_full, without the place for a flit in the delay.
AlmostFullLate(count, size) == count >= size

\* count >= size - 1, with the unsigned wrap of a size of 0.
AlmostFull(count, size) == size # 0 /\ count >= size - 1
Occupied(fc) == IF fc = NoFlit THEN 0 ELSE 1

\* One of the assert(flitfifo_insert(...)) of router_one_cycle fails.
Asserts(n) ==
  \/ ToLocal2(n) # NoFlit /\ Len(recvFifo[n]) >= RecvSize
  \/ delay[n][0] # NoFlit /\ Len(RecvWith2(n)) >= RecvSize
  \/ ToCorner(n) # NoFlit /\ Len(CornerLeft(n)) >= CornerSize

TurnYAfter(n) ==
  NextTurn(injectY[n], InjectY, Height \div 2, inSouth[n].fc # NoFlit,
           SendNorth(n) \/ InjectCorner(n), OutNorth(n).fc = NoFlit,
           Inserted(CornerLeft(n), ToCorner(n)) # <<>>)
TurnXAfter(n) ==
  NextTurn(injectX[n], InjectX, Width \div 2, inWest[n].fc # NoFlit,
           SendEast(n), OutEast(n).fc = NoFlit, SendAfter(n) # <<>>)

\* The inputs of the next cycle are the neighbours' outputs of this one.
Route ==
  /\ inSouth' = [n \in Node |-> OutNorth(South(n))]
  /\ inWest' = [n \in Node |-> OutEast(West(n))]
  /\ stallY' = [n \in Node |-> StallYAfter(n)]
  /\ stallX' = [n \in Node |-> StallXAfter(n)]
  /\ injectY' = [n \in Node |-> [TurnYAfter(n) EXCEPT !.wire = TurnYAfter(North(n)).asks]]
  /\ injectX' = [n \in Node |-> [TurnXAfter(n) EXCEPT !.wire = TurnXAfter(East(n)).asks]]
  /\ sendFifo' = [n \in Node |-> SendAfter(n)]
  /\ sendFull' = [n \in Node |-> AlmostFull(Len(sendFifo[n]), SendSize)]
  /\ cornerFifo' = [n \in Node |-> Inserted(CornerLeft(n), ToCorner(n))]
  /\ delay' = [n \in Node |-> DelayAfter(n)]
  /\ recvFifo' = [n \in Node |-> RecvAfter(n)]
  /\ recvFull' = [n \in Node |->
       AlmostFull(Occupied(DelayAfter(n)[0]) + Len(RecvAfter(n)), RecvSize)]

-----------------------------------------------------------------------------
Init ==
  /\ sendFifo = [n \in Node |-> <<>>]
  /\ recvFifo = [n \in Node |-> <<>>]
  /\ cornerFifo = [n \in Node |-> <<>>]
  /\ delay = [n \in Node |-> [i \in {0, 1} |-> NoFlit]]
  /\ sendFull = [n \in Node |-> FALSE]
  /\ recvFull = [n \in Node |-> FALSE]
  /\ inSouth = [n \in Node |-> Wire(NoFlit, FALSE)]
  /\ inWest = [n \in Node |-> Wire(NoFlit, FALSE)]
  /\ LET idle(len) == [eject |-> 0, ring |-> 0, inject |-> 0,
                       per |-> [i \in 0 .. len - 1 |-> 0]]
         turn(c) == [request |-> FALSE, wire |-> FALSE, myTurn |-> FALSE,
                     asked |-> FALSE, asks |-> FALSE, counter |-> c]
     IN /\ stallY = [n \in Node |-> idle(Height)]
        /\ stallX = [n \in Node |-> idle(Width)]
        /\ injectY = [n \in Node |-> turn((Y(n) % 2) * (Height \div 2))]
        /\ injectX = [n \in Node |-> turn((X(n) % 2) * (Width \div 2))]
  /\ sent = [f \in Flows |-> 0]
  /\ got = [f \in Flows |-> {}]
  /\ aborted = FALSE

\* pnconfig_route_all: one cycle of all routers.
RouteAll ==
  /\ ~aborted
  /\ IF \E n \in Node : Asserts(n)
     THEN aborted' = TRUE /\ UNCHANGED <<buffers, rings>>
     ELSE Route /\ UNCHANGED aborted
  /\ UNCHANGED <<sent, got>>

\* pnconfig_send_flit, called by the core of f[1], when it returns true.
Send(f) ==
  LET n == f[1]
  IN /\ ~aborted /\ sent[f] < MaxFlits
     /\ ~sendFull[n] /\ Len(sendFifo[n]) < SendSize
     /\ sendFifo' = [sendFifo EXCEPT
          ![n] = Append(@, [src |-> n, dest |-> f[2], seq |-> sent[f] + 1])]
     /\ sendFull' = [sendFull EXCEPT ![n] = AlmostFull(Len(sendFifo[n]) + 1, SendSize)]
     /\ sent' = [sent EXCEPT ![f] = @ + 1]
     /\ UNCHANGED <<recvFifo, cornerFifo, delay, recvFull, rings, got, aborted>>

\* pnconfig_recv_flit, called by the core of f[2], when it returns true:
\* flitfifo_remove_by_rank takes the oldest flit from f[1].
Recv(f) ==
  LET n == f[2]
      from == {k \in 1 .. Len(recvFifo[n]) : recvFifo[n][k].src = f[1]}
  IN /\ ~aborted
     /\ \E k \in from :
          /\ \A j \in from : k <= j
          /\ recvFifo' = [recvFifo EXCEPT
               ![n] = [j \in 1 .. Len(@) - 1 |-> IF j < k THEN @[j] ELSE @[j + 1]]]
          /\ got' = [got EXCEPT ![f] = @ \cup {recvFifo[n][k].seq}]
     /\ recvFull' = [recvFull EXCEPT
          ![n] = AlmostFull(Occupied(delay[n][1]) + Len(recvFifo[n]) - 1, RecvSize)]
     /\ UNCHANGED <<sendFifo, cornerFifo, delay, sendFull, rings, sent, aborted>>

Next == RouteAll \/ \E f \in Flows : Send(f) \/ Recv(f)

Spec == Init /\ [][Next]_vars

-----------------------------------------------------------------------------
RingTimers(len) == [eject : 0 .. len, ring : 0 .. len, inject : 0 .. len,
                    per : [0 .. len - 1 -> 0 .. len]]
Slot == Flit \cup {NoFlit}
Port == [fc : Slot, deflected : BOOLEAN]
Turn == [request : BOOLEAN, wire : BOOLEAN, myTurn : BOOLEAN,
         asked : BOOLEAN, asks : BOOLEAN, counter : Nat]

TypeOK ==
  /\ sendFifo \in [Node -> Seq(Flit)]
  /\ recvFifo \in [Node -> Seq(Flit)]
  /\ cornerFifo \in [Node -> Seq(Flit)]
  /\ delay \in [Node -> [{0, 1} -> Slot]]
  /\ sendFull \in [Node -> BOOLEAN] /\ recvFull \in [Node -> BOOLEAN]
  /\ inSouth \in [Node -> Port]
  /\ inWest \in [Node -> Port]
  /\ stallY \in [Node -> RingTimers(Height)]
  /\ stallX \in [Node -> RingTimers(Width)]
  /\ injectY \in [Node -> Turn] /\ injectX \in [Node -> Turn]
  /\ sent \in [Flows -> 0 .. MaxFlits] /\ got \in [Flows -> SUBSET (1 .. MaxFlits)]
  /\ aborted \in BOOLEAN

\* No assert(flitfifo_insert(...)) of router_one_cycle ever fails: the receive
\* buffer has room for every flit that leaves the three-cycle delay, although
\* recv_fifo_full_last_cycle looks at one of the two flits in it only, and the
\* corner buffer for every flit that turns.
NoAssertFails == ~aborted

\* Why: the receive buffer has room for what it holds and for all flits in the
\* delay, and for one more as long as recv_fifo_full_last_cycle is false.
RecvLoad(n) == Len(recvFifo[n]) + Occupied(delay[n][0]) + Occupied(delay[n][1])
Room ==
  \A n \in Node :
    /\ RecvLoad(n) <= RecvSize
    /\ ~recvFull[n] => RecvLoad(n) < RecvSize
    /\ Len(cornerFifo[n]) <= CornerSize

\* Everything router n stores or is about to read, and where a flit is.
Held(n) ==
  [south |-> <<inSouth[n].fc>>, west |-> <<inWest[n].fc>>,
   delay |-> <<delay[n][0], delay[n][1]>>,
   send |-> sendFifo[n], corner |-> cornerFifo[n], recv |-> recvFifo[n]]
Part == {"south", "west", "delay", "send", "corner", "recv"}
Places(fc) ==
  UNION {{<<b, n, i>> : i \in {i \in DOMAIN Held(n)[b] : Held(n)[b][i] = fc}}
         : b \in Part, n \in Node}

\* No router drops or doubles a flit: each flit that was sent and not received
\* is in exactly one place, any other in none.
OnTheWay(f, k) == k <= sent[f] /\ k \notin got[f]
Conservation ==
  \A f \in Flows : \A k \in 1 .. MaxFlits :
    LET places == Places([src |-> f[1], dest |-> f[2], seq |-> k])
    IN IF OnTheWay(f, k) THEN \E p \in places : places = {p} ELSE places = {}

\* The number of the last flit received.
Last(f) == Max(got[f] \cup {0})

Channels == INSTANCE Noc WITH got <- [f \in Flows |-> Last(f)]

\* The torus keeps the promise of Noc: flits of one sender arrive in the order
\* in which they were sent, however often some of them were deflected.
NocSpec == Channels!Spec

\* The flows of the runs on this module: three senders and one receiver of a
\* 2x2 torus.
ToLast == {<<0, 3>>, <<1, 3>>, <<2, 3>>}
=============================================================================
