---------------------------- MODULE PnConfigProofs ----------------------------
(***************************************************************************)
(* The configurable router loses and doubles no flit, for every torus,     *)
(* every buffer size and every policy; and its buffers never overflow, for *)
(* every policy but the double ejections.                                  *)
(*                                                                         *)
(* For the overflow, a buffer is counted together with the slots in front  *)
(* of it.  For the flits, the last sections follow one through a cycle:    *)
(* After says where it is afterwards, FlitsArrive that it is there, and    *)
(* FlitsCome that a flit found after a cycle came from where After says.   *)
(***************************************************************************)
EXTENDS PnConfig, TLAPS

\* What is left behind the oldest flit of a buffer is a buffer.
LEMMA TailIsSeq ==
  ASSUME NEW S, NEW q \in Seq(S), q # <<>>
  PROVE  Tail(q) \in Seq(S) /\ Head(q) \in S /\ Len(Tail(q)) = Len(q) - 1 /\ Len(q) > 0
  OBVIOUS

\* A flit behind the others of a buffer gives a buffer.
LEMMA AppendIsSeq ==
  ASSUME NEW S, NEW q \in Seq(S), NEW e \in S
  PROVE  Append(q, e) \in Seq(S) /\ Len(Append(q, e)) = Len(q) + 1
  OBVIOUS

\* The timers of a ring stay below its length plus one.
LEMMA StallTyped ==
  ASSUME NEW len \in Nat, NEW policy, NEW s \in RingTimers(len),
         NEW late \in BOOLEAN, NEW own \in BOOLEAN, NEW dest
  PROVE  NextStall(s, late, own, dest, len, policy) \in RingTimers(len)
  <1> DEFINE R == 0 .. len
             per == [i \in 0 .. len - 1 |->
                       IF policy = "exp" /\ late /\ i = dest /\ s.per[i] = 0
                       THEN len ELSE Dec(s.per[i])]
  <1>1. ASSUME NEW k \in R PROVE Dec(k) \in R
    BY <1>1 DEF Dec
  <1>2. s.eject \in R /\ s.ring \in R /\ s.inject \in R /\ s.per \in [0 .. len - 1 -> R]
    BY DEF RingTimers
  <1>3. len \in R
    OBVIOUS
  <1> HIDE DEF R
  <1>4. per \in [0 .. len - 1 -> R]
    BY <1>1, <1>2, <1>3
  <1> HIDE DEF per
  <1>5. Dec(s.eject) \in R /\ Dec(s.ring) \in R /\ Dec(s.inject) \in R
    BY <1>1, <1>2
  <1>6. /\ (IF late /\ own THEN len ELSE Dec(s.ring)) \in R
        /\ (IF policy = "cheap" /\ late /\ s.inject = 0 THEN len ELSE Dec(s.inject)) \in R
    BY <1>3, <1>5
  <1>7. NextStall(s, late, own, dest, len, policy)
          \in [eject : R, ring : R, inject : R, per : [0 .. len - 1 -> R]]
    BY <1>4, <1>5, <1>6 DEF NextStall, per
  <1> QED
    BY <1>7 DEF RingTimers, R

\* The timers after the first part of router_one_cycle are timers of a ring.
LEMMA TimersTyped ==
  ASSUME TypeOK, NEW n \in Node
  PROVE  TimersY(n) \in RingTimers(Height) /\ TimersX(n) \in RingTimers(Width)
  <1>1. /\ stallY[n] \in RingTimers(Height) /\ stallX[n] \in RingTimers(Width)
        /\ inSouth[n].deflected \in BOOLEAN /\ inWest[n].deflected \in BOOLEAN
    BY DEF TypeOK, Port
  <1>2. Height \in Nat /\ Width \in Nat
    BY TorusAssumption
  <1> QED
    BY <1>1, <1>2, StallTyped DEF TimersY, TimersX

-----------------------------------------------------------------------------
\* What one router puts on its outputs are flits or nothing.
LEMMA PortsTyped ==
  ASSUME TypeOK, NEW n \in Node
  PROVE  OutNorth(n) \in Port /\ OutEast(n) \in Port
  <1>1. /\ inSouth[n] \in Port /\ inWest[n] \in Port
        /\ sendFifo[n] \in Seq(Flit) /\ cornerFifo[n] \in Seq(Flit)
    BY DEF TypeOK
  <1>2. /\ sendFifo[n] # <<>> => Head(sendFifo[n]) \in Flit
        /\ cornerFifo[n] # <<>> => Head(cornerFifo[n]) \in Flit
    BY <1>1, TailIsSeq
  <1>3. NorthTaken(n) \in BOOLEAN /\ SouthArrives(n) \in BOOLEAN
    BY DEF NorthTaken, SouthArrives
  <1>4. EastTaken(n) \in BOOLEAN /\ WestArrives(n) \in BOOLEAN
    BY DEF EastTaken, WestArrives
  <1>5. SendNorth(n) \/ SendEast(n) => sendFifo[n] # <<>>
    BY DEF SendNorth, SendEast
  <1>6. InjectCorner(n) => cornerFifo[n] # <<>>
    BY DEF InjectCorner
  <1>7. ASSUME NEW fc \in Slot, NEW d \in BOOLEAN PROVE Wire(fc, d) \in Port
    BY DEF Wire, Port
  <1>8. Flit \subseteq Slot /\ NoFlit \in Slot
    BY DEF Slot
  <1>9. /\ inSouth[n].fc \in Slot /\ inWest[n].fc \in Slot
        /\ inSouth[n].deflected \in BOOLEAN /\ inWest[n].deflected \in BOOLEAN
    BY <1>1 DEF Port
  <1>10. OutNorth(n) \in Port
    BY <1>2, <1>3, <1>5, <1>6, <1>7, <1>8, <1>9 DEF OutNorth
  <1>11. OutEast(n) \in Port
    BY <1>2, <1>4, <1>5, <1>7, <1>8, <1>9 DEF OutEast
  <1> QED
    BY <1>10, <1>11

\* flitfifo_insert gives a buffer, whether the flit is there or not.
LEMMA InsertedIsSeq ==
  ASSUME NEW S, NoFlit \notin S, NEW q \in Seq(S), NEW fc \in S \cup {NoFlit}
  PROVE  /\ Inserted(q, fc) \in Seq(S)
         /\ Len(Inserted(q, fc)) = Len(q) + Occupied(fc)
  <1>1. CASE fc = NoFlit
    BY <1>1 DEF Inserted, Occupied
  <1>2. CASE fc # NoFlit
    BY <1>2, AppendIsSeq DEF Inserted, Occupied
  <1> QED
    BY <1>1, <1>2

LEMMA FlitInserted ==
  ASSUME NEW q \in Seq(Flit), NEW fc \in Slot
  PROVE  /\ Inserted(q, fc) \in Seq(Flit)
         /\ Len(Inserted(q, fc)) = Len(q) + Occupied(fc)
  BY InsertedIsSeq, PnAssumption DEF Slot

\* The flits a router moves between its buffers.
LEMMA MovesTyped ==
  ASSUME TypeOK, NEW n \in Node
  PROVE  /\ SendAfter(n) \in Seq(Flit)
         /\ CornerLeft(n) \in Seq(Flit) /\ Len(CornerLeft(n)) <= Len(cornerFifo[n])
         /\ ToCorner(n) \in Slot /\ ToLocal(n) \in Slot /\ ToLocal2(n) \in Slot
  <1>1. /\ sendFifo[n] \in Seq(Flit) /\ cornerFifo[n] \in Seq(Flit)
        /\ inSouth[n].fc \in Slot /\ inWest[n].fc \in Slot
    BY DEF TypeOK, Port
  <1>2. sendFifo[n] # <<>> => Tail(sendFifo[n]) \in Seq(Flit) /\ Head(sendFifo[n]) \in Flit
    BY <1>1, TailIsSeq
  <1>3. cornerFifo[n] # <<>> =>
          /\ Tail(cornerFifo[n]) \in Seq(Flit) /\ Head(cornerFifo[n]) \in Flit
          /\ Len(Tail(cornerFifo[n])) = Len(cornerFifo[n]) - 1
    BY <1>1, TailIsSeq
  <1>4. SendNorth(n) \/ SendCorner(n) \/ SendEast(n) => sendFifo[n] # <<>>
    BY DEF SendNorth, SendCorner, SendEast
  <1>5. InjectCorner(n) \/ EjectCorner(n) \/ EjectCorner2(n) => cornerFifo[n] # <<>>
    BY DEF InjectCorner, EjectCorner, EjectCorner2, CornerArrived
  <1>6. Flit \subseteq Slot /\ NoFlit \in Slot
    BY DEF Slot
  <1>7. SendAfter(n) \in Seq(Flit)
    BY <1>1, <1>2, <1>4 DEF SendAfter
  <1>8. Len(cornerFifo[n]) \in Nat
    BY <1>1
  <1>9. CornerLeft(n) \in Seq(Flit) /\ Len(CornerLeft(n)) <= Len(cornerFifo[n])
    <2>1. CASE InjectCorner(n) \/ EjectCorner(n) \/ EjectCorner2(n)
      BY <2>1, <1>3, <1>5, <1>8 DEF CornerLeft
    <2>2. CASE ~(InjectCorner(n) \/ EjectCorner(n) \/ EjectCorner2(n))
      BY <2>2, <1>1, <1>8 DEF CornerLeft
    <2> QED
      BY <2>1, <2>2
  <1>10. ToCorner(n) \in Slot
    BY <1>1, <1>2, <1>4, <1>6 DEF ToCorner
  <1>11. ToLocal(n) \in Slot
    BY <1>1, <1>3, <1>5, <1>6 DEF ToLocal
  <1>12. ToLocal2(n) \in Slot
    BY <1>1, <1>3, <1>5, <1>6 DEF ToLocal2
  <1> QED
    BY <1>7, <1>9, <1>10, <1>11, <1>12

\* What a router leaves in its buffers are flits.
LEMMA BuffersTyped ==
  ASSUME TypeOK, NEW n \in Node
  PROVE  /\ Inserted(CornerLeft(n), ToCorner(n)) \in Seq(Flit)
         /\ RecvAfter(n) \in Seq(Flit)
         /\ Len(RecvAfter(n)) = Len(recvFifo[n]) + Occupied(ToLocal2(n)) + Occupied(delay[n][0])
         /\ Len(RecvWith2(n)) = Len(recvFifo[n]) + Occupied(ToLocal2(n))
         /\ DelayAfter(n) \in [{0, 1} -> Slot]
  <1>1. /\ recvFifo[n] \in Seq(Flit) /\ delay[n] \in [{0, 1} -> Slot]
    BY DEF TypeOK
  <1>2. delay[n][0] \in Slot /\ delay[n][1] \in Slot
    BY <1>1
  <1>3. Inserted(CornerLeft(n), ToCorner(n)) \in Seq(Flit)
    BY MovesTyped, FlitInserted
  <1>4. /\ RecvWith2(n) \in Seq(Flit)
        /\ Len(RecvWith2(n)) = Len(recvFifo[n]) + Occupied(ToLocal2(n))
    BY <1>1, MovesTyped, FlitInserted DEF RecvWith2
  <1>5. /\ RecvAfter(n) \in Seq(Flit)
        /\ Len(RecvAfter(n)) = Len(RecvWith2(n)) + Occupied(delay[n][0])
    BY <1>2, <1>4, FlitInserted DEF RecvAfter
  <1>6. DelayAfter(n) \in [{0, 1} -> Slot]
    BY <1>2, MovesTyped DEF DelayAfter
  <1> QED
    BY <1>3, <1>4, <1>5, <1>6

\* The timers after the deflections of a cycle are timers of a ring.
LEMMA StallAfterTyped ==
  ASSUME TypeOK, NEW n \in Node
  PROVE  StallYAfter(n) \in RingTimers(Height) /\ StallXAfter(n) \in RingTimers(Width)
  <1>1. Height \in Nat /\ Width \in Nat
    BY TorusAssumption
  <1>2. ASSUME NEW len \in Nat, NEW s \in RingTimers(len)
        PROVE  [s EXCEPT !.eject = len] \in RingTimers(len)
    BY DEF RingTimers
  <1>3. TimersY(n) \in RingTimers(Height) /\ TimersX(n) \in RingTimers(Width)
    BY TimersTyped
  <1> QED
    BY <1>1, <1>2, <1>3 DEF StallYAfter, StallXAfter

\* The turn of the alternating injection stays in its ring.
LEMMA NextTurnTyped ==
  ASSUME NEW i \in Turn, NEW policy \in {"none", "request", "alternate"},
         NEW period \in Nat, NEW valid \in BOOLEAN, NEW injected \in BOOLEAN,
         NEW idle \in BOOLEAN, NEW waiting \in BOOLEAN
  PROVE  NextTurn(i, policy, period, valid, injected, idle, waiting) \in Turn
  <1>1. CASE policy = "none"
    BY <1>1 DEF NextTurn
  <1>2. CASE policy = "alternate"
    <2>1. NextCounter(i.counter, period) \in Nat
      BY DEF NextCounter, Turn
    <2> QED
      BY <1>2, <2>1 DEF NextTurn, Turn
  <1>3. CASE policy = "request"
    BY <1>3 DEF NextTurn, Turn, Requested
  <1> QED
    BY <1>1, <1>2, <1>3

\* The turns of both rings after a cycle.
LEMMA TurnsTyped ==
  ASSUME TypeOK, NEW n \in Node
  PROVE  TurnYAfter(n) \in Turn /\ TurnXAfter(n) \in Turn
  <1>1. injectY[n] \in Turn /\ injectX[n] \in Turn
    BY DEF TypeOK
  <1>2. Height \div 2 \in Nat /\ Width \div 2 \in Nat
    BY TorusAssumption
  <1>3. (SendNorth(n) \/ InjectCorner(n)) \in BOOLEAN /\ SendEast(n) \in BOOLEAN
    BY DEF SendNorth, InjectCorner, SendEast
  <1>4. InjectY \in {"none", "request", "alternate"} /\ InjectX \in {"none", "request", "alternate"}
    BY PnAssumption
  <1>5. TurnYAfter(n) \in Turn
    <2> DEFINE turn == injectY[n]
               period == Height \div 2
               valid == inSouth[n].fc # NoFlit
               injected == SendNorth(n) \/ InjectCorner(n)
               idle == OutNorth(n).fc = NoFlit
               waiting == Inserted(CornerLeft(n), ToCorner(n)) # <<>>
    <2>1. /\ turn \in Turn /\ period \in Nat
          /\ valid \in BOOLEAN /\ injected \in BOOLEAN /\ idle \in BOOLEAN /\ waiting \in BOOLEAN
      BY <1>1, <1>2, <1>3
    <2>2. TurnYAfter(n) = NextTurn(turn, InjectY, period, valid, injected, idle, waiting)
      BY DEF TurnYAfter
    <2> HIDE DEF turn, period, valid, injected, idle, waiting
    <2>3. NextTurn(turn, InjectY, period, valid, injected, idle, waiting) \in Turn
      BY SMTT(40), <1>4, <2>1, NextTurnTyped
    <2> QED
      BY <2>2, <2>3
  <1>6. TurnXAfter(n) \in Turn
    <2> DEFINE turn == injectX[n]
               period == Width \div 2
               valid == inWest[n].fc # NoFlit
               idle == OutEast(n).fc = NoFlit
               waiting == SendAfter(n) # <<>>
    <2>1. /\ turn \in Turn /\ period \in Nat
          /\ valid \in BOOLEAN /\ idle \in BOOLEAN /\ waiting \in BOOLEAN
      BY <1>1, <1>2
    <2>2. TurnXAfter(n) = NextTurn(turn, InjectX, period, valid, SendEast(n), idle, waiting)
      BY DEF TurnXAfter
    <2> HIDE DEF turn, period, valid, idle, waiting
    <2>3. NextTurn(turn, InjectX, period, valid, SendEast(n), idle, waiting) \in Turn
      BY SMTT(40), <1>3, <1>4, <2>1, NextTurnTyped
    <2> QED
      BY <2>2, <2>3
  <1> QED
    BY <1>5, <1>6

-----------------------------------------------------------------------------
\* Type correctness.

\* pnconfig_init leaves well-typed buffers and rings.
LEMMA InitTyped == Init => TypeOK
  <1> SUFFICES ASSUME Init PROVE TypeOK
    OBVIOUS
  <1>1. <<>> \in Seq(Flit) /\ NoFlit \in Slot /\ Wire(NoFlit, FALSE) \in Port
    BY DEF Slot, Wire, Port
  <1>2. ASSUME NEW len \in Nat
        PROVE  [eject |-> 0, ring |-> 0, inject |-> 0,
                per |-> [i \in 0 .. len - 1 |-> 0]] \in RingTimers(len)
    BY DEF RingTimers
  <1>3. Height \in Nat /\ Width \in Nat
    BY TorusAssumption
  <1>4. stallY \in [Node -> RingTimers(Height)] /\ stallX \in [Node -> RingTimers(Width)]
    BY <1>2, <1>3 DEF Init
  <1>5. ASSUME NEW c \in Nat
        PROVE  [request |-> FALSE, wire |-> FALSE, myTurn |-> FALSE,
                asked |-> FALSE, asks |-> FALSE, counter |-> c] \in Turn
    BY DEF Turn
  <1>6. ASSUME NEW n \in Node
        PROVE  (Y(n) % 2) * (Height \div 2) \in Nat /\ (X(n) % 2) * (Width \div 2) \in Nat
    <2>1. Y(n) \in Nat /\ X(n) \in Nat
      BY Coordinates, <1>3
    <2>2. Y(n) % 2 \in Nat /\ X(n) % 2 \in Nat /\ Height \div 2 \in Nat /\ Width \div 2 \in Nat
      BY <2>1, <1>3
    <2> QED
      BY <2>2
  <1>7. injectY \in [Node -> Turn] /\ injectX \in [Node -> Turn]
    BY <1>5, <1>6 DEF Init
  <1>8. sent \in [Flows -> 0 .. MaxFlits] /\ got \in [Flows -> SUBSET (1 .. MaxFlits)]
    BY PnAssumption DEF Init
  <1> QED
    BY <1>1, <1>4, <1>7, <1>8 DEF Init, TypeOK

\* router_one_cycle leaves well-typed buffers and rings.
LEMMA RouteTyped ==
  ASSUME TypeOK, Route
  PROVE  /\ sendFifo' \in [Node -> Seq(Flit)]
         /\ recvFifo' \in [Node -> Seq(Flit)]
         /\ cornerFifo' \in [Node -> Seq(Flit)]
         /\ delay' \in [Node -> [{0, 1} -> Slot]]
         /\ sendFull' \in [Node -> BOOLEAN] /\ recvFull' \in [Node -> BOOLEAN]
         /\ inSouth' \in [Node -> Port] /\ inWest' \in [Node -> Port]
         /\ stallY' \in [Node -> RingTimers(Height)]
         /\ stallX' \in [Node -> RingTimers(Width)]
         /\ injectY' \in [Node -> Turn] /\ injectX' \in [Node -> Turn]
  <1>1. sendFifo' \in [Node -> Seq(Flit)]
    BY MovesTyped DEF Route
  <1>2. /\ recvFifo' \in [Node -> Seq(Flit)]
        /\ cornerFifo' \in [Node -> Seq(Flit)]
        /\ delay' \in [Node -> [{0, 1} -> Slot]]
    BY BuffersTyped DEF Route
  <1>3. sendFull' \in [Node -> BOOLEAN] /\ recvFull' \in [Node -> BOOLEAN]
    BY DEF Route, AlmostFull
  <1>4. inSouth' \in [Node -> Port] /\ inWest' \in [Node -> Port]
    BY PortsTyped, Neighbours DEF Route
  <1>5. stallY' \in [Node -> RingTimers(Height)] /\ stallX' \in [Node -> RingTimers(Width)]
    BY StallAfterTyped DEF Route
  <1>6. ASSUME NEW t \in Turn, NEW u \in Turn PROVE [t EXCEPT !.wire = u.asks] \in Turn
    BY DEF Turn
  <1>7. injectY' \in [Node -> Turn] /\ injectX' \in [Node -> Turn]
    BY <1>6, TurnsTyped, Neighbours DEF Route
  <1> QED
    BY <1>1, <1>2, <1>3, <1>4, <1>5, <1>7

\* The buffer of a core after pnconfig_recv_flit took flit k out of it.
LEMMA RemovedIsSeq ==
  ASSUME NEW S, NEW q \in Seq(S), NEW k \in 1 .. Len(q),
         NEW r, r = [j \in 1 .. Len(q) - 1 |-> IF j < k THEN q[j] ELSE q[j + 1]]
  PROVE  r \in Seq(S) /\ Len(r) = Len(q) - 1
  <1>1. Len(q) \in Nat /\ Len(q) > 0
    OBVIOUS
  <1>2. Len(q) - 1 \in Nat
    BY <1>1
  <1>3. \A j \in 1 .. Len(q) : q[j] \in S
    OBVIOUS
  <1>4. r \in [1 .. Len(q) - 1 -> S]
    BY <1>1, <1>3
  <1> QED
    BY <1>2, <1>4

\* pnconfig_recv_flit shortens the receive buffer and touches nothing else.
LEMMA RecvChanges ==
  ASSUME TypeOK, NEW f \in Flows, Recv(f)
  PROVE  LET n == f[2]
         IN /\ n \in Node
            /\ recvFifo[n] \in Seq(Flit) /\ Len(recvFifo[n]) > 0
            /\ \E r \in Seq(Flit) :
                 Len(r) = Len(recvFifo[n]) - 1 /\ recvFifo' = [recvFifo EXCEPT ![n] = r]
            /\ got' \in [Flows -> SUBSET (1 .. MaxFlits)]
  <1> DEFINE n == f[2]
             q == recvFifo[n]
             from == {k \in 1 .. Len(q) : q[k].src = f[1]}
  <1>1. n \in Node
    BY PnAssumption
  <1>2. q \in Seq(Flit)
    BY <1>1 DEF TypeOK
  <1>3. PICK k \in from :
          /\ recvFifo' = [recvFifo EXCEPT
               ![n] = [j \in 1 .. Len(@) - 1 |-> IF j < k THEN @[j] ELSE @[j + 1]]]
          /\ got' = [got EXCEPT ![f] = @ \cup {q[k].seq}]
    BY DEF Recv
  <1>4. k \in 1 .. Len(q)
    OBVIOUS
  <1> DEFINE r == [j \in 1 .. Len(q) - 1 |-> IF j < k THEN q[j] ELSE q[j + 1]]
  <1>5. recvFifo' = [recvFifo EXCEPT ![n] = r]
    BY <1>3
  <1>6. q[k] \in Flit /\ Len(q) > 0
    BY <1>2, <1>4
  <1>7. q[k].seq \in 1 .. MaxFlits
    BY <1>6, PnAssumption DEF Flit
  <1>8. got' \in [Flows -> SUBSET (1 .. MaxFlits)]
    BY <1>3, <1>7 DEF TypeOK
  <1>9. r \in Seq(Flit) /\ Len(r) = Len(q) - 1
    BY <1>2, <1>4, RemovedIsSeq
  <1> QED
    BY <1>1, <1>2, <1>5, <1>6, <1>8, <1>9

\* pnconfig_send_flit lengthens the send buffer and touches nothing else.
LEMMA SendChanges ==
  ASSUME TypeOK, NEW f \in Flows, Send(f)
  PROVE  /\ sendFifo' \in [Node -> Seq(Flit)] /\ sendFull' \in [Node -> BOOLEAN]
         /\ sent' \in [Flows -> 0 .. MaxFlits]
  <1> DEFINE fc == [src |-> f[1], dest |-> f[2], seq |-> sent[f] + 1]
  <1>1. f[1] \in Node /\ f[2] \in Node
    BY PnAssumption
  <1>2. sent[f] \in 0 .. MaxFlits /\ sent[f] < MaxFlits /\ MaxFlits \in Nat
    BY PnAssumption DEF TypeOK, Send
  <1>3. fc \in Flit
    BY <1>1, <1>2 DEF Flit
  <1> HIDE DEF fc
  <1>4. sendFifo[f[1]] \in Seq(Flit)
    BY <1>1 DEF TypeOK
  <1>5. Append(sendFifo[f[1]], fc) \in Seq(Flit)
    BY <1>3, <1>4, AppendIsSeq
  <1>6. sendFifo' = [sendFifo EXCEPT ![f[1]] = Append(sendFifo[f[1]], fc)]
    BY DEF Send, fc
  <1>7. sendFifo' \in [Node -> Seq(Flit)]
    BY <1>5, <1>6 DEF TypeOK
  <1>8. sendFull' \in [Node -> BOOLEAN]
    BY DEF TypeOK, Send, AlmostFull
  <1>9. sent' \in [Flows -> 0 .. MaxFlits]
    BY <1>2 DEF TypeOK, Send
  <1> QED
    BY <1>7, <1>8, <1>9

\* Every cycle and every call of a core keeps the types.
LEMMA TypeStep == TypeOK /\ [Next]_vars => TypeOK'
  <1> SUFFICES ASSUME TypeOK, [Next]_vars PROVE TypeOK'
    OBVIOUS
  <1>1. CASE RouteAll
    <2>1. CASE Route /\ UNCHANGED aborted
      BY <1>1, <2>1, RouteTyped DEF RouteAll, TypeOK
    <2>2. CASE aborted' = TRUE /\ UNCHANGED <<buffers, rings>>
      BY <1>1, <2>2 DEF RouteAll, TypeOK, buffers, rings
    <2> QED
      BY <1>1, <2>1, <2>2 DEF RouteAll
  <1>2. ASSUME NEW f \in Flows, Send(f) PROVE TypeOK'
    BY <1>2, SendChanges DEF Send, TypeOK, rings
  <1>3. ASSUME NEW f \in Flows, Recv(f) PROVE TypeOK'
    <2>1. recvFifo' \in [Node -> Seq(Flit)] /\ got' \in [Flows -> SUBSET (1 .. MaxFlits)]
      BY <1>3, RecvChanges DEF TypeOK
    <2>2. recvFull' \in [Node -> BOOLEAN]
      BY <1>3 DEF Recv, TypeOK, AlmostFull
    <2> QED
      BY <1>3, <2>1, <2>2 DEF Recv, TypeOK, rings
  <1>4. CASE UNCHANGED vars
    BY <1>4 DEF vars, buffers, rings, TypeOK
  <1> QED
    BY <1>1, <1>2, <1>3, <1>4 DEF Next

\* Every flit stays a flit, every timer below the length of its ring plus one,
\* whatever the torus, the buffers and the policies are.
THEOREM TypeCorrect == Spec => []TypeOK
  BY InitTyped, TypeStep, PTL DEF Spec

-----------------------------------------------------------------------------
\* The buffers.

\* A flit is given to the delay only while recv_fifo_full_last_cycle is false,
\* and to the corner buffer only while it has room.
LEMMA GuardedMoves ==
  ASSUME NEW n \in Node, BypassY \notin {"2unbuf", "2buf"}
  PROVE  /\ ToLocal(n) # NoFlit => ~recvFull[n]
         /\ ToLocal2(n) = NoFlit
         /\ ToCorner(n) # NoFlit => ~CornerFull(n)
  <1>1. ToLocal(n) # NoFlit => ~recvFull[n]
    BY DEF ToLocal, EjectSouth, EjectWest, EjectCorner
  <1>2. ToLocal2(n) = NoFlit
    BY DEF ToLocal2, EjectWest2, EjectCorner2
  <1>3. ToCorner(n) # NoFlit => ~CornerFull(n)
    BY DEF ToCorner, TurnWest, SendCorner
  <1> QED
    BY <1>1, <1>2, <1>3

\* The number of flits in the slot delay.
LEMMA OccupiedIs ==
  ASSUME NEW fc PROVE Occupied(fc) \in {0, 1} /\ (Occupied(fc) = 0 <=> fc = NoFlit)
  BY DEF Occupied

\* The load of a receive buffer is a number.
LEMMA LoadTyped ==
  ASSUME TypeOK, NEW n \in Node
  PROVE  /\ Len(recvFifo[n]) \in Nat /\ Len(cornerFifo[n]) \in Nat
         /\ Occupied(delay[n][0]) \in {0, 1} /\ Occupied(delay[n][1]) \in {0, 1}
  BY OccupiedIs DEF TypeOK

\* With Room, none of the asserted insertions can fail.
LEMMA RoomNoAssert ==
  ASSUME TypeOK, Room, NEW n \in Node, BypassY \notin {"2unbuf", "2buf"}
  PROVE  ~Asserts(n)
  <1>1. RecvLoad(n) <= RecvSize /\ Len(cornerFifo[n]) <= CornerSize
    BY DEF Room
  <1>2. RecvSize \in Nat /\ CornerSize \in Nat
    BY PnAssumption
  <1>3. ToLocal2(n) = NoFlit
    BY GuardedMoves
  <1>4. Len(RecvWith2(n)) = Len(recvFifo[n]) + 0
    BY <1>3, BuffersTyped DEF Occupied
  <1>5. delay[n][0] # NoFlit => Len(RecvWith2(n)) < RecvSize
    BY <1>1, <1>2, <1>4, LoadTyped, OccupiedIs DEF RecvLoad
  <1>6. ToCorner(n) # NoFlit => Len(CornerLeft(n)) < CornerSize
    <2>1. CornerLeft(n) \in Seq(Flit) /\ Len(CornerLeft(n)) <= Len(cornerFifo[n])
      BY MovesTyped
    <2>2. ToCorner(n) # NoFlit => Len(cornerFifo[n]) < CornerSize
      BY <1>2, GuardedMoves, LoadTyped DEF CornerFull
    <2> QED
      BY <1>2, <2>1, <2>2, LoadTyped
  <1>7. Len(RecvWith2(n)) \in Nat /\ Len(CornerLeft(n)) \in Nat
    BY <1>4, LoadTyped, MovesTyped
  <1> QED
    BY <1>2, <1>3, <1>5, <1>6, <1>7 DEF Asserts

\* One cycle keeps Room: what enters the delay was announced by the flag.
LEMMA RouteKeepsRoom ==
  ASSUME TypeOK, Room, Route, RecvSize > 0, BypassY \notin {"2unbuf", "2buf"}
  PROVE  Room'
  <1> SUFFICES ASSUME NEW n \in Node
               PROVE  /\ RecvLoad(n)' <= RecvSize
                      /\ ~recvFull'[n] => RecvLoad(n)' < RecvSize
                      /\ Len(cornerFifo'[n]) <= CornerSize
    BY DEF Room
  <1>1. /\ RecvLoad(n) <= RecvSize /\ (~recvFull[n] => RecvLoad(n) < RecvSize)
        /\ Len(cornerFifo[n]) <= CornerSize
    BY DEF Room
  <1>2. RecvSize \in Nat /\ CornerSize \in Nat
    BY PnAssumption
  <1> DEFINE r == Len(recvFifo[n])
             d0 == Occupied(delay[n][0])
             d1 == Occupied(delay[n][1])
             new == Occupied(ToLocal(n))
  <1>3. r \in Nat /\ d0 \in {0, 1} /\ d1 \in {0, 1} /\ new \in {0, 1}
    BY LoadTyped, OccupiedIs
  <1>4. new = 1 => ~recvFull[n]
    BY GuardedMoves DEF Occupied
  <1>5. Len(RecvAfter(n)) = r + d0
    <2>1. Occupied(ToLocal2(n)) = 0
      BY GuardedMoves DEF Occupied
    <2> QED
      BY <1>3, <2>1, BuffersTyped
  <1>6. Occupied(DelayAfter(n)[0]) = d1 /\ Occupied(DelayAfter(n)[1]) = new
    BY DEF DelayAfter
  <1>7. /\ recvFifo'[n] = RecvAfter(n) /\ delay'[n] = DelayAfter(n)
        /\ recvFull'[n] = AlmostFull(Occupied(DelayAfter(n)[0]) + Len(RecvAfter(n)), RecvSize)
        /\ cornerFifo'[n] = Inserted(CornerLeft(n), ToCorner(n))
    BY DEF Route
  <1>8. RecvLoad(n)' = Len(recvFifo'[n]) + Occupied(delay'[n][0]) + Occupied(delay'[n][1])
    BY DEF RecvLoad, Occupied
  <1>9. RecvLoad(n)' = r + d0 + d1 + new
    BY <1>5, <1>6, <1>7, <1>8
  <1>10. RecvLoad(n) = r + d0 + d1
    BY DEF RecvLoad
  <1>11. ~recvFull'[n] => d1 + (r + d0) < RecvSize - 1
    <2>1. recvFull'[n] = AlmostFull(d1 + (r + d0), RecvSize)
      BY <1>5, <1>6, <1>7
    <2> HIDE DEF r, d0, d1
    <2>2. RecvSize # 0
      BY <1>2
    <2>3. d1 + (r + d0) >= RecvSize - 1 => recvFull'[n]
      BY <2>1, <2>2 DEF AlmostFull
    <2> QED
      BY <1>2, <1>3, <2>3
  <1>12. RecvLoad(n)' <= RecvSize
    BY <1>1, <1>2, <1>3, <1>4, <1>9, <1>10
  <1>13. ~recvFull'[n] => RecvLoad(n)' < RecvSize
    <2> HIDE DEF r, d0, d1, new
    <2> QED
      BY <1>2, <1>3, <1>9, <1>11
  <1>14. Len(cornerFifo'[n]) <= CornerSize
    <2>1. /\ Len(CornerLeft(n)) \in Nat /\ Len(CornerLeft(n)) <= Len(cornerFifo[n])
          /\ Len(Inserted(CornerLeft(n), ToCorner(n))) = Len(CornerLeft(n)) + Occupied(ToCorner(n))
      BY MovesTyped, FlitInserted
    <2>2. Occupied(ToCorner(n)) = 0 \/ Len(cornerFifo[n]) < CornerSize
      BY <1>2, GuardedMoves, LoadTyped DEF CornerFull, Occupied
    <2>3. Occupied(ToCorner(n)) \in {0, 1}
      BY OccupiedIs
    <2> QED
      BY <1>1, <1>2, <1>7, <2>1, <2>2, <2>3, LoadTyped
  <1> QED
    BY <1>12, <1>13, <1>14

\* A received flit leaves a free place behind, and the new value of the flag
\* counts the only flit of the delay that the old one may have missed.
LEMMA RecvKeepsRoom ==
  ASSUME TypeOK, Room, NEW f \in Flows, Recv(f)
  PROVE  Room'
  <1> SUFFICES ASSUME NEW n \in Node
               PROVE  /\ RecvLoad(n)' <= RecvSize
                      /\ ~recvFull'[n] => RecvLoad(n)' < RecvSize
                      /\ Len(cornerFifo'[n]) <= CornerSize
    BY DEF Room
  <1>1. /\ RecvLoad(n) <= RecvSize /\ (~recvFull[n] => RecvLoad(n) < RecvSize)
        /\ Len(cornerFifo[n]) <= CornerSize
    BY DEF Room
  <1>2. cornerFifo' = cornerFifo /\ delay' = delay
    BY DEF Recv
  <1>3. PICK r \in Seq(Flit) :
          /\ Len(r) = Len(recvFifo[f[2]]) - 1
          /\ recvFifo' = [recvFifo EXCEPT ![f[2]] = r]
    BY RecvChanges
  <1>4. RecvLoad(n)' = Len(recvFifo'[n]) + Occupied(delay[n][0]) + Occupied(delay[n][1])
    BY <1>2 DEF RecvLoad, Occupied
  <1>5. CASE n # f[2]
    <2>1. recvFifo'[n] = recvFifo[n] /\ recvFull'[n] = recvFull[n]
      BY <1>3, <1>5 DEF Recv, TypeOK
    <2> QED
      BY <1>1, <1>2, <1>4, <2>1 DEF RecvLoad
  <1>6. CASE n = f[2]
    <2>1. recvFifo'[n] = r
      BY <1>3, <1>6 DEF TypeOK
    <2>2. Len(r) = Len(recvFifo[n]) - 1
      BY <1>3, <1>6
    <2>3. RecvLoad(n)' = Len(recvFifo[n]) - 1 + Occupied(delay[n][0]) + Occupied(delay[n][1])
      BY <1>4, <2>1, <2>2
    <2>4. RecvLoad(n)' < RecvSize
      BY <1>1, <2>3, LoadTyped, PnAssumption DEF RecvLoad
    <2> QED
      BY SMTT(40), <1>1, <1>2, <2>4, LoadTyped, PnAssumption DEF RecvLoad
  <1> QED
    BY <1>5, <1>6

\* No assert of router_one_cycle fails, for every torus, every buffer size but
\* an empty receive buffer, every stall and injection policy and every bypass
\* but the double ejections: Room is inductive together with the types.
THEOREM NoOverflow ==
  ASSUME RecvSize > 0, BypassY \notin {"2unbuf", "2buf"}
  PROVE  Spec => [](NoAssertFails /\ Room)
  <1> DEFINE IInv == TypeOK /\ Room /\ NoAssertFails
  <1>1. Init => IInv
    <2> SUFFICES ASSUME Init PROVE IInv
      OBVIOUS
    <2>1. RecvSize \in Nat /\ CornerSize \in Nat
      BY PnAssumption
    <2>2. ASSUME NEW n \in Node PROVE RecvLoad(n) = 0 /\ Len(cornerFifo[n]) = 0
      BY DEF Init, RecvLoad, Occupied
    <2>3. Room
      BY <2>1, <2>2 DEF Room
    <2> QED
      BY <2>3, InitTyped DEF Init, NoAssertFails
  <1>2. IInv /\ [Next]_vars => IInv'
    <2> SUFFICES ASSUME IInv, [Next]_vars, TypeOK' PROVE Room' /\ NoAssertFails'
      BY TypeStep
    <2>1. CASE RouteAll
      <3>1. ~\E n \in Node : Asserts(n)
        BY RoomNoAssert
      <3>2. Route /\ UNCHANGED aborted
        BY <2>1, <3>1 DEF RouteAll
      <3> QED
        BY <3>2, RouteKeepsRoom DEF NoAssertFails
    <2>2. ASSUME NEW f \in Flows, Send(f) PROVE Room' /\ NoAssertFails'
      BY <2>2 DEF Send, rings, Room, RecvLoad, Occupied, NoAssertFails
    <2>3. ASSUME NEW f \in Flows, Recv(f) PROVE Room' /\ NoAssertFails'
      BY <2>3, RecvKeepsRoom DEF Recv, NoAssertFails
    <2>4. CASE UNCHANGED vars
      BY <2>4 DEF vars, buffers, rings, Room, RecvLoad, Occupied, NoAssertFails
    <2> QED
      BY <2>1, <2>2, <2>3, <2>4 DEF Next
  <1>3. IInv => NoAssertFails /\ Room
    OBVIOUS
  <1> QED
    BY <1>1, <1>2, <1>3, PTL DEF Spec

\* A node never announces to its neighbours, nor takes from them, more flits than
\* it has places for: under the same conditions, and by the same invariant.
THEOREM RoomKept ==
  ASSUME RecvSize > 0, BypassY \notin {"2unbuf", "2buf"}
  PROVE  Spec => []Room
  <1>1. NoAssertFails /\ Room => Room
    OBVIOUS
  <1> QED
    BY <1>1, NoOverflow, PTL

-----------------------------------------------------------------------------
\* Where a flit is, and where one cycle moves it.

\* The flits that leave the rings in the column of n, and those n receives.
ColumnFlits(n) == {fc \in Flit : X(fc.dest) = X(n)}
OwnFlits(n) == {fc \in Flit : fc.dest = n}

\* No flit is where it does not belong: the column of a router carries flits
\* for that column, its receive buffer flits for itself.
Bound ==
  \A n \in Node :
    /\ inSouth[n].fc \in ColumnFlits(n) \cup {NoFlit}
    /\ cornerFifo[n] \in Seq(ColumnFlits(n))
    /\ delay[n] \in [{0, 1} -> OwnFlits(n) \cup {NoFlit}]
    /\ recvFifo[n] \in Seq(OwnFlits(n))

\* A flit at the crossing of its row and its column has arrived.
LEMMA Crossing ==
  ASSUME NEW a \in Node, NEW b \in Node, X(a) = X(b), Y(a) = Y(b)
  PROVE  a = b
  BY RankOfCoordinates

\* What a router takes out of a ring or a buffer goes where it belongs.
LEMMA MovesBound ==
  ASSUME TypeOK, Bound, NEW n \in Node
  PROVE  /\ OutNorth(n).fc \in ColumnFlits(n) \cup {NoFlit}
         /\ CornerLeft(n) \in Seq(ColumnFlits(n))
         /\ ToCorner(n) \in ColumnFlits(n) \cup {NoFlit}
         /\ ToLocal(n) \in OwnFlits(n) \cup {NoFlit}
         /\ ToLocal2(n) \in OwnFlits(n) \cup {NoFlit}
  <1> DEFINE c == cornerFifo[n]
             q == sendFifo[n]
             south == inSouth[n].fc
             west == inWest[n].fc
  <1>1. /\ q \in Seq(Flit) /\ west \in Flit \cup {NoFlit}
        /\ c \in Seq(ColumnFlits(n)) /\ south \in ColumnFlits(n) \cup {NoFlit}
    BY DEF TypeOK, Port, Slot, Bound
  <1>2. q # <<>> => Head(q) \in Flit
    BY <1>1, TailIsSeq
  <1>3. c # <<>> => Head(c) \in ColumnFlits(n) /\ Tail(c) \in Seq(ColumnFlits(n))
    BY <1>1, TailIsSeq
  <1>4. c # <<>> /\ Head(c).dest = n => Head(c) \in OwnFlits(n)
    BY <1>3 DEF ColumnFlits, OwnFlits
  <1>5. ASSUME NEW fc \in Flit, X(fc.dest) = X(n) PROVE fc \in ColumnFlits(n)
    BY <1>5 DEF ColumnFlits
  <1>6. ASSUME NEW fc \in Flit, X(fc.dest) = X(n), Y(fc.dest) = Y(n) PROVE fc \in OwnFlits(n)
    <2>1. fc.dest \in Node
      BY DEF Flit
    <2> QED
      BY <1>6, <2>1, Crossing DEF OwnFlits
  <1>7. OutNorth(n).fc \in ColumnFlits(n) \cup {NoFlit}
    <2>1. InjectCorner(n) => c # <<>>
      BY DEF InjectCorner
    <2>2. SendNorth(n) => Head(q) \in ColumnFlits(n)
      BY <1>2, <1>5 DEF SendNorth, InColumn
    <2> QED
      BY <1>1, <1>3, <2>1, <2>2 DEF OutNorth, Wire
  <1>8. CornerLeft(n) \in Seq(ColumnFlits(n))
    BY <1>1, <1>3 DEF CornerLeft, InjectCorner, EjectCorner, EjectCorner2, CornerArrived
  <1>9. ToCorner(n) \in ColumnFlits(n) \cup {NoFlit}
    <2>1. TurnWest(n) => west \in ColumnFlits(n)
      BY <1>1, <1>5 DEF TurnWest, MayLeaveRow, WestArrives
    <2>2. SendCorner(n) => Head(q) \in ColumnFlits(n)
      BY <1>2, <1>5 DEF SendCorner, InColumn
    <2> QED
      BY <2>1, <2>2 DEF ToCorner
  <1>10. EjectWest(n) \/ EjectWest2(n) => west \in OwnFlits(n)
    BY <1>1, <1>6 DEF EjectWest, EjectWest2, MayLeaveRow, WestArrives, InRow
  <1>11. EjectCorner(n) \/ EjectCorner2(n) => Head(c) \in OwnFlits(n)
    BY <1>4 DEF EjectCorner, EjectCorner2, CornerArrived
  <1>12. EjectSouth(n) => south \in OwnFlits(n)
    <2>1. EjectSouth(n) => south # NoFlit /\ Y(south.dest) = Y(n)
      BY DEF EjectSouth, SouthArrives
    <2>2. south # NoFlit => south \in Flit /\ X(south.dest) = X(n)
      BY <1>1 DEF ColumnFlits
    <2> QED
      BY <1>6, <2>1, <2>2
  <1> QED
    BY <1>7, <1>8, <1>9, <1>10, <1>11, <1>12 DEF ToLocal, ToLocal2

\* One cycle moves no flit out of its column or past its destination.
LEMMA RouteKeepsBound ==
  ASSUME TypeOK, Bound, Route
  PROVE  Bound'
  <1> SUFFICES ASSUME NEW n \in Node
               PROVE  /\ inSouth'[n].fc \in ColumnFlits(n) \cup {NoFlit}
                      /\ cornerFifo'[n] \in Seq(ColumnFlits(n))
                      /\ delay'[n] \in [{0, 1} -> OwnFlits(n) \cup {NoFlit}]
                      /\ recvFifo'[n] \in Seq(OwnFlits(n))
    BY DEF Bound, ColumnFlits, OwnFlits
  <1>1. NoFlit \notin ColumnFlits(n) /\ NoFlit \notin OwnFlits(n)
    BY PnAssumption DEF ColumnFlits, OwnFlits
  <1>2. inSouth'[n].fc \in ColumnFlits(n) \cup {NoFlit}
    <2>1. South(n) \in Node /\ X(South(n)) = X(n)
      BY Neighbours, Opposite
    <2>2. ColumnFlits(South(n)) = ColumnFlits(n)
      BY <2>1 DEF ColumnFlits
    <2> QED
      BY <2>1, <2>2, MovesBound DEF Route
  <1>3. cornerFifo'[n] \in Seq(ColumnFlits(n))
    <2>1. Inserted(CornerLeft(n), ToCorner(n)) \in Seq(ColumnFlits(n))
      BY <1>1, MovesBound, InsertedIsSeq
    <2> QED
      BY <2>1 DEF Route
  <1>4. delay'[n] \in [{0, 1} -> OwnFlits(n) \cup {NoFlit}]
    <2>1. delay[n][1] \in OwnFlits(n) \cup {NoFlit}
      BY DEF Bound
    <2>2. DelayAfter(n) \in [{0, 1} -> OwnFlits(n) \cup {NoFlit}]
      BY <2>1, MovesBound DEF DelayAfter
    <2> QED
      BY <2>2 DEF Route
  <1>5. recvFifo'[n] \in Seq(OwnFlits(n))
    <2>1. recvFifo[n] \in Seq(OwnFlits(n)) /\ delay[n][0] \in OwnFlits(n) \cup {NoFlit}
      BY DEF Bound
    <2>2. RecvWith2(n) \in Seq(OwnFlits(n))
      BY <1>1, <2>1, MovesBound, InsertedIsSeq DEF RecvWith2
    <2>3. RecvAfter(n) \in Seq(OwnFlits(n))
      BY <1>1, <2>1, <2>2, InsertedIsSeq DEF RecvAfter
    <2> QED
      BY <2>3 DEF Route
  <1> QED
    BY <1>2, <1>3, <1>4, <1>5

\* Every cycle and every call keeps the flits where they belong.
LEMMA BoundStep == TypeOK /\ Bound /\ [Next]_vars => Bound'
  <1> SUFFICES ASSUME TypeOK, Bound, [Next]_vars PROVE Bound'
    OBVIOUS
  <1>1. CASE RouteAll
    <2>1. CASE Route
      BY <2>1, RouteKeepsBound
    <2>2. CASE UNCHANGED <<buffers, rings>>
      BY <2>2 DEF Bound, buffers, rings, ColumnFlits, OwnFlits
    <2> QED
      BY <1>1, <2>1, <2>2 DEF RouteAll
  <1>2. ASSUME NEW f \in Flows, Send(f) PROVE Bound'
    BY <1>2 DEF Send, rings, Bound, ColumnFlits, OwnFlits
  <1>3. ASSUME NEW f \in Flows, Recv(f) PROVE Bound'
    <2> DEFINE d == f[2]
               q == recvFifo[d]
    <2>1. d \in Node /\ q \in Seq(OwnFlits(d))
      BY PnAssumption DEF Bound
    <2>2. PICK k \in 1 .. Len(q) :
            recvFifo' = [recvFifo EXCEPT
              ![d] = [j \in 1 .. Len(@) - 1 |-> IF j < k THEN @[j] ELSE @[j + 1]]]
      BY <1>3 DEF Recv
    <2> DEFINE r == [j \in 1 .. Len(q) - 1 |-> IF j < k THEN q[j] ELSE q[j + 1]]
    <2>3. recvFifo' = [recvFifo EXCEPT ![d] = r]
      BY <2>2
    <2>4. r \in Seq(OwnFlits(d))
      BY <2>1, RemovedIsSeq
    <2> HIDE DEF r
    <2>5. ASSUME NEW n \in Node PROVE recvFifo'[n] \in Seq(OwnFlits(n))
      BY <2>3, <2>4 DEF Bound, TypeOK
    <2> QED
      BY <1>3, <2>5 DEF Recv, rings, Bound, ColumnFlits, OwnFlits
  <1>4. CASE UNCHANGED vars
    BY <1>4 DEF vars, buffers, rings, Bound, ColumnFlits, OwnFlits
  <1> QED
    BY <1>1, <1>2, <1>3, <1>4 DEF Next

\* The flit fc is number i of the buffer q; of part b of router n.
Holds(q, i, fc) == i \in DOMAIN q /\ q[i] = fc
At(fc, b, n, i) == Holds(Held(n)[b], i, fc)

\* The places of a flit are those where it is.
LEMMA PlacesAre ==
  ASSUME NEW fc
  PROVE  /\ \A b \in Part, n \in Node : \A i : <<b, n, i>> \in Places(fc) <=> At(fc, b, n, i)
         /\ \A p \in Places(fc) :
              \E b \in Part, n \in Node : \E i : At(fc, b, n, i) /\ p = <<b, n, i>>
  <1> DEFINE numbers(b, n) == {i \in DOMAIN Held(n)[b] : Held(n)[b][i] = fc}
             there(b, n) == {<<b, n, i>> : i \in numbers(b, n)}
  <1>1. Places(fc) = UNION {there(b, n) : b \in Part, n \in Node}
    BY DEF Places
  <1>2. \A b, n, i : i \in numbers(b, n) <=> At(fc, b, n, i)
    BY DEF At, Holds
  <1> HIDE DEF numbers
  <1>3. ASSUME NEW p \in Places(fc)
        PROVE  \E b \in Part, n \in Node : \E i : At(fc, b, n, i) /\ p = <<b, n, i>>
    <2>1. PICK b \in Part, n \in Node : p \in there(b, n)
      BY <1>1
    <2> QED
      BY <1>2, <2>1
  <1>4. ASSUME NEW b \in Part, NEW n \in Node, NEW i, At(fc, b, n, i)
        PROVE  <<b, n, i>> \in Places(fc)
    <2>1. <<b, n, i>> \in there(b, n)
      BY <1>2, <1>4
    <2> HIDE DEF there
    <2> QED
      BY <1>1, <2>1
  <1> QED
    BY <1>3, <1>4

\* The same of the next state.
LEMMA PlacesWillBe ==
  ASSUME NEW fc
  PROVE  /\ \A b \in Part, n \in Node : \A i : <<b, n, i>> \in Places(fc)' <=> At(fc, b, n, i)'
         /\ \A p \in Places(fc)' :
              \E b \in Part, n \in Node : \E i : At(fc, b, n, i)' /\ p = <<b, n, i>>
  <1> DEFINE numbers(b, n) == {i \in DOMAIN Held(n)'[b] : Held(n)'[b][i] = fc}
             there(b, n) == {<<b, n, i>> : i \in numbers(b, n)}
  <1>1. Places(fc)' = UNION {there(b, n) : b \in Part, n \in Node}
    BY DEF Places
  <1>2. \A b, n, i : i \in numbers(b, n) <=> At(fc, b, n, i)'
    BY DEF At, Holds
  <1> HIDE DEF numbers
  <1>3. ASSUME NEW p \in Places(fc)'
        PROVE  \E b \in Part, n \in Node : \E i : At(fc, b, n, i)' /\ p = <<b, n, i>>
    <2>1. PICK b \in Part, n \in Node : p \in there(b, n)
      BY <1>1
    <2> QED
      BY <1>2, <2>1
  <1>4. ASSUME NEW b \in Part, NEW n \in Node, NEW i, At(fc, b, n, i)'
        PROVE  <<b, n, i>> \in Places(fc)'
    <2>1. <<b, n, i>> \in there(b, n)
      BY <1>2, <1>4
    <2> HIDE DEF there
    <2> QED
      BY <1>1, <2>1
  <1> QED
    BY <1>3, <1>4

\* What is in each part.
LEMMA PartsHold ==
  ASSUME NEW fc, NEW n, NEW i
  PROVE  /\ At(fc, "south", n, i) <=> i = 1 /\ inSouth[n].fc = fc
         /\ At(fc, "west", n, i) <=> i = 1 /\ inWest[n].fc = fc
         /\ At(fc, "delay", n, i) <=> \/ i = 1 /\ delay[n][0] = fc
                                      \/ i = 2 /\ delay[n][1] = fc
         /\ At(fc, "send", n, i) <=> Holds(sendFifo[n], i, fc)
         /\ At(fc, "corner", n, i) <=> Holds(cornerFifo[n], i, fc)
         /\ At(fc, "recv", n, i) <=> Holds(recvFifo[n], i, fc)
  BY DEF At, Holds, Held

LEMMA PartsWillHold ==
  ASSUME NEW fc, NEW n, NEW i
  PROVE  /\ At(fc, "south", n, i)' <=> i = 1 /\ inSouth'[n].fc = fc
         /\ At(fc, "west", n, i)' <=> i = 1 /\ inWest'[n].fc = fc
         /\ At(fc, "delay", n, i)' <=> \/ i = 1 /\ delay'[n][0] = fc
                                       \/ i = 2 /\ delay'[n][1] = fc
         /\ At(fc, "send", n, i)' <=> Holds(sendFifo'[n], i, fc)
         /\ At(fc, "corner", n, i)' <=> Holds(cornerFifo'[n], i, fc)
         /\ At(fc, "recv", n, i)' <=> Holds(recvFifo'[n], i, fc)
  BY DEF At, Holds, Held

\* Behind the oldest flit of a buffer, the others have moved up by one.
LEMMA TailHolds ==
  ASSUME NEW S, NEW q \in Seq(S), q # <<>>, NEW fc, NEW i
  PROVE  /\ Holds(Tail(q), i, fc) => Holds(q, i + 1, fc) /\ i \in Nat
         /\ Holds(q, i, fc) => (i = 1 /\ Head(q) = fc) \/ (i # 1 /\ Holds(Tail(q), i - 1, fc))
         /\ Holds(q, 1, Head(q))
  <1>1. Len(q) \in Nat /\ Len(q) > 0 /\ DOMAIN q = 1 .. Len(q) /\ Head(q) = q[1]
    OBVIOUS
  <1>2. DOMAIN Tail(q) = 1 .. Len(q) - 1 /\ \A j \in 1 .. Len(q) - 1 : Tail(q)[j] = q[j + 1]
    OBVIOUS
  <1>3. Holds(Tail(q), i, fc) => Holds(q, i + 1, fc) /\ i \in Nat
    BY <1>1, <1>2 DEF Holds
  <1>4. Holds(q, i, fc) => (i = 1 /\ Head(q) = fc) \/ (i # 1 /\ Holds(Tail(q), i - 1, fc))
    <2>1. ASSUME i \in 2 .. Len(q) PROVE i - 1 \in 1 .. Len(q) - 1 /\ (i - 1) + 1 = i
      BY <1>1, <2>1
    <2>2. Holds(q, i, fc) => i \in 1 .. Len(q) /\ q[i] = fc
      BY <1>1 DEF Holds
    <2>3. ASSUME i \in 2 .. Len(q), q[i] = fc PROVE Holds(Tail(q), i - 1, fc)
      BY <1>2, <2>1, <2>3 DEF Holds
    <2>4. i \in 1 .. Len(q) => i = 1 \/ i \in 2 .. Len(q)
      BY <1>1
    <2>5. ASSUME Holds(q, i, fc), i = 1 PROVE Head(q) = fc
      BY <1>1, <2>2, <2>5
    <2>6. ASSUME Holds(q, i, fc), i # 1 PROVE Holds(Tail(q), i - 1, fc)
      BY <2>2, <2>3, <2>4, <2>6
    <2> QED
      BY <2>5, <2>6
  <1>5. Holds(q, 1, Head(q))
    BY <1>1 DEF Holds
  <1> QED
    BY <1>3, <1>4, <1>5

\* flitfifo_insert puts the flit behind the others.
LEMMA InsertedHolds ==
  ASSUME NEW S, NEW q \in Seq(S), NEW e \in S \cup {NoFlit}, NEW fc \in S, NoFlit \notin S, NEW i
  PROVE  Holds(Inserted(q, e), i, fc) <=> Holds(q, i, fc) \/ (e = fc /\ i = Len(q) + 1)
  <1>1. CASE e = NoFlit
    BY <1>1 DEF Inserted
  <1>2. CASE e # NoFlit
    BY <1>2 DEF Inserted, Holds
  <1> QED
    BY <1>1, <1>2

\* No router takes two ways with one flit, nor two flits to one place.
LEMMA OneWay ==
  ASSUME NEW n \in Node
  PROVE  /\ ~(SendNorth(n) /\ SendEast(n)) /\ ~(SendNorth(n) /\ SendCorner(n))
         /\ ~(SendEast(n) /\ SendCorner(n))
         /\ ~(InjectCorner(n) /\ EjectCorner(n)) /\ ~(InjectCorner(n) /\ EjectCorner2(n))
         /\ ~(EjectCorner(n) /\ EjectCorner2(n))
         /\ ~(EjectWest(n) /\ EjectWest2(n)) /\ ~(EjectWest(n) /\ TurnWest(n))
         /\ ~(EjectWest2(n) /\ TurnWest(n))
  <1>1. /\ ~(SendNorth(n) /\ SendEast(n)) /\ ~(SendNorth(n) /\ SendCorner(n))
        /\ ~(SendEast(n) /\ SendCorner(n))
    BY DEF SendNorth, SendEast, SendCorner
  <1>2. /\ ~(InjectCorner(n) /\ EjectCorner(n)) /\ ~(InjectCorner(n) /\ EjectCorner2(n))
        /\ ~(EjectCorner(n) /\ EjectCorner2(n))
    BY DEF EjectCorner, EjectCorner2
  <1>3. /\ ~(EjectWest(n) /\ EjectWest2(n)) /\ ~(EjectWest(n) /\ TurnWest(n))
        /\ ~(EjectWest2(n) /\ TurnWest(n))
    BY DEF EjectWest, EjectWest2, TurnWest
  <1> QED
    BY <1>1, <1>2, <1>3

\* The output to the north carries one flit, or none.
LEMMA NorthCarries ==
  ASSUME NEW n \in Node
  PROVE  /\ NorthTaken(n) => OutNorth(n).fc = inSouth[n].fc
         /\ SendNorth(n) => OutNorth(n).fc = Head(sendFifo[n])
         /\ InjectCorner(n) => OutNorth(n).fc = Head(cornerFifo[n])
         /\ NorthTaken(n) \/ SendNorth(n) \/ InjectCorner(n) \/ OutNorth(n).fc = NoFlit
  <1>1. /\ ~(SendNorth(n) /\ NorthTaken(n)) /\ ~(SendNorth(n) /\ InjectCorner(n))
        /\ ~(InjectCorner(n) /\ NorthTaken(n))
    BY DEF SendNorth, InjectCorner
  <1> QED
    BY <1>1 DEF OutNorth, Wire

\* The output to the east carries one flit, or none.
LEMMA EastCarries ==
  ASSUME NEW n \in Node
  PROVE  /\ EastTaken(n) => OutEast(n).fc = inWest[n].fc
         /\ SendEast(n) => OutEast(n).fc = Head(sendFifo[n])
         /\ EastTaken(n) \/ SendEast(n) \/ OutEast(n).fc = NoFlit
  <1>1. ~(SendEast(n) /\ EastTaken(n))
    BY DEF SendEast
  <1> QED
    BY <1>1 DEF OutEast, Wire

\* So do the corner buffer's input and both ejection ports.
LEMMA PortsCarry ==
  ASSUME NEW n \in Node
  PROVE  /\ TurnWest(n) => ToCorner(n) = inWest[n].fc
         /\ SendCorner(n) => ToCorner(n) = Head(sendFifo[n])
         /\ TurnWest(n) \/ SendCorner(n) \/ ToCorner(n) = NoFlit
         /\ EjectSouth(n) => ToLocal(n) = inSouth[n].fc
         /\ EjectWest(n) => ToLocal(n) = inWest[n].fc
         /\ EjectCorner(n) => ToLocal(n) = Head(cornerFifo[n])
         /\ EjectSouth(n) \/ EjectWest(n) \/ EjectCorner(n) \/ ToLocal(n) = NoFlit
         /\ EjectWest2(n) => ToLocal2(n) = inWest[n].fc
         /\ EjectCorner2(n) => ToLocal2(n) = Head(cornerFifo[n])
         /\ EjectWest2(n) \/ EjectCorner2(n) \/ ToLocal2(n) = NoFlit
  <1>1. /\ TurnWest(n) => ToCorner(n) = inWest[n].fc
        /\ SendCorner(n) => ToCorner(n) = Head(sendFifo[n])
        /\ TurnWest(n) \/ SendCorner(n) \/ ToCorner(n) = NoFlit
    <2>1. ~(SendCorner(n) /\ TurnWest(n))
      BY DEF SendCorner
    <2> QED
      BY <2>1 DEF ToCorner
  <1>2. /\ EjectSouth(n) => ToLocal(n) = inSouth[n].fc
        /\ EjectWest(n) => ToLocal(n) = inWest[n].fc
        /\ EjectCorner(n) => ToLocal(n) = Head(cornerFifo[n])
        /\ EjectSouth(n) \/ EjectWest(n) \/ EjectCorner(n) \/ ToLocal(n) = NoFlit
    <2>1. /\ ~(EjectWest(n) /\ EjectSouth(n)) /\ ~(EjectCorner(n) /\ EjectSouth(n))
          /\ ~(EjectCorner(n) /\ EjectWest(n))
      BY DEF EjectWest, EjectCorner
    <2> QED
      BY <2>1 DEF ToLocal
  <1>3. /\ EjectWest2(n) => ToLocal2(n) = inWest[n].fc
        /\ EjectCorner2(n) => ToLocal2(n) = Head(cornerFifo[n])
        /\ EjectWest2(n) \/ EjectCorner2(n) \/ ToLocal2(n) = NoFlit
    <2>1. ~(EjectWest2(n) /\ EjectCorner2(n))
      BY DEF EjectWest2, EjectCorner2
    <2> QED
      BY <2>1 DEF ToLocal2
  <1> QED
    BY <1>1, <1>2, <1>3

\* What a cycle leaves where.
LEMMA Outcome ==
  ASSUME Route, NEW n \in Node
  PROVE  /\ inSouth'[n] = OutNorth(South(n)) /\ inSouth'[North(n)] = OutNorth(n)
         /\ inWest'[n] = OutEast(West(n)) /\ inWest'[East(n)] = OutEast(n)
         /\ delay'[n][0] = delay[n][1] /\ delay'[n][1] = ToLocal(n)
         /\ sendFifo'[n] = SendAfter(n)
         /\ cornerFifo'[n] = Inserted(CornerLeft(n), ToCorner(n))
         /\ recvFifo'[n] = Inserted(RecvWith2(n), delay[n][0])
  BY Neighbours, Opposite DEF Route, DelayAfter, RecvAfter

\* Where a cycle takes the flit at place i of part b of router n: onwards on its
\* ring, out of it, or up in its buffer once the oldest flit has left that.
After(b, n, i) ==
  CASE b = "south" ->
         IF EjectSouth(n) THEN <<"delay", n, 2>> ELSE <<"south", North(n), 1>>
    [] b = "west" ->
         IF EjectWest(n) THEN <<"delay", n, 2>>
         ELSE IF EjectWest2(n) THEN <<"recv", n, Len(recvFifo[n]) + 1>>
         ELSE IF TurnWest(n) THEN <<"corner", n, Len(CornerLeft(n)) + 1>>
         ELSE <<"west", East(n), 1>>
    [] b = "delay" ->
         IF i = 2 THEN <<"delay", n, 1>> ELSE <<"recv", n, Len(RecvWith2(n)) + 1>>
    [] b = "send" ->
         IF SendNorth(n) \/ SendCorner(n) \/ SendEast(n)
         THEN IF i # 1 THEN <<"send", n, i - 1>>
              ELSE IF SendNorth(n) THEN <<"south", North(n), 1>>
              ELSE IF SendEast(n) THEN <<"west", East(n), 1>>
              ELSE <<"corner", n, Len(CornerLeft(n)) + 1>>
         ELSE <<"send", n, i>>
    [] b = "corner" ->
         IF InjectCorner(n) \/ EjectCorner(n) \/ EjectCorner2(n)
         THEN IF i # 1 THEN <<"corner", n, i - 1>>
              ELSE IF InjectCorner(n) THEN <<"south", North(n), 1>>
              ELSE IF EjectCorner(n) THEN <<"delay", n, 2>>
              ELSE <<"recv", n, Len(recvFifo[n]) + 1>>
         ELSE <<"corner", n, i>>
    [] b = "recv" -> <<"recv", n, i>>

\* Which flits are where after a cycle.
LEMMA WillHold ==
  ASSUME TypeOK, Route, NEW n \in Node, NEW fc \in Flit, NEW i
  PROVE  /\ At(fc, "south", n, i)' <=> i = 1 /\ OutNorth(South(n)).fc = fc
         /\ At(fc, "south", North(n), i)' <=> i = 1 /\ OutNorth(n).fc = fc
         /\ At(fc, "west", n, i)' <=> i = 1 /\ OutEast(West(n)).fc = fc
         /\ At(fc, "west", East(n), i)' <=> i = 1 /\ OutEast(n).fc = fc
         /\ At(fc, "delay", n, i)' <=> \/ i = 1 /\ delay[n][1] = fc
                                       \/ i = 2 /\ ToLocal(n) = fc
         /\ At(fc, "send", n, i)' <=> Holds(SendAfter(n), i, fc)
         /\ At(fc, "corner", n, i)' <=> \/ Holds(CornerLeft(n), i, fc)
                                        \/ ToCorner(n) = fc /\ i = Len(CornerLeft(n)) + 1
         /\ At(fc, "recv", n, i)' <=> \/ Holds(recvFifo[n], i, fc)
                                      \/ ToLocal2(n) = fc /\ i = Len(recvFifo[n]) + 1
                                      \/ delay[n][0] = fc /\ i = Len(RecvWith2(n)) + 1
  <1>1. Slot = Flit \cup {NoFlit} /\ NoFlit \notin Flit
    BY PnAssumption DEF Slot
  <1>2. /\ CornerLeft(n) \in Seq(Flit) /\ ToCorner(n) \in Flit \cup {NoFlit}
        /\ recvFifo[n] \in Seq(Flit) /\ ToLocal2(n) \in Flit \cup {NoFlit}
        /\ delay[n][0] \in Flit \cup {NoFlit}
    BY <1>1, MovesTyped DEF TypeOK
  <1>3. RecvWith2(n) \in Seq(Flit)
    BY <1>1, <1>2, InsertedIsSeq DEF RecvWith2
  <1>4. Holds(cornerFifo'[n], i, fc) <=>
          Holds(CornerLeft(n), i, fc) \/ (ToCorner(n) = fc /\ i = Len(CornerLeft(n)) + 1)
    BY <1>1, <1>2, InsertedHolds, Outcome
  <1>5. Holds(RecvWith2(n), i, fc) <=>
          Holds(recvFifo[n], i, fc) \/ (ToLocal2(n) = fc /\ i = Len(recvFifo[n]) + 1)
    BY <1>1, <1>2, InsertedHolds DEF RecvWith2
  <1>6. Holds(recvFifo'[n], i, fc) <=>
          Holds(RecvWith2(n), i, fc) \/ (delay[n][0] = fc /\ i = Len(RecvWith2(n)) + 1)
    BY <1>1, <1>2, <1>3, InsertedHolds, Outcome
  <1>7. /\ At(fc, "south", n, i)' <=> i = 1 /\ OutNorth(South(n)).fc = fc
        /\ At(fc, "south", North(n), i)' <=> i = 1 /\ OutNorth(n).fc = fc
        /\ At(fc, "west", n, i)' <=> i = 1 /\ OutEast(West(n)).fc = fc
        /\ At(fc, "west", East(n), i)' <=> i = 1 /\ OutEast(n).fc = fc
    BY PartsWillHold, Outcome
  <1>8. /\ At(fc, "delay", n, i)' <=> \/ i = 1 /\ delay[n][1] = fc
                                      \/ i = 2 /\ ToLocal(n) = fc
        /\ At(fc, "send", n, i)' <=> Holds(SendAfter(n), i, fc)
    BY PartsWillHold, Outcome
  <1> QED
    BY <1>4, <1>5, <1>6, <1>7, <1>8, PartsWillHold

\* A cycle keeps every flit: it is where After says.
LEMMA FlitsArrive ==
  ASSUME TypeOK, Route, NEW fc \in Flit, NEW b \in Part, NEW n \in Node, NEW i, At(fc, b, n, i)
  PROVE  After(b, n, i) \in Places(fc)'
  <1>1. North(n) \in Node /\ East(n) \in Node /\ fc # NoFlit
    BY Neighbours, PnAssumption
  <1>2. ASSUME NEW c \in Part, NEW m \in Node, NEW j, At(fc, c, m, j)', After(b, n, i) = <<c, m, j>>
        PROVE  After(b, n, i) \in Places(fc)'
    BY <1>2, PlacesWillBe
  <1>3. CASE b = "south"
    <2>1. i = 1 /\ inSouth[n].fc = fc
      BY <1>3, PartsHold
    <2>2. CASE EjectSouth(n)
      <3>1. At(fc, "delay", n, 2)'
        BY <2>1, <2>2, PortsCarry, WillHold
      <3> QED
        BY <1>2, <1>3, <2>2, <3>1 DEF After, Part
    <2>3. CASE ~EjectSouth(n)
      <3>1. NorthTaken(n)
        BY <1>1, <2>1, <2>3 DEF NorthTaken
      <3>2. At(fc, "south", North(n), 1)'
        BY <2>1, <3>1, NorthCarries, WillHold
      <3> QED
        BY <1>1, <1>2, <1>3, <2>3, <3>2 DEF After, Part
    <2> QED
      BY <2>2, <2>3
  <1>4. CASE b = "west"
    <2>1. i = 1 /\ inWest[n].fc = fc
      BY <1>4, PartsHold
    <2>2. CASE EjectWest(n)
      <3>1. At(fc, "delay", n, 2)'
        BY <2>1, <2>2, PortsCarry, WillHold
      <3> QED
        BY <1>2, <1>4, <2>2, <3>1 DEF After, Part
    <2>3. CASE EjectWest2(n)
      <3>1. PICK j : j = Len(recvFifo[n]) + 1
        OBVIOUS
      <3>2. At(fc, "recv", n, j)'
        BY <3>1, <2>1, <2>3, PortsCarry, WillHold
      <3> QED
        BY <1>2, <1>4, <2>3, <3>1, <3>2, OneWay DEF After, Part
    <2>4. CASE TurnWest(n)
      <3>1. PICK j : j = Len(CornerLeft(n)) + 1
        OBVIOUS
      <3>2. At(fc, "corner", n, j)'
        BY <3>1, <2>1, <2>4, PortsCarry, WillHold
      <3> QED
        BY <1>2, <1>4, <2>4, <3>1, <3>2, OneWay DEF After, Part
    <2>5. CASE ~LeavesRow(n)
      <3>1. EastTaken(n)
        BY <1>1, <2>1, <2>5 DEF EastTaken
      <3>2. At(fc, "west", East(n), 1)'
        BY <2>1, <3>1, EastCarries, WillHold
      <3> QED
        BY <1>1, <1>2, <1>4, <2>5, <3>2 DEF After, Part, LeavesRow
    <2> QED
      BY <2>2, <2>3, <2>4, <2>5 DEF LeavesRow
  <1>5. CASE b = "delay"
    <2>1. (i = 1 /\ delay[n][0] = fc) \/ (i = 2 /\ delay[n][1] = fc)
      BY <1>5, PartsHold
    <2>2. CASE i = 1
      <3>1. PICK j : j = Len(RecvWith2(n)) + 1
        OBVIOUS
      <3>2. At(fc, "recv", n, j)'
        BY <3>1, <2>1, <2>2, WillHold
      <3> QED
        BY <1>2, <1>5, <2>2, <3>1, <3>2 DEF After, Part
    <2>3. CASE i = 2
      <3>1. At(fc, "delay", n, 1)'
        BY <2>1, <2>3, WillHold
      <3> QED
        BY <1>2, <1>5, <2>3, <3>1 DEF After, Part
    <2> QED
      BY <2>1, <2>2, <2>3
  <1>6. CASE b = "send"
    <2>1. Holds(sendFifo[n], i, fc) /\ sendFifo[n] \in Seq(Flit)
      BY <1>6, PartsHold DEF TypeOK
    <2>2. sendFifo[n] # <<>>
      BY <2>1 DEF Holds
    <2>3. CASE ~(SendNorth(n) \/ SendCorner(n) \/ SendEast(n))
      <3>1. At(fc, "send", n, i)'
        BY <2>1, <2>3, WillHold DEF SendAfter
      <3> QED
        BY <1>2, <1>6, <2>3, <3>1 DEF After, Part
    <2>4. CASE (SendNorth(n) \/ SendCorner(n) \/ SendEast(n)) /\ i # 1
      <3>1. Holds(Tail(sendFifo[n]), i - 1, fc)
        BY <2>1, <2>2, <2>4, TailHolds
      <3>2. At(fc, "send", n, i - 1)'
        BY <2>4, <3>1, WillHold DEF SendAfter
      <3> QED
        BY <1>2, <1>6, <2>4, <3>2 DEF After, Part
    <2>5. CASE i = 1
      <3>1. Head(sendFifo[n]) = fc
        BY <2>1, <2>2, <2>5, TailHolds
      <3>2. CASE SendNorth(n)
        <4>1. At(fc, "south", North(n), 1)'
          BY <3>1, <3>2, NorthCarries, WillHold
        <4> QED
          BY <1>1, <1>2, <1>6, <2>5, <3>2, <4>1 DEF After, Part
      <3>3. CASE SendEast(n)
        <4>1. At(fc, "west", East(n), 1)'
          BY <3>1, <3>3, EastCarries, WillHold
        <4> QED
          BY <1>1, <1>2, <1>6, <2>5, <3>3, <4>1, OneWay DEF After, Part
      <3>4. CASE SendCorner(n)
        <4>1. PICK j : j = Len(CornerLeft(n)) + 1
          OBVIOUS
        <4>2. At(fc, "corner", n, j)'
          BY <4>1, <3>1, <3>4, PortsCarry, WillHold
        <4> QED
          BY <1>2, <1>6, <2>5, <3>4, <4>1, <4>2, OneWay DEF After, Part
      <3> QED
        BY <2>3, <3>2, <3>3, <3>4
    <2> QED
      BY <2>3, <2>4, <2>5
  <1>7. CASE b = "corner"
    <2>1. Holds(cornerFifo[n], i, fc) /\ cornerFifo[n] \in Seq(Flit)
      BY <1>7, PartsHold DEF TypeOK
    <2>2. cornerFifo[n] # <<>>
      BY <2>1 DEF Holds
    <2>3. CASE ~(InjectCorner(n) \/ EjectCorner(n) \/ EjectCorner2(n))
      <3>1. At(fc, "corner", n, i)'
        BY <2>1, <2>3, WillHold DEF CornerLeft
      <3> QED
        BY <1>2, <1>7, <2>3, <3>1 DEF After, Part
    <2>4. CASE (InjectCorner(n) \/ EjectCorner(n) \/ EjectCorner2(n)) /\ i # 1
      <3>1. Holds(Tail(cornerFifo[n]), i - 1, fc)
        BY <2>1, <2>2, <2>4, TailHolds
      <3>2. At(fc, "corner", n, i - 1)'
        BY <2>4, <3>1, WillHold DEF CornerLeft
      <3> QED
        BY <1>2, <1>7, <2>4, <3>2 DEF After, Part
    <2>5. CASE i = 1
      <3>1. Head(cornerFifo[n]) = fc
        BY <2>1, <2>2, <2>5, TailHolds
      <3>2. CASE InjectCorner(n)
        <4>1. At(fc, "south", North(n), 1)'
          BY <3>1, <3>2, NorthCarries, WillHold
        <4> QED
          BY <1>1, <1>2, <1>7, <2>5, <3>2, <4>1 DEF After, Part
      <3>3. CASE EjectCorner(n)
        <4>1. At(fc, "delay", n, 2)'
          BY <3>1, <3>3, PortsCarry, WillHold
        <4> QED
          BY <1>2, <1>7, <2>5, <3>3, <4>1, OneWay DEF After, Part
      <3>4. CASE EjectCorner2(n)
        <4>1. PICK j : j = Len(recvFifo[n]) + 1
          OBVIOUS
        <4>2. At(fc, "recv", n, j)'
          BY <4>1, <3>1, <3>4, PortsCarry, WillHold
        <4> QED
          BY <1>2, <1>7, <2>5, <3>4, <4>1, <4>2, OneWay DEF After, Part
      <3> QED
        BY <2>3, <3>2, <3>3, <3>4
    <2> QED
      BY <2>3, <2>4, <2>5
  <1>8. CASE b = "recv"
    <2>1. At(fc, "recv", n, i)'
      BY <1>8, PartsHold, WillHold
    <2> QED
      BY <1>2, <1>8, <2>1 DEF After, Part
  <1> QED
    BY <1>3, <1>4, <1>5, <1>6, <1>7, <1>8 DEF Part

\* A cycle invents no flit: each one comes from where After took it.
LEMMA FlitsCome ==
  ASSUME TypeOK, Route, NEW fc \in Flit, NEW c \in Part, NEW m \in Node, NEW j, At(fc, c, m, j)'
  PROVE  \E b \in Part, n \in Node : \E i : At(fc, b, n, i) /\ After(b, n, i) = <<c, m, j>>
  <1> DEFINE Comes(b, n, i) == At(fc, b, n, i) /\ After(b, n, i) = <<c, m, j>>
  <1>1. ASSUME NEW b \in Part, NEW n \in Node, NEW i, Comes(b, n, i)
        PROVE  \E a \in Part, r \in Node : \E k : Comes(a, r, k)
    BY <1>1
  <1> SUFFICES \E b \in Part, n \in Node : \E i : Comes(b, n, i)
    OBVIOUS
  <1>2. fc # NoFlit /\ sendFifo[m] \in Seq(Flit) /\ cornerFifo[m] \in Seq(Flit)
    BY PnAssumption DEF TypeOK
  <1>3. ASSUME NEW n \in Node
        PROVE  /\ sendFifo[n] # <<>> /\ Head(sendFifo[n]) = fc => At(fc, "send", n, 1)
               /\ cornerFifo[n] # <<>> /\ Head(cornerFifo[n]) = fc => At(fc, "corner", n, 1)
    <2>1. sendFifo[n] \in Seq(Flit) /\ cornerFifo[n] \in Seq(Flit)
      BY DEF TypeOK
    <2>2. sendFifo[n] # <<>> => Holds(sendFifo[n], 1, Head(sendFifo[n]))
      BY <2>1, TailHolds
    <2>3. cornerFifo[n] # <<>> => Holds(cornerFifo[n], 1, Head(cornerFifo[n]))
      BY <2>1, TailHolds
    <2> QED
      BY <2>2, <2>3, PartsHold
  <1>4. CASE c = "south"
    <2>1. PICK n \in Node : n = South(m)
      BY Neighbours
    <2>2. North(n) = m /\ j = 1 /\ OutNorth(n).fc = fc
      BY <1>4, <2>1, Opposite, WillHold
    <2>3. CASE NorthTaken(n)
      <3>1. At(fc, "south", n, 1)
        BY <2>2, <2>3, NorthCarries, PartsHold
      <3>2. After("south", n, 1) = <<"south", m, 1>>
        BY <2>2, <2>3 DEF After, NorthTaken
      <3> QED
        BY <1>1, <1>4, <2>2, <3>1, <3>2 DEF Part
    <2>4. CASE SendNorth(n)
      <3>1. At(fc, "send", n, 1)
        BY <1>3, <2>2, <2>4, NorthCarries DEF SendNorth
      <3>2. After("send", n, 1) = <<"south", m, 1>>
        BY <2>2, <2>4 DEF After
      <3> QED
        BY <1>1, <1>4, <2>2, <3>1, <3>2 DEF Part
    <2>5. CASE InjectCorner(n)
      <3>1. At(fc, "corner", n, 1)
        BY <1>3, <2>2, <2>5, NorthCarries DEF InjectCorner
      <3>2. After("corner", n, 1) = <<"south", m, 1>>
        BY <2>2, <2>5 DEF After
      <3> QED
        BY <1>1, <1>4, <2>2, <3>1, <3>2 DEF Part
    <2> QED
      BY <1>2, <2>2, <2>3, <2>4, <2>5, NorthCarries
  <1>5. CASE c = "west"
    <2>1. PICK n \in Node : n = West(m)
      BY Neighbours
    <2>2. East(n) = m /\ j = 1 /\ OutEast(n).fc = fc
      BY <1>5, <2>1, Opposite, WillHold
    <2>3. CASE EastTaken(n)
      <3>1. At(fc, "west", n, 1)
        BY <2>2, <2>3, EastCarries, PartsHold
      <3>2. After("west", n, 1) = <<"west", m, 1>>
        BY <2>2, <2>3 DEF After, EastTaken, LeavesRow
      <3> QED
        BY <1>1, <1>5, <2>2, <3>1, <3>2 DEF Part
    <2>4. CASE SendEast(n)
      <3>1. At(fc, "send", n, 1)
        BY <1>3, <2>2, <2>4, EastCarries DEF SendEast
      <3>2. After("send", n, 1) = <<"west", m, 1>>
        BY <2>2, <2>4, OneWay DEF After
      <3> QED
        BY <1>1, <1>5, <2>2, <3>1, <3>2 DEF Part
    <2> QED
      BY <1>2, <2>2, <2>3, <2>4, EastCarries
  <1>6. CASE c = "delay"
    <2>1. (j = 1 /\ delay[m][1] = fc) \/ (j = 2 /\ ToLocal(m) = fc)
      BY <1>6, WillHold
    <2>2. CASE j = 1
      <3>1. At(fc, "delay", m, 2) /\ After("delay", m, 2) = <<"delay", m, 1>>
        BY <2>1, <2>2, PartsHold DEF After
      <3> QED
        BY <1>1, <1>6, <2>2, <3>1 DEF Part
    <2>3. CASE j = 2 /\ EjectSouth(m)
      <3>1. At(fc, "south", m, 1) /\ After("south", m, 1) = <<"delay", m, 2>>
        BY <2>1, <2>3, PortsCarry, PartsHold DEF After
      <3> QED
        BY <1>1, <1>6, <2>3, <3>1 DEF Part
    <2>4. CASE j = 2 /\ EjectWest(m)
      <3>1. At(fc, "west", m, 1) /\ After("west", m, 1) = <<"delay", m, 2>>
        BY <2>1, <2>4, PortsCarry, PartsHold DEF After
      <3> QED
        BY <1>1, <1>6, <2>4, <3>1 DEF Part
    <2>5. CASE j = 2 /\ EjectCorner(m)
      <3>1. At(fc, "corner", m, 1)
        BY <1>3, <2>1, <2>5, PortsCarry DEF EjectCorner, CornerArrived
      <3>2. After("corner", m, 1) = <<"delay", m, 2>>
        BY <2>5, OneWay DEF After
      <3> QED
        BY <1>1, <1>6, <2>5, <3>1, <3>2 DEF Part
    <2> QED
      BY <1>2, <2>1, <2>2, <2>3, <2>4, <2>5, PortsCarry
  <1>7. CASE c = "send"
    <2>1. Holds(SendAfter(m), j, fc)
      BY <1>7, WillHold
    <2>2. CASE SendNorth(m) \/ SendCorner(m) \/ SendEast(m)
      <3>1. sendFifo[m] # <<>> /\ SendAfter(m) = Tail(sendFifo[m])
        BY <2>2 DEF SendAfter, SendNorth, SendCorner, SendEast
      <3>2. Holds(sendFifo[m], j + 1, fc) /\ j \in Nat /\ j \in DOMAIN Tail(sendFifo[m])
        BY <1>2, <2>1, <3>1, TailHolds DEF Holds
      <3>3. j + 1 # 1 /\ (j + 1) - 1 = j
        BY <1>2, <3>2
      <3>4. After("send", m, j + 1) = <<"send", m, j>>
        BY <2>2, <3>3 DEF After
      <3> QED
        BY <1>1, <1>7, <3>2, <3>4, PartsHold DEF Part
    <2>3. CASE ~(SendNorth(m) \/ SendCorner(m) \/ SendEast(m))
      <3>1. At(fc, "send", m, j) /\ After("send", m, j) = <<"send", m, j>>
        BY <2>1, <2>3, PartsHold DEF SendAfter, After
      <3> QED
        BY <1>1, <1>7, <3>1 DEF Part
    <2> QED
      BY <2>2, <2>3
  <1>8. CASE c = "corner"
    <2>1. Holds(CornerLeft(m), j, fc) \/ (ToCorner(m) = fc /\ j = Len(CornerLeft(m)) + 1)
      BY <1>8, WillHold
    <2>2. CASE Holds(CornerLeft(m), j, fc) /\ (InjectCorner(m) \/ EjectCorner(m) \/ EjectCorner2(m))
      <3>1. cornerFifo[m] # <<>> /\ CornerLeft(m) = Tail(cornerFifo[m])
        BY <2>2 DEF CornerLeft, InjectCorner, EjectCorner, EjectCorner2, CornerArrived
      <3>2. Holds(cornerFifo[m], j + 1, fc) /\ j \in Nat /\ j \in DOMAIN Tail(cornerFifo[m])
        BY <1>2, <2>2, <3>1, TailHolds DEF Holds
      <3>3. j + 1 # 1 /\ (j + 1) - 1 = j
        BY <1>2, <3>2
      <3>4. After("corner", m, j + 1) = <<"corner", m, j>>
        BY <2>2, <3>3 DEF After
      <3> QED
        BY <1>1, <1>8, <3>2, <3>4, PartsHold DEF Part
    <2>3. CASE Holds(CornerLeft(m), j, fc) /\ ~(InjectCorner(m) \/ EjectCorner(m) \/ EjectCorner2(m))
      <3>1. At(fc, "corner", m, j) /\ After("corner", m, j) = <<"corner", m, j>>
        BY <2>3, PartsHold DEF CornerLeft, After
      <3> QED
        BY <1>1, <1>8, <3>1 DEF Part
    <2>4. CASE ToCorner(m) = fc /\ j = Len(CornerLeft(m)) + 1 /\ TurnWest(m)
      <3>1. At(fc, "west", m, 1)
        BY <2>4, PortsCarry, PartsHold
      <3>2. After("west", m, 1) = <<"corner", m, j>>
        BY <2>4, OneWay DEF After
      <3> QED
        BY <1>1, <1>8, <3>1, <3>2 DEF Part
    <2>5. CASE ToCorner(m) = fc /\ j = Len(CornerLeft(m)) + 1 /\ SendCorner(m)
      <3>1. At(fc, "send", m, 1)
        BY <1>3, <2>5, PortsCarry DEF SendCorner
      <3>2. After("send", m, 1) = <<"corner", m, j>>
        BY <2>5, OneWay DEF After
      <3> QED
        BY <1>1, <1>8, <3>1, <3>2 DEF Part
    <2> QED
      BY <1>2, <2>1, <2>2, <2>3, <2>4, <2>5, PortsCarry
  <1>9. CASE c = "recv"
    <2>1. \/ Holds(recvFifo[m], j, fc)
          \/ ToLocal2(m) = fc /\ j = Len(recvFifo[m]) + 1
          \/ delay[m][0] = fc /\ j = Len(RecvWith2(m)) + 1
      BY <1>9, WillHold
    <2>2. CASE Holds(recvFifo[m], j, fc)
      <3>1. At(fc, "recv", m, j) /\ After("recv", m, j) = <<"recv", m, j>>
        BY <2>2, PartsHold DEF After
      <3> QED
        BY <1>1, <1>9, <3>1 DEF Part
    <2>3. CASE ToLocal2(m) = fc /\ j = Len(recvFifo[m]) + 1 /\ EjectWest2(m)
      <3>1. At(fc, "west", m, 1)
        BY <2>3, PortsCarry, PartsHold
      <3>2. After("west", m, 1) = <<"recv", m, j>>
        BY <2>3, OneWay DEF After
      <3> QED
        BY <1>1, <1>9, <3>1, <3>2 DEF Part
    <2>4. CASE ToLocal2(m) = fc /\ j = Len(recvFifo[m]) + 1 /\ EjectCorner2(m)
      <3>1. At(fc, "corner", m, 1)
        BY <1>3, <2>4, PortsCarry DEF EjectCorner2, CornerArrived
      <3>2. After("corner", m, 1) = <<"recv", m, j>>
        BY <2>4, OneWay DEF After
      <3> QED
        BY <1>1, <1>9, <3>1, <3>2 DEF Part
    <2>5. CASE delay[m][0] = fc /\ j = Len(RecvWith2(m)) + 1
      <3>1. At(fc, "delay", m, 1) /\ After("delay", m, 1) = <<"recv", m, j>>
        BY <2>5, PartsHold DEF After
      <3> QED
        BY <1>1, <1>9, <3>1 DEF Part
    <2> QED
      BY <1>2, <2>1, <2>2, <2>3, <2>4, <2>5, PortsCarry
  <1> QED
    BY <1>4, <1>5, <1>6, <1>7, <1>8, <1>9 DEF Part

\* A cycle neither drops nor doubles a flit.
LEMMA RouteKeepsFlits ==
  ASSUME TypeOK, Route, NEW fc \in Flit
  PROVE  /\ Places(fc) = {} => Places(fc)' = {}
         /\ (\E p \in Places(fc) : Places(fc) = {p}) =>
              \E p \in Places(fc)' : Places(fc)' = {p}
  <1>1. ASSUME NEW q \in Places(fc)'
        PROVE  \E b \in Part, n \in Node : \E i :
                 <<b, n, i>> \in Places(fc) /\ After(b, n, i) = q
    <2>1. PICK c \in Part, m \in Node : \E j : At(fc, c, m, j)' /\ q = <<c, m, j>>
      BY PlacesWillBe
    <2>2. PICK j : At(fc, c, m, j)' /\ q = <<c, m, j>>
      BY <2>1
    <2>3. PICK b \in Part, n \in Node : \E i : At(fc, b, n, i) /\ After(b, n, i) = <<c, m, j>>
      BY <2>2, FlitsCome
    <2> QED
      BY <2>2, <2>3, PlacesAre
  <1>2. ASSUME NEW p \in Places(fc), Places(fc) = {p}
        PROVE  \E q \in Places(fc)' : Places(fc)' = {q}
    <2>1. PICK b \in Part, n \in Node : \E i : At(fc, b, n, i) /\ p = <<b, n, i>>
      BY PlacesAre
    <2>2. PICK i : At(fc, b, n, i) /\ p = <<b, n, i>>
      BY <2>1
    <2>3. PICK q : q = After(b, n, i)
      OBVIOUS
    <2>4. q \in Places(fc)'
      BY <2>2, <2>3, FlitsArrive
    <2>5. ASSUME NEW r \in Places(fc)' PROVE r = q
      <3>1. PICK a \in Part, m \in Node : \E j :
              <<a, m, j>> \in Places(fc) /\ After(a, m, j) = r
        BY <1>1
      <3>2. PICK j : <<a, m, j>> \in Places(fc) /\ After(a, m, j) = r
        BY <3>1
      <3>3. <<a, m, j>> = <<b, n, i>>
        BY <1>2, <2>2, <3>2
      <3>4. a = b /\ m = n /\ j = i
        BY <3>3
      <3> QED
        BY <2>3, <3>2, <3>4
    <2> QED
      BY <2>4, <2>5
  <1> QED
    BY <1>1, <1>2

-----------------------------------------------------------------------------
\* The calls of the cores.

\* A flit of the flow f.
FlitOf(f, k) == [src |-> f[1], dest |-> f[2], seq |-> k]

\* The flits of a flow are its own.
LEMMA FlitsOfFlows ==
  ASSUME NEW f \in Flows, NEW k \in 1 .. MaxFlits
  PROVE  /\ FlitOf(f, k) \in Flit
         /\ FlitOf(f, k).src = f[1] /\ FlitOf(f, k).dest = f[2] /\ FlitOf(f, k).seq = k
         /\ \A g \in Flows : \A l : FlitOf(g, l) = FlitOf(f, k) => g = f /\ l = k
  <1>1. \A g \in Flows : g = <<g[1], g[2]>> /\ g[1] \in Node /\ g[2] \in Node
    BY PnAssumption
  <1>2. /\ FlitOf(f, k) \in Flit
        /\ FlitOf(f, k).src = f[1] /\ FlitOf(f, k).dest = f[2] /\ FlitOf(f, k).seq = k
    BY <1>1 DEF FlitOf, Flit
  <1>3. ASSUME NEW g \in Flows, NEW l, FlitOf(g, l) = FlitOf(f, k) PROVE g = f /\ l = k
    <2>1. FlitOf(g, l).src = g[1] /\ FlitOf(g, l).dest = g[2] /\ FlitOf(g, l).seq = l
      BY DEF FlitOf
    <2> QED
      BY <1>1, <1>2, <1>3, <2>1
  <1> QED
    BY <1>2, <1>3

\* What Conservation says of one flit.
Conserved(f, k) ==
  /\ OnTheWay(f, k) => \E p \in Places(FlitOf(f, k)) : Places(FlitOf(f, k)) = {p}
  /\ ~OnTheWay(f, k) => Places(FlitOf(f, k)) = {}

LEMMA ConservationIs ==
  Conservation <=> \A f \in Flows : \A k \in 1 .. MaxFlits : Conserved(f, k)
  BY DEF Conservation, Conserved, FlitOf

LEMMA ConservationWillBe ==
  Conservation' <=> \A f \in Flows : \A k \in 1 .. MaxFlits : Conserved(f, k)'
  BY DEF Conservation, Conserved, FlitOf

\* pnconfig_send_flit puts one new flit behind the others of its buffer.
LEMMA SendPlaces ==
  ASSUME TypeOK, NEW f \in Flows, Send(f), NEW fc \in Flit
  PROVE  Places(fc)' = Places(fc) \cup
           IF fc = FlitOf(f, sent[f] + 1) THEN {<<"send", f[1], Len(sendFifo[f[1]]) + 1>>} ELSE {}
  <1> DEFINE s == f[1]
             q == sendFifo[s]
             new == FlitOf(f, sent[f] + 1)
  <1>1. s \in Node /\ q \in Seq(Flit) /\ sent[f] + 1 \in 1 .. MaxFlits
    BY PnAssumption DEF TypeOK, Send
  <1>2. new \in Flit
    BY <1>1, FlitsOfFlows
  <1>3. sendFifo' = [sendFifo EXCEPT ![s] = Append(q, new)]
    BY DEF Send, FlitOf
  <1> HIDE DEF new
  <1>4. ASSUME NEW i PROVE Holds(Append(q, new), i, fc) <=>
                             Holds(q, i, fc) \/ (new = fc /\ i = Len(q) + 1)
    BY <1>1, <1>2 DEF Holds
  <1>5. /\ recvFifo' = recvFifo /\ cornerFifo' = cornerFifo /\ delay' = delay
        /\ inSouth' = inSouth /\ inWest' = inWest
    BY DEF Send, rings
  <1>6. ASSUME NEW b \in Part, NEW n \in Node, NEW i
        PROVE  At(fc, b, n, i)' <=> \/ At(fc, b, n, i)
                                    \/ /\ new = fc
                                       /\ b = "send" /\ n = s /\ i = Len(q) + 1
    <2>1. CASE b # "send" \/ n # s
      BY <1>3, <1>5, <2>1, PartsHold, PartsWillHold DEF Part, TypeOK
    <2>2. CASE b = "send" /\ n = s
      BY <1>1, <1>3, <1>4, <2>2, PartsHold, PartsWillHold DEF TypeOK
    <2> QED
      BY <2>1, <2>2
  <1>7. ASSUME NEW p \in Places(fc)'
        PROVE  p \in Places(fc) \/ (new = fc /\ p = <<"send", s, Len(q) + 1>>)
    <2>1. PICK b \in Part, n \in Node : \E i : At(fc, b, n, i)' /\ p = <<b, n, i>>
      BY PlacesWillBe
    <2>2. PICK i : At(fc, b, n, i)' /\ p = <<b, n, i>>
      BY <2>1
    <2> QED
      BY <1>6, <2>2, PlacesAre
  <1>8. ASSUME NEW p \in Places(fc) PROVE p \in Places(fc)'
    <2>1. PICK b \in Part, n \in Node : \E i : At(fc, b, n, i) /\ p = <<b, n, i>>
      BY PlacesAre
    <2>2. PICK i : At(fc, b, n, i) /\ p = <<b, n, i>>
      BY <2>1
    <2> QED
      BY <1>6, <2>2, PlacesWillBe
  <1>9. new = fc => <<"send", s, Len(q) + 1>> \in Places(fc)'
    <2>1. PICK i : i = Len(q) + 1
      OBVIOUS
    <2>2. "send" \in Part
      BY DEF Part
    <2> QED
      BY <1>1, <1>6, <2>1, <2>2, PlacesWillBe
  <1> QED
    BY <1>7, <1>8, <1>9 DEF new

\* What was received was sent.
Known == \A f \in Flows : got[f] \subseteq 1 .. sent[f]

\* A call that sends a flit keeps Conservation: the new flit was nowhere before.
LEMMA SendKeepsFlits ==
  ASSUME TypeOK, Known, Conservation, NEW f \in Flows, Send(f)
  PROVE  Conservation'
  <1> SUFFICES ASSUME NEW g \in Flows, NEW k \in 1 .. MaxFlits PROVE Conserved(g, k)'
    BY ConservationWillBe
  <1>1. FlitOf(g, k) \in Flit /\ k \in Nat
    BY FlitsOfFlows, PnAssumption
  <1>2. Conserved(g, k)
    BY ConservationIs
  <1>3. got' = got /\ sent' = [sent EXCEPT ![f] = @ + 1]
    BY DEF Send
  <1>4. sent[f] \in Nat /\ sent[g] \in Nat /\ sent \in [Flows -> 0 .. MaxFlits]
    BY PnAssumption DEF TypeOK
  <1>5. CASE g = f /\ k = sent[f] + 1
    <2>1. ~(k <= sent[f]) /\ k \notin 1 .. sent[f]
      BY <1>4, <1>5
    <2>2. k \notin got[g] /\ ~OnTheWay(g, k)
      BY <1>5, <2>1 DEF Known, OnTheWay
    <2>3. sent'[g] = k
      BY <1>3, <1>4, <1>5
    <2>4. OnTheWay(g, k)'
      BY <1>1, <1>3, <2>2, <2>3 DEF OnTheWay
    <2>5. PICK p : p = <<"send", f[1], Len(sendFifo[f[1]]) + 1>>
      OBVIOUS
    <2>6. Places(FlitOf(g, k))' = {} \cup {p}
      BY <1>1, <1>2, <1>5, <2>2, <2>5, SendPlaces DEF Conserved
    <2> QED
      BY <2>4, <2>6 DEF Conserved, FlitOf
  <1>6. CASE ~(g = f /\ k = sent[f] + 1)
    <2>1. FlitOf(g, k) # FlitOf(f, sent[f] + 1)
      BY <1>6, FlitsOfFlows
    <2>2. Places(FlitOf(g, k))' = Places(FlitOf(g, k))
      BY <1>1, <2>1, SendPlaces
    <2>3. OnTheWay(g, k)' <=> OnTheWay(g, k)
      BY <1>1, <1>3, <1>4, <1>6 DEF OnTheWay
    <2> QED
      BY <1>2, <2>2, <2>3 DEF Conserved, FlitOf
  <1> QED
    BY <1>5, <1>6

\* Where the flit at place i of a part goes when flit e is taken out of the
\* receive buffer of router d.
MovedUp(d, e, b, n, i) == IF b = "recv" /\ n = d /\ i > e THEN i - 1 ELSE i

\* Before a flit left place e of the receive buffer of d, place p of fc was another one.
MovedTo(fc, d, e, p) ==
  \E b \in Part, n \in Node : \E i :
    /\ <<b, n, i>> \in Places(fc) /\ <<b, n, i>> # <<"recv", d, e>>
    /\ p = <<b, n, MovedUp(d, e, b, n, i)>>

\* A buffer without its flit e, as the code of Recv says.
Without(q, e) == [j \in 1 .. Len(q) - 1 |-> IF j < e THEN q[j] ELSE q[j + 1]]

\* The flits behind the one that flitfifo_remove takes out move up by one.
LEMMA RemovedHolds ==
  ASSUME NEW S, NEW q \in Seq(S), NEW e \in 1 .. Len(q), NEW fc, NEW i
  PROVE  /\ Holds(Without(q, e), i, fc) => i \in Nat /\ Holds(q, IF i < e THEN i ELSE i + 1, fc)
         /\ Holds(q, i, fc) =>
              i \in Nat /\ (i # e => Holds(Without(q, e), IF i > e THEN i - 1 ELSE i, fc))
  <1>1. Len(q) \in Nat /\ Len(q) > 0 /\ DOMAIN q = 1 .. Len(q)
    OBVIOUS
  <1> DEFINE r == Without(q, e)
  <1>2. /\ DOMAIN r = 1 .. Len(q) - 1
        /\ \A j \in 1 .. Len(q) - 1 : r[j] = IF j < e THEN q[j] ELSE q[j + 1]
    BY DEF Without
  <1> HIDE DEF r
  <1>3. ASSUME Holds(Without(q, e), i, fc)
        PROVE  i \in Nat /\ Holds(q, IF i < e THEN i ELSE i + 1, fc)
    <2>1. i \in 1 .. Len(q) - 1 /\ fc = IF i < e THEN q[i] ELSE q[i + 1]
      BY <1>1, <1>2, <1>3 DEF Holds, r
    <2> QED
      BY <1>1, <2>1 DEF Holds
  <1>4. ASSUME Holds(q, i, fc)
        PROVE  i \in Nat /\ (i # e => Holds(Without(q, e), IF i > e THEN i - 1 ELSE i, fc))
    <2>1. i \in 1 .. Len(q) /\ q[i] = fc
      BY <1>1, <1>4 DEF Holds
    <2>2. ASSUME i > e PROVE i - 1 \in 1 .. Len(q) - 1 /\ ~(i - 1 < e) /\ (i - 1) + 1 = i
      BY <1>1, <2>1, <2>2
    <2>3. ASSUME i < e PROVE i \in 1 .. Len(q) - 1 /\ ~(i > e)
      BY <1>1, <2>1, <2>3
    <2>4. CASE i > e
      BY <1>2, <2>1, <2>2, <2>4 DEF Holds, r
    <2>5. CASE i < e
      BY <1>2, <2>1, <2>3, <2>5 DEF Holds, r
    <2> QED
      BY <2>1, <2>4, <2>5
  <1> QED
    BY <1>3, <1>4

\* pnconfig_recv_flit takes one flit out of one buffer and keeps all others.
LEMMA RecvMoves ==
  ASSUME TypeOK, NEW d \in Node, NEW e \in 1 .. Len(recvFifo[d]),
         recvFifo'[d] = Without(recvFifo[d], e),
         \A m \in Node : m # d => recvFifo'[m] = recvFifo[m],
         sendFifo' = sendFifo, cornerFifo' = cornerFifo, delay' = delay,
         inSouth' = inSouth, inWest' = inWest,
         NEW fc, NEW b \in Part, NEW n \in Node
  PROVE  /\ \A i, j : /\ At(fc, b, n, i) /\ ~(b = "recv" /\ n = d /\ i = e)
                      /\ j = MovedUp(d, e, b, n, i)
                      => At(fc, b, n, j)'
         /\ \A j : At(fc, b, n, j)' =>
              \E i : /\ At(fc, b, n, i) /\ ~(b = "recv" /\ n = d /\ i = e)
                     /\ MovedUp(d, e, b, n, i) = j
  <1> DEFINE q == recvFifo[d]
  <1>1. CASE b # "recv" \/ n # d
    <2>1. n # d => recvFifo'[n] = recvFifo[n]
      OBVIOUS
    <2>2. ASSUME NEW i PROVE At(fc, b, n, i)' <=> At(fc, b, n, i)
      <3>1. b = "recv" => (At(fc, b, n, i)' <=> At(fc, b, n, i))
        BY <1>1, <2>1, PartsHold, PartsWillHold
      <3>2. b = "south" => (At(fc, b, n, i)' <=> At(fc, b, n, i))
        BY PartsHold, PartsWillHold
      <3>3. b = "west" => (At(fc, b, n, i)' <=> At(fc, b, n, i))
        BY PartsHold, PartsWillHold
      <3>4. b = "delay" => (At(fc, b, n, i)' <=> At(fc, b, n, i))
        BY PartsHold, PartsWillHold
      <3>5. b = "send" => (At(fc, b, n, i)' <=> At(fc, b, n, i))
        BY PartsHold, PartsWillHold
      <3>6. b = "corner" => (At(fc, b, n, i)' <=> At(fc, b, n, i))
        BY PartsHold, PartsWillHold
      <3> QED
        BY <3>1, <3>2, <3>3, <3>4, <3>5, <3>6 DEF Part
    <2> QED
      BY <1>1, <2>2 DEF MovedUp
  <1>2. CASE b = "recv" /\ n = d
    <2>1. q \in Seq(Flit) /\ recvFifo'[d] = Without(q, e)
      BY DEF TypeOK
    <2>2. \A i : (At(fc, b, n, i) <=> Holds(q, i, fc)) /\ (At(fc, b, n, i)' <=> Holds(Without(q, e), i, fc))
      BY <1>2, <2>1, PartsHold, PartsWillHold
    <2>3. ASSUME NEW i, At(fc, b, n, i), i # e PROVE At(fc, b, n, MovedUp(d, e, b, n, i))'
      <3>1. Holds(q, i, fc)
        BY <2>2, <2>3
      <3>2. Holds(q, i, fc) => i \in Nat /\ (i # e => Holds(Without(q, e), IF i > e THEN i - 1 ELSE i, fc))
        BY <2>1, RemovedHolds
      <3>3. Holds(Without(q, e), IF i > e THEN i - 1 ELSE i, fc)
        BY <2>3, <3>1, <3>2
      <3> QED
        BY <1>2, <2>2, <3>3 DEF MovedUp
    <2>4. ASSUME NEW j, At(fc, b, n, j)'
          PROVE  \E i : /\ At(fc, b, n, i) /\ ~(b = "recv" /\ n = d /\ i = e)
                        /\ MovedUp(d, e, b, n, i) = j
      <3>1. j \in Nat /\ Holds(q, IF j < e THEN j ELSE j + 1, fc)
        BY <2>1, <2>2, <2>4, RemovedHolds
      <3>2. PICK i : i = IF j < e THEN j ELSE j + 1
        OBVIOUS
      <3>3. i # e /\ (IF i > e THEN i - 1 ELSE i) = j
        BY <3>1, <3>2
      <3> QED
        BY <1>2, <2>2, <3>1, <3>2, <3>3 DEF MovedUp
    <2> QED
      BY <1>2, <2>3, <2>4
  <1> QED
    BY <1>1, <1>2

\* A call that receives a flit keeps Conservation: the flit it takes is bound for
\* the core that takes it, and all others stay where they are.
LEMMA RecvKeepsFlits ==
  ASSUME TypeOK, Bound, Known, Conservation, NEW f \in Flows, Recv(f)
  PROVE  Conservation' /\ Known'
  <1> PICK d \in Node : d = f[2]
    BY PnAssumption
  <1> DEFINE q == recvFifo[d]
  <1>1. d \in Node /\ q \in Seq(Flit) /\ q \in Seq(OwnFlits(d))
    BY PnAssumption DEF TypeOK, Bound
  <1>2. PICK e \in 1 .. Len(q) :
          /\ q[e].src = f[1]
          /\ recvFifo' = [recvFifo EXCEPT
               ![d] = [j \in 1 .. Len(@) - 1 |-> IF j < e THEN @[j] ELSE @[j + 1]]]
          /\ got' = [got EXCEPT ![f] = @ \cup {q[e].seq}]
    BY DEF Recv
  <1>3. PICK k \in 1 .. MaxFlits : k = q[e].seq /\ q[e] = FlitOf(f, k)
    <2>1. q[e] \in Flit /\ q[e].dest = d
      BY <1>1 DEF OwnFlits
    <2>2. q[e] = [src |-> q[e].src, dest |-> q[e].dest, seq |-> q[e].seq]
      BY SMTT(40), <2>1 DEF Flit
    <2>3. q[e].seq \in 1 .. MaxFlits
      BY SMTT(40), <2>1 DEF Flit
    <2> QED
      BY <1>2, <2>1, <2>2, <2>3 DEF FlitOf
  <1>4. /\ sent' = sent /\ got' = [got EXCEPT ![f] = @ \cup {k}]
        /\ UNCHANGED <<sendFifo, cornerFifo, delay, inSouth, inWest>>
    BY <1>2, <1>3 DEF Recv, rings
  <1>5. At(FlitOf(f, k), "recv", d, e)
    <2>1. e \in DOMAIN q
      BY <1>1
    <2>2. Holds(q, e, FlitOf(f, k))
      BY <1>3, <2>1 DEF Holds
    <2> QED
      BY <2>2, PartsHold
  <1>6. /\ <<"recv", d, e>> \in Places(FlitOf(f, k))
        /\ OnTheWay(f, k) /\ \E p \in Places(FlitOf(f, k)) : Places(FlitOf(f, k)) = {p}
    <2>1. <<"recv", d, e>> \in Places(FlitOf(f, k))
      BY <1>1, <1>5, PlacesAre DEF Part
    <2>2. Conserved(f, k)
      BY ConservationIs
    <2> QED
      BY <2>1, <2>2 DEF Conserved
  <1>7. ASSUME NEW fc, NEW b \in Part, NEW n \in Node
        PROVE  /\ \A i, j : /\ At(fc, b, n, i) /\ ~(b = "recv" /\ n = d /\ i = e)
                            /\ j = MovedUp(d, e, b, n, i)
                            => At(fc, b, n, j)'
               /\ \A j : At(fc, b, n, j)' =>
                    \E i : /\ At(fc, b, n, i) /\ ~(b = "recv" /\ n = d /\ i = e)
                           /\ MovedUp(d, e, b, n, i) = j
    <2>1. recvFifo' = [recvFifo EXCEPT ![d] = Without(recvFifo[d], e)]
      BY <1>2 DEF Without
    <2>2. recvFifo'[d] = Without(recvFifo[d], e) /\ \A m \in Node : m # d => recvFifo'[m] = recvFifo[m]
      BY <2>1 DEF TypeOK
    <2> QED
      BY <1>4, <2>2, RecvMoves
  <1>8. ASSUME NEW fc, NEW p \in Places(fc)'
        PROVE  MovedTo(fc, d, e, p)
    <2>1. PICK b \in Part, n \in Node : \E j : At(fc, b, n, j)' /\ p = <<b, n, j>>
      BY <1>8, PlacesWillBe
    <2>2. PICK j : At(fc, b, n, j)' /\ p = <<b, n, j>>
      BY <2>1
    <2>3. PICK i : /\ At(fc, b, n, i) /\ ~(b = "recv" /\ n = d /\ i = e)
                   /\ MovedUp(d, e, b, n, i) = j
      BY SMTT(40), <1>7, <2>2
    <2>4. <<b, n, i>> \in Places(fc) /\ <<b, n, i>> # <<"recv", d, e>>
      BY <2>3, PlacesAre
    <2> QED
      BY <2>2, <2>3, <2>4 DEF MovedTo
  <1>9. Known'
    BY <1>4, <1>6 DEF Known, OnTheWay, TypeOK
  <1>10. ASSUME NEW g \in Flows, NEW l \in 1 .. MaxFlits PROVE Conserved(g, l)'
    <2>1. Conserved(g, l)
      BY ConservationIs
    <2>2. CASE g = f /\ l = k
      <3>1. ASSUME NEW p \in Places(FlitOf(f, k))' PROVE FALSE
        <4>1. PICK b \in Part, n \in Node : \E i :
                /\ <<b, n, i>> \in Places(FlitOf(f, k)) /\ <<b, n, i>> # <<"recv", d, e>>
                /\ p = <<b, n, MovedUp(d, e, b, n, i)>>
          BY <1>8, <3>1 DEF MovedTo
        <4> QED
          BY <1>6, <4>1
      <3>2. ~OnTheWay(f, k)'
        BY <1>4 DEF OnTheWay, TypeOK
      <3> QED
        BY <2>2, <3>1, <3>2 DEF Conserved, FlitOf
    <2>3. CASE ~(g = f /\ l = k)
      <3> PICK fc : fc = FlitOf(g, l)
        OBVIOUS
      <3>1. fc # FlitOf(f, k)
        BY <2>3, FlitsOfFlows
      <3>2. <<"recv", d, e>> \notin Places(fc)
        <4>1. ~Holds(q, e, fc)
          BY <1>3, <3>1 DEF Holds
        <4>2. ~At(fc, "recv", d, e)
          BY <4>1, PartsHold
        <4> QED
          BY <4>2, PlacesAre DEF Part
      <3>3. OnTheWay(g, l)' <=> OnTheWay(g, l)
        BY <1>4, <2>3 DEF OnTheWay, TypeOK
      <3>4. ASSUME Places(fc) = {} PROVE Places(fc)' = {}
        BY <1>8, <3>4 DEF MovedTo
      <3>5. ASSUME NEW p \in Places(fc), Places(fc) = {p}
            PROVE  \E r \in Places(fc)' : Places(fc)' = {r}
        <4>1. PICK b \in Part, n \in Node : \E i : At(fc, b, n, i) /\ p = <<b, n, i>>
          BY <3>5, PlacesAre
        <4>2. PICK i : At(fc, b, n, i) /\ p = <<b, n, i>>
          BY <4>1
        <4>3. ~(b = "recv" /\ n = d /\ i = e)
          BY <3>2, <3>5, <4>2
        <4>4. PICK j : j = MovedUp(d, e, b, n, i)
          OBVIOUS
        <4>5. At(fc, b, n, j)'
          BY <1>7, <4>2, <4>3, <4>4
        <4>6. <<b, n, j>> \in Places(fc)'
          BY <4>5, PlacesWillBe
        <4>7. ASSUME NEW r \in Places(fc)' PROVE r = <<b, n, j>>
          <5>1. PICK a \in Part, m \in Node : \E h :
                  /\ <<a, m, h>> \in Places(fc) /\ <<a, m, h>> # <<"recv", d, e>>
                  /\ r = <<a, m, MovedUp(d, e, a, m, h)>>
            <6>1. MovedTo(fc, d, e, r)
              BY <1>8, <4>7
            <6> QED
              BY <6>1 DEF MovedTo
          <5>2. PICK h : <<a, m, h>> \in Places(fc) /\ r = <<a, m, MovedUp(d, e, a, m, h)>>
            BY <5>1
          <5>3. <<a, m, h>> = <<b, n, i>>
            BY <3>5, <4>2, <5>2
          <5>4. a = b /\ m = n /\ h = i
            BY <5>3
          <5> QED
            BY <4>4, <5>2, <5>4
        <4> QED
          BY <4>6, <4>7
      <3> QED
        BY <2>1, <3>3, <3>4, <3>5 DEF Conserved, FlitOf
    <2> QED
      BY <2>2, <2>3
  <1> QED
    BY <1>9, <1>10, ConservationWillBe

\* Every cycle and every call keeps the flits.
LEMMA ConservationStep ==
  TypeOK /\ Bound /\ Known /\ Conservation /\ [Next]_vars => Conservation' /\ Known'
  <1> SUFFICES ASSUME TypeOK, Bound, Known, Conservation, [Next]_vars
               PROVE  Conservation' /\ Known'
    OBVIOUS
  <1>1. ASSUME UNCHANGED <<buffers, rings, sent, got>> PROVE Conservation' /\ Known'
    <2>1. ASSUME NEW fc PROVE Places(fc)' = Places(fc)
      BY <1>1 DEF Places, Held, buffers, rings
    <2>2. ASSUME NEW f \in Flows, NEW k \in 1 .. MaxFlits PROVE Conserved(f, k)'
      <3>1. Conserved(f, k) /\ Places(FlitOf(f, k))' = Places(FlitOf(f, k))
        BY <2>1, ConservationIs
      <3>2. OnTheWay(f, k)' <=> OnTheWay(f, k)
        BY <1>1 DEF OnTheWay
      <3> QED
        BY <3>1, <3>2 DEF Conserved, FlitOf
    <2> QED
      BY <1>1, <2>2, ConservationWillBe DEF Known
  <1>2. CASE RouteAll
    <2>1. CASE Route
      <3>1. sent' = sent /\ got' = got
        BY <1>2 DEF RouteAll
      <3>2. ASSUME NEW f \in Flows, NEW k \in 1 .. MaxFlits PROVE Conserved(f, k)'
        <4>1. Conserved(f, k) /\ FlitOf(f, k) \in Flit
          BY ConservationIs, FlitsOfFlows
        <4>2. OnTheWay(f, k)' <=> OnTheWay(f, k)
          BY <3>1 DEF OnTheWay
        <4>3. /\ Places(FlitOf(f, k)) = {} => Places(FlitOf(f, k))' = {}
              /\ (\E p \in Places(FlitOf(f, k)) : Places(FlitOf(f, k)) = {p}) =>
                   \E p \in Places(FlitOf(f, k))' : Places(FlitOf(f, k))' = {p}
          BY <2>1, <4>1, RouteKeepsFlits
        <4> QED
          BY <4>1, <4>2, <4>3 DEF Conserved, FlitOf
      <3> QED
        BY <3>1, <3>2, ConservationWillBe DEF Known
    <2>2. CASE UNCHANGED <<buffers, rings>>
      BY <1>1, <1>2, <2>2 DEF RouteAll
    <2> QED
      BY <1>2, <2>1, <2>2 DEF RouteAll
  <1>3. ASSUME NEW f \in Flows, Send(f) PROVE Conservation' /\ Known'
    <2>1. Conservation'
      BY <1>3, SendKeepsFlits
    <2>2. got' = got /\ sent' = [sent EXCEPT ![f] = @ + 1] /\ sent \in [Flows -> Nat]
      BY <1>3, PnAssumption DEF Send, TypeOK
    <2>3. ASSUME NEW g \in Flows PROVE got'[g] \subseteq 1 .. sent'[g]
      BY <2>2 DEF Known
    <2> QED
      BY <2>1, <2>3 DEF Known
  <1>4. ASSUME NEW f \in Flows, Recv(f) PROVE Conservation' /\ Known'
    BY <1>4, RecvKeepsFlits
  <1>5. CASE UNCHANGED vars
    BY <1>1, <1>5 DEF vars
  <1> QED
    BY <1>2, <1>3, <1>4, <1>5 DEF Next

\* No router drops or doubles a flit, for every torus, every buffer size, every
\* policy and every bypass, the double ejections and their failing assert
\* included. The invariant adds to the types and to Conservation where a flit
\* may be (Bound), or a core would receive what is not addressed to it, and that
\* what was received was sent (Known), or a new flit could be an old one.
THEOREM ConservationKept == Spec => []Conservation
  <1> DEFINE IInv == TypeOK /\ Bound /\ Known /\ Conservation
  <1>1. Init => IInv
    <2> SUFFICES ASSUME Init PROVE Bound /\ Known /\ Conservation
      BY InitTyped
    <2>1. Bound
      BY DEF Init, Bound, Wire
    <2>2. Known
      BY DEF Init, Known
    <2>3. ASSUME NEW fc \in Flit PROVE Places(fc) = {}
      <3>1. fc # NoFlit
        BY PnAssumption
      <3>2. ASSUME NEW b \in Part, NEW n \in Node, NEW i, At(fc, b, n, i) PROVE FALSE
        BY <3>1, <3>2, PartsHold DEF Init, Part, Holds, Wire
      <3> QED
        BY <3>2, PlacesAre
    <2>4. ASSUME NEW f \in Flows, NEW k \in 1 .. MaxFlits PROVE Conserved(f, k)
      <3>1. Places(FlitOf(f, k)) = {}
        BY <2>3, FlitsOfFlows
      <3>2. ~OnTheWay(f, k)
        BY DEF Init, OnTheWay
      <3> QED
        BY <3>1, <3>2 DEF Conserved
    <2> QED
      BY <2>1, <2>2, <2>4, ConservationIs
  <1>2. IInv /\ [Next]_vars => IInv'
    BY TypeStep, BoundStep, ConservationStep
  <1>3. IInv => Conservation
    OBVIOUS
  <1> QED
    BY <1>1, <1>2, <1>3, PTL DEF Spec
=============================================================================
