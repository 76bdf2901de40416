------------------------------- MODULE Networks -------------------------------
(***************************************************************************)
(* All networks behind the interface of node.h but the configurable router,*)
(* which MCPnRings takes through its configurations: noc_init_all gives    *)
(* all nodes the same network, and the calls of the cores and              *)
(* noc_route_all go to the functions of that network.  Each is a small     *)
(* instance, chosen in the initial state, with flows that bring its        *)
(* particular cases about.                                                 *)
(***************************************************************************)
EXTENDS Naturals, FiniteSetsExt

CONSTANTS
  Chosen,   \* the networks to be considered
  NoFlit

VARIABLES
  network,                  \* which of the networks is simulated
  ctx, seed, lost, stopped, \* the state of a router, <<>> where it has no such part
  nocType, incoming, intransit, pos, arrived,  \* that of the abstract networks
  sent, got

routerVars == <<ctx, seed, lost, stopped>>
lineVars == <<nocType, incoming, intransit, pos, arrived>>
vars == <<network, routerVars, lineVars, sent, got>>

-----------------------------------------------------------------------------
\* The instances.  The sizes of the buffers are smaller than in the code, so that
\* the buffers get full.

\* Two senders compete for a receiver, or two flows for a corner buffer.
Cross == {<<0, 3>>, <<1, 3>>}
\* The receiver sends too, and flits from the south and the west meet there.
Meeting == {<<2, 3>>, <<1, 3>>, <<3, 2>>}
\* As before, without the receiver.
Merging == {<<2, 3>>, <<1, 3>>}
\* A flit passes a router whose column it does not belong to.
Passing == {<<0, 5>>, <<3, 5>>}
\* Flows that use the same slots of the schedules, and the same column.
Scheduled == {<<1, 4>>, <<0, 4>>, <<0, 7>>}
\* A load that brings redirection about.
Burst == {<<5, 3>>, <<1, 7>>, <<7, 0>>, <<3, 2>>}
\* Senders at distances 2 and 1.
Line == {<<0, 2>>, <<1, 2>>}
AllFlows == UNION {Cross, Meeting, Merging, Passing, Scheduled, Burst, Line}

Abstract == INSTANCE NocInterface WITH
  Width <- 3, Height <- 1, Types <- {"manhattan", "fixedlat", "perfect"},
  CyclesPerHop <- 3, MaxSendFifo <- 2, TransportDelay <- 3,
  Flows <- Line, MaxFlits <- 2
Jm0 == INSTANCE Pnjm0 WITH
  Width <- 2, Height <- 2, SendSize <- 2, RecvSize <- 1, CornerSize <- 1,
  Flows <- Cross, MaxFlits <- 3
Be0 == INSTANCE Pnbe0 WITH
  Width <- 2, Height <- 2, InjSize <- 2, CornerSize <- 1, CoreSize <- 4,
  Marks <- {FALSE}, Flows <- Meeting, MaxFlits <- 2
Be1 == INSTANCE Pnbe1 WITH
  Width <- 3, Height <- 2, InjSize <- 2, CornerSize <- 1, CoreSize <- 1,
  Marks <- {TRUE, FALSE}, Flows <- Passing, MaxFlits <- 2
Be2 == INSTANCE Pnbe2 WITH
  Width <- 2, Height <- 2, InjSize <- 2, CornerSize <- 1, CoreSize <- 4,
  Marks <- {FALSE}, Flows <- Meeting, MaxFlits <- 2
Cae == INSTANCE Caerus WITH
  Width <- 2, Height <- 2, InjSize <- 2, CornerSize <- 2, CoreSize <- 2,
  Marks <- {FALSE}, CounterThreshold <- 1, Flows <- Merging, MaxFlits <- 2
Oa == INSTANCE Pnoa WITH
  Width <- 3, Height <- 3, InjSize <- 2, CornerSize <- 1, CoreSize <- 80,
  Marks <- {FALSE}, Flows <- Scheduled, MaxFlits <- 1
Aa == INSTANCE Pnaa WITH
  Width <- 3, Height <- 3, InjSize <- 2, CornerSize <- 1, CoreSize <- 80,
  Marks <- {FALSE}, Flows <- Scheduled, MaxFlits <- 1
SquareAa(w) == INSTANCE Pnaa WITH
  Width <- w, Height <- w, InjSize <- 2, CornerSize <- 1, CoreSize <- 80,
  Marks <- {FALSE}, Flows <- {}, MaxFlits <- 0
Bd == INSTANCE Minbd WITH
  Width <- 3, Height <- 3, SendSize <- 3, SideSize <- 1, RedirThreshold <- 0,
  Flows <- Burst, MaxFlits <- 2

ASSUME NetworksAssumption == Abstract!NocAssumption /\ Cae!CaerusAssumption /\ Aa!PnaaAssumption

\* noc_init_all.
NoLine ==
  nocType = <<>> /\ incoming = <<>> /\ intransit = <<>> /\ pos = <<>> /\ arrived = <<>>
Init ==
  /\ network \in Chosen
  /\ \/ /\ network = "abstract" /\ Abstract!Init
        /\ ctx = <<>> /\ seed = <<>> /\ lost = {} /\ stopped = FALSE
     \/ network = "pnjm0" /\ Jm0!Init /\ seed = <<>> /\ lost = {} /\ stopped = FALSE /\ NoLine
     \/ network = "pnbe0" /\ Be0!Init /\ seed = <<>> /\ NoLine
     \/ network = "pnbe1" /\ Be1!Init /\ seed = <<>> /\ NoLine
     \/ network = "pnbe2" /\ Be2!Init /\ seed = <<>> /\ NoLine
     \/ network = "caerus" /\ Cae!Init /\ seed = <<>> /\ NoLine
     \/ network = "pnoa" /\ Oa!Init /\ seed = <<>> /\ NoLine
     \/ network = "pnaa" /\ Aa!Init /\ seed = <<>> /\ NoLine
     \/ network = "minbd" /\ Bd!Init /\ lost = {} /\ stopped = FALSE /\ NoLine

\* noc_route_all.  minbd is started when all flits wait in the send buffers.
RouteAll ==
  /\ \/ network = "abstract" /\ Abstract!RouteAll /\ UNCHANGED routerVars
     \/ network = "pnjm0" /\ Jm0!RouteAll /\ UNCHANGED <<seed, lost, stopped, lineVars>>
     \/ network = "pnbe0" /\ Be0!RouteAll /\ UNCHANGED <<seed, lineVars>>
     \/ network = "pnbe1" /\ Be1!RouteAll /\ UNCHANGED <<seed, lineVars>>
     \/ network = "pnbe2" /\ Be2!RouteAll /\ UNCHANGED <<seed, lineVars>>
     \/ network = "caerus" /\ Cae!RouteAll /\ UNCHANGED <<seed, lineVars>>
     \/ network = "pnoa" /\ Oa!RouteAll /\ UNCHANGED <<seed, lineVars>>
     \/ network = "pnaa" /\ Aa!RouteAll /\ UNCHANGED <<seed, lineVars>>
     \/ /\ network = "minbd" /\ \A f \in Burst : sent[f] = 2
        /\ Bd!RouteAll /\ UNCHANGED <<lost, stopped, lineVars>>
  /\ UNCHANGED network

\* node->noc_send_flit, when it returns true.
Send(f) ==
  /\ f \in DOMAIN sent
  /\ \/ network = "abstract" /\ Abstract!Send(f) /\ UNCHANGED routerVars
     \/ network = "pnjm0" /\ Jm0!Send(f) /\ UNCHANGED <<seed, lost, stopped, lineVars>>
     \/ network = "pnbe0" /\ Be0!Send(f) /\ UNCHANGED <<seed, lineVars>>
     \/ network = "pnbe1" /\ Be1!Send(f) /\ UNCHANGED <<seed, lineVars>>
     \/ network = "pnbe2" /\ Be2!Send(f) /\ UNCHANGED <<seed, lineVars>>
     \/ network = "caerus" /\ Cae!Send(f) /\ UNCHANGED <<seed, lineVars>>
     \/ network = "pnoa" /\ Oa!Send(f) /\ UNCHANGED <<seed, lineVars>>
     \/ network = "pnaa" /\ Aa!Send(f) /\ UNCHANGED <<seed, lineVars>>
     \/ network = "minbd" /\ Bd!Send(f) /\ UNCHANGED <<lost, stopped, lineVars>>
  /\ UNCHANGED network

\* node->noc_recv_flit, when it returns true.
Recv(f) ==
  /\ f \in DOMAIN sent
  /\ \/ network = "abstract" /\ Abstract!Recv(f) /\ UNCHANGED routerVars
     \/ network = "pnjm0" /\ Jm0!Recv(f) /\ UNCHANGED <<seed, lost, stopped, lineVars>>
     \/ network = "pnbe0" /\ Be0!Recv(f) /\ UNCHANGED <<seed, lineVars>>
     \/ network = "pnbe1" /\ Be1!Recv(f) /\ UNCHANGED <<seed, lineVars>>
     \/ network = "pnbe2" /\ Be2!Recv(f) /\ UNCHANGED <<seed, lineVars>>
     \/ network = "caerus" /\ Cae!Recv(f) /\ UNCHANGED <<seed, lineVars>>
     \/ network = "pnoa" /\ Oa!Recv(f) /\ UNCHANGED <<seed, lineVars>>
     \/ network = "pnaa" /\ Aa!Recv(f) /\ UNCHANGED <<seed, lineVars>>
     \/ network = "minbd" /\ Bd!Recv(f) /\ UNCHANGED <<lost, stopped, lineVars>>
  /\ UNCHANGED network

\* The simulation has ended with a message.
Stopped == stopped /\ UNCHANGED vars

Next == RouteAll \/ Stopped \/ \E f \in AllFlows : Send(f) \/ Recv(f)

Spec == Init /\ [][Next]_vars

\* ENABLED <<RouteAll>>_vars.
Working ==
  CASE network = "abstract" -> ENABLED <<Abstract!RouteAll>>_(Abstract!vars)
    [] network = "pnjm0" -> Jm0!Working
    [] network = "pnbe0" -> Be0!Working
    [] network = "pnbe1" -> Be1!Working
    [] network = "pnbe2" -> Be2!Working
    [] network = "caerus" -> Cae!Working
    [] network = "pnoa" -> Oa!Working
    [] network = "pnaa" -> Aa!Working
    [] network = "minbd" -> (\A f \in Burst : sent[f] = 2) /\ Bd!Working

\* The network is simulated in every cycle and the cores keep receiving; those of
\* minbd write all their flits first.  The part in the middle is WF_vars(RouteAll)
\* with its ENABLED written as a predicate.
FairSpec ==
  /\ Spec
  /\ \A f \in Burst : WF_vars(network = "minbd" /\ Send(f))
  /\ []<>~Working \/ []<><<RouteAll>>_vars
  /\ \A f \in AllFlows : WF_vars(Recv(f))

-----------------------------------------------------------------------------
IsFlit(fc, f, k) == fc # NoFlit /\ fc.src = f[1] /\ fc.dest = f[2] /\ fc.seq = k
IsLost(f, k) == \E fc \in lost : IsFlit(fc, f, k)

\* The numbers of the flits received.  minbd and the abstract networks count.
Taken(f) == IF network \in {"abstract", "minbd"} THEN 1 .. got[f] ELSE got[f]

\* Every flit that was sent and neither received nor lost is in one place of one
\* router, and one that is received or lost in none: no buffer, input or slot is
\* copied or forgotten in the exchange.
Conservation ==
  CASE network = "abstract" -> TRUE
    [] network = "pnjm0" -> Jm0!Conservation
    [] network = "pnbe0" -> Be0!Conservation
    [] network = "pnbe1" -> Be1!Conservation
    [] network = "pnbe2" -> Be2!Conservation
    [] network = "caerus" -> Cae!Conservation
    [] network = "pnoa" -> Oa!Conservation
    [] network = "pnaa" -> Aa!Conservation
    [] network = "minbd" -> Bd!Conservation

\* A flit is only put where no other one is.  pnbe0 does otherwise: the core's
\* flit replaces one from the west that has to take another round; and caerus
\* drops the flits that its core buffer does not take.
Lossless == lost # {} => network \in {"pnbe0", "caerus"}

\* The formulas of pnaa for its schedule are written for even and odd tori and
\* end with special cases: in each of these tori a round serves every pair of
\* nodes.  In one of 7 x 7 nodes it does not, no slot reaches column 5.
SchedulesComplete ==
  network = "pnaa" => \A w \in (2 .. 6) \cup {8} : SquareAa(w)!ScheduleComplete

-----------------------------------------------------------------------------
Channels == INSTANCE Noc WITH
  Flows <- AllFlows, MaxFlits <- 3,
  sent <- [f \in AllFlows |-> IF f \in DOMAIN sent THEN sent[f] ELSE 0],
  got <- [f \in AllFlows |-> IF f \in DOMAIN sent THEN Max(Taken(f) \cup {0}) ELSE 0]

\* As long as no flit is lost the flits of one sender come out complete and in the
\* order in which they went in.  caerus does otherwise: if the core's input is
\* taken, a flit in the corner buffer takes another round of the column.
InOrder == network # "caerus" /\ lost' = {}
NocSpec == Channels!Init /\ [][InOrder => Channels!Next]_(Channels!vars)

\* Every flit that was sent is received in the end: none circles for ever, none
\* stays in a buffer, and no slot of a schedule is missing.
Delivery ==
  []<>(stopped \/ \A f \in DOMAIN sent : \A k \in 1 .. sent[f] : k \in Taken(f) \/ IsLost(f, k))
=============================================================================
