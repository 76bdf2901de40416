----------------------------- MODULE NocInterface -----------------------------
(***************************************************************************)
(* The networks behind the interface of node.h: noc_init_all of node.c     *)
(* gives all nodes a network of the same type, and the calls of the cores  *)
(* and noc_route_all go to the functions of that type.  The abstract       *)
(* networks are composed here; a router has its own module and runs.       *)
(***************************************************************************)
EXTENDS Torus, Sequences

CONSTANTS
  Types,           \* the values of noc_type to be considered
  CyclesPerHop,    \* CONF_CYCLES_PER_HOP
  MaxSendFifo,     \* FIXEDLAT_MAX_SEND_FIFO
  TransportDelay,  \* FIXEDLAT_TRANSPORT_DELAY
  Flows, MaxFlits  \* the pairs <<src, dest>> and their number of flits

VARIABLES
  nocType,     \* noc_type, the same in all nodes
  incoming, intransit, pos, arrived,  \* noc_context of that type; <<>> if the
                                      \* type has no such member
  sent, got    \* history: flits sent, number of the last one received

vars == <<nocType, incoming, intransit, pos, arrived, sent, got>>

M == INSTANCE Manhattan
F == INSTANCE FixedLat
P == INSTANCE Perfect WITH recvbuf <- arrived

NocAssumption ==
  /\ Types \subseteq {"manhattan", "fixedlat", "perfect"}
  /\ M!ManhattanAssumption
  /\ F!FixedLatAssumption

\* noc_init_all.
Init ==
  /\ nocType \in Types
  /\ \/ nocType = "manhattan" /\ M!Init /\ incoming = <<>> /\ pos = <<>>
     \/ nocType = "fixedlat" /\ F!Init
     \/ nocType = "perfect" /\ P!Init /\ incoming = <<>> /\ intransit = <<>> /\ pos = <<>>

\* noc_route_all, which does nothing for the perfect network.
RouteAll ==
  \/ nocType = "manhattan" /\ M!RouteAll /\ UNCHANGED <<nocType, incoming, pos>>
  \/ nocType = "fixedlat" /\ F!RouteAll /\ UNCHANGED nocType
  \/ nocType = "perfect" /\ UNCHANGED vars

\* node->noc_send_flit, when it returns true.
Send(f) ==
  \/ nocType = "manhattan" /\ M!Send(f) /\ UNCHANGED <<nocType, incoming, pos>>
  \/ nocType = "fixedlat" /\ F!Send(f) /\ UNCHANGED nocType
  \/ nocType = "perfect" /\ P!Send(f) /\ UNCHANGED <<nocType, incoming, intransit, pos>>

\* node->noc_recv_flit, when it returns true.
Recv(f) ==
  \/ nocType = "manhattan" /\ M!Recv(f) /\ UNCHANGED <<nocType, incoming, pos>>
  \/ nocType = "fixedlat" /\ F!Recv(f) /\ UNCHANGED nocType
  \/ nocType = "perfect" /\ P!Recv(f) /\ UNCHANGED <<nocType, incoming, intransit, pos>>

\* node->noc_sender_ready and node->noc_probe_rank.
SenderReady(n) == nocType = "fixedlat" => F!SenderReady(n)
ProbeRank(n, s) ==
  CASE nocType = "manhattan" -> M!ProbeRank(n, s)
    [] nocType = "fixedlat" -> F!ProbeRank(n, s)
    [] nocType = "perfect" -> P!ProbeRank(n, s)

Next == RouteAll \/ \E f \in Flows : Send(f) \/ Recv(f)

Spec == Init /\ [][Next]_vars

-----------------------------------------------------------------------------
\* "Is send buffer full?": a core whose fgmp_cong() answers no can send.
ReadyMeansSent ==
  \A f \in Flows : SenderReady(f[1]) => (nocType = "fixedlat" => F!Accepts(f))

\* "Probe until data is available": a flit that can be received is announced.
ProbeSeesArrived ==
  \A f \in Flows :
    ProbeRank(f[2], f[1]) <=> \E k \in 1 .. Len(arrived[f[2]]) : arrived[f[2]][k].src = f[1]

-----------------------------------------------------------------------------
\* Flows of the runs: senders at distances 2 and 1 and traffic in the other
\* direction; one flit each from more nodes than the queue of node 0 holds.
BothWays == {<<0, 2>>, <<1, 2>>, <<2, 0>>}
FiveToOne == {<<n, 0>> : n \in 1 .. 5}
=============================================================================
