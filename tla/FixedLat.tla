------------------------------ MODULE FixedLat ------------------------------
(***************************************************************************)
(* The abstract network of src/macsim/src/noc/fixedlat.c with the queues   *)
(* of msgqueue.c: the flits that a node is sent in one cycle travel        *)
(* together, in a slot of a ring that is turned once per cycle.            *)
(***************************************************************************)
EXTENDS Torus, Sequences

CONSTANTS
  MaxSendFifo,     \* FIXEDLAT_MAX_SEND_FIFO
  TransportDelay,  \* FIXEDLAT_TRANSPORT_DELAY
  Flows, MaxFlits  \* the pairs <<src, dest>> and their number of flits

FixedLatAssumption ==
  /\ MaxSendFifo \in Nat \ {0}
  /\ TransportDelay \in Nat \ {0}
  /\ Flows \subseteq Node \X Node
  /\ MaxFlits \in Nat

Delay == 0 .. TransportDelay - 1

VARIABLES
  incoming,   \* fixedlat_incomming: what a node is sent in this cycle
  intransit,  \* fixedlat_intransit: per node the slots of its ring
  pos,        \* fixedlat_intransit_pos: the slot that is due next
  arrived,    \* fixedlat_arrived: what a node can receive
  sent, got   \* history: flits sent, number of the last one received

vars == <<incoming, intransit, pos, arrived, sent, got>>

Init ==
  /\ incoming = [n \in Node |-> <<>>]
  /\ intransit = [n \in Node |-> [p \in Delay |-> <<>>]]
  /\ pos = [n \in Node |-> 0]
  /\ arrived = [n \in Node |-> <<>>]
  /\ sent = [f \in Flows |-> 0]
  /\ got = [f \in Flows |-> 0]

\* fixedlat_sender_ready looks at the queue of the flits to the core itself,
\* fixedlat_send_flit at the queue of the flits to the destination.
SenderReady(n) == Len(incoming[n]) < MaxSendFifo
Accepts(f) == Len(incoming[f[2]]) < MaxSendFifo

\* fixedlat_send_flit, when it returns true.
Send(f) ==
  /\ sent[f] < MaxFlits
  /\ Accepts(f)
  /\ incoming' = [incoming EXCEPT ![f[2]] = Append(@, [src |-> f[1], seq |-> sent[f] + 1])]
  /\ sent' = [sent EXCEPT ![f] = @ + 1]
  /\ UNCHANGED <<intransit, pos, arrived, got>>

\* Mutant: the due flits are put in front of those that arrived before.
CatInFront(base, add) == add \o base

\* msg_cat_queue.
Cat(base, add) == base \o add

\* Mutant: the position is not reset at the end of the ring.
TurnedNoReset(p) == IF p + 1 = TransportDelay THEN p ELSE p + 1

\* The next position of the ring.
Turned(p) == (p + 1) % TransportDelay

\* fixedlat_route_one_cycle of all nodes.
RouteAll ==
  /\ arrived' = [n \in Node |-> Cat(arrived[n], intransit[n][pos[n]])]
  /\ intransit' = [n \in Node |-> [intransit[n] EXCEPT ![pos[n]] = incoming[n]]]
  /\ incoming' = [n \in Node |-> <<>>]
  /\ pos' = [n \in Node |-> Turned(pos[n])]
  /\ UNCHANGED <<sent, got>>

\* The positions of the flits of s in a queue; msg_dequeue_rank takes the first.
From(q, s) == {k \in 1 .. Len(q) : q[k].src = s}
Without(q, k) == SubSeq(q, 1, k - 1) \o SubSeq(q, k + 1, Len(q))

\* fixedlat_recv_flit, when it returns true.
Recv(f) ==
  \E k \in From(arrived[f[2]], f[1]) :
    /\ \A j \in From(arrived[f[2]], f[1]) : k <= j
    /\ arrived' = [arrived EXCEPT ![f[2]] = Without(@, k)]
    /\ got' = [got EXCEPT ![f] = arrived[f[2]][k].seq]
    /\ UNCHANGED <<incoming, intransit, pos, sent>>

Next == RouteAll \/ \E f \in Flows : Send(f) \/ Recv(f)

Spec == Init /\ [][Next]_vars

\* fixedlat_probe_rank.
ProbeRank(n, s) == From(arrived[n], s) # {}
=============================================================================
