------------------------------ MODULE Manhattan ------------------------------
(***************************************************************************)
(* The abstract network of src/macsim/src/noc/manhattan.c: a flit travels  *)
(* for a number of cycles that depends on the distance of sender and       *)
(* receiver.  Each receiver has a list of the flits that travel to it and  *)
(* a list of those that have arrived (flitqueue.c).                        *)
(***************************************************************************)
EXTENDS Torus, Integers, Sequences

CONSTANTS
  CyclesPerHop,    \* CONF_CYCLES_PER_HOP
  Flows, MaxFlits  \* the pairs <<src, dest>> and their number of flits

ManhattanAssumption ==
  /\ CyclesPerHop \in Nat \ {0}
  /\ Flows \subseteq {f \in Node \X Node : f[1] # f[2]}  \* else an assert fails
  /\ MaxFlits \in Nat

VARIABLES
  intransit,  \* per receiver: the flits on their way, with the cycles left (the
              \* misused member dest)
  arrived,     \* per receiver: the flits that can be received
  sent, got   \* history: flits sent, number of the last one received

vars == <<intransit, arrived, sent, got>>

Abs(k) == IF k < 0 THEN -k ELSE k
Latency(s, d) == CyclesPerHop * (Abs(X(s) - X(d)) + Abs(Y(s) - Y(d)))

\* Mutant: a new entry becomes the head of the queue.
EnqueuedInFront(q, e) == <<e>> \o q

\* fc_enqueue, and the insertion at the tail of arrived.
Enqueued(q, e) == Append(q, e)

\* Mutant: the decremented latency is not stored.
StepForgotten(e) == e

\* A flit that the loop over intransit reaches and that does not arrive.
Step(e) == [e EXCEPT !.left = @ - 1]

\* The loop ends with the first flit that arrives, because h->next is already
\* the end of the list arrived; the flits behind it stand still, and their
\* latency is longer than their distance.
First(q) == {i \in 1 .. Len(q) : q[i].left = 1 /\ \A j \in 1 .. i - 1 : q[j].left # 1}

StillInTransit(q) ==
  IF First(q) = {} THEN [j \in 1 .. Len(q) |-> Step(q[j])]
  ELSE LET i == CHOOSE i \in First(q) : TRUE
       IN [j \in 1 .. Len(q) - 1 |-> IF j < i THEN Step(q[j]) ELSE q[j + 1]]

Arrived(q, a) ==
  IF First(q) = {} THEN a
  ELSE LET e == q[CHOOSE i \in First(q) : TRUE]
       IN Enqueued(a, [src |-> e.src, seq |-> e.seq])

Init ==
  /\ intransit = [n \in Node |-> <<>>]
  /\ arrived = [n \in Node |-> <<>>]
  /\ sent = [f \in Flows |-> 0]
  /\ got = [f \in Flows |-> 0]

\* manhattan_route_one_cycle of all nodes.
RouteAll ==
  /\ intransit' = [n \in Node |-> StillInTransit(intransit[n])]
  /\ arrived' = [n \in Node |-> Arrived(intransit[n], arrived[n])]
  /\ UNCHANGED <<sent, got>>

Send(f) ==
  /\ sent[f] < MaxFlits
  /\ intransit' = [intransit EXCEPT
       ![f[2]] = Enqueued(@, [src |-> f[1], seq |-> sent[f] + 1,
                              left |-> Latency(f[1], f[2])])]
  /\ sent' = [sent EXCEPT ![f] = @ + 1]
  /\ UNCHANGED <<arrived, got>>

\* The positions of the flits of s in a queue, and fc_find_src.
From(q, s) == {k \in 1 .. Len(q) : q[k].src = s}
FindSrc(q, s) ==
  IF From(q, s) = {} THEN -1
  ELSE (CHOOSE k \in From(q, s) : \A j \in From(q, s) : k <= j) - 1

\* manhattan_recv_flit, when it returns true.
Recv(f) ==
  LET q == arrived[f[2]]
      pos == FindSrc(q, f[1])
  IN /\ pos >= 0
     /\ arrived' = [arrived EXCEPT
          ![f[2]] = [j \in 1 .. Len(q) - 1 |-> IF j <= pos THEN q[j] ELSE q[j + 1]]]
     /\ got' = [got EXCEPT ![f] = q[pos + 1].seq]
     /\ UNCHANGED <<intransit, sent>>

Next == RouteAll \/ \E f \in Flows : Send(f) \/ Recv(f)

Spec == Init /\ [][Next]_vars

\* manhattan_probe_rank.
ProbeRank(n, s) == FindSrc(arrived[n], s) > 0
=============================================================================
