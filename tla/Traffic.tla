--------------------------------- MODULE Traffic -------------------------------
(***************************************************************************)
(* The cores of traffic.c, which send and receive synthetic traffic.  The  *)
(* flit of the code is the cycle in which it was made; here it is the      *)
(* number of the flit at its sender.  got is no part of the code, which    *)
(* counts what it has received and sums up the latencies.                  *)
(***************************************************************************)
EXTENDS Simulation

CONSTANTS
  NocWidth, NocHeight,  \* of the network
  MaxFlits              \* bound: type of traffic -> flits that a core makes

\* traffic_init_context.
TrafficContext(type) ==
  [kind |-> "traffic", type |-> type, state |-> Running, pc |-> 0, nextpc |-> 0,
   injqueue |-> <<>>, made |-> 0, got |-> <<>>]

\* bitrev, for a number of as many bits as the ranks have.
NodeBits == CHOOSE k \in 0 .. MaxRank : 2^k >= MaxRank
BitRev(i) == FoldFunctionOnSet(+, 0, [k \in 0 .. NodeBits - 1 |-> Bit(i, k) * 2^(NodeBits - 1 - k)], 0 .. NodeBits - 1)

\* The destinations of a new flit of core i.
At(x, y) == (x % NocWidth) + (y % NocHeight) * NocWidth
Dest(type, i) ==
  LET x == i % NocWidth
      y == i \div NocWidth
  IN CASE type = "uniform" -> Rank \ {i}
       [] type = "transpose" -> {x * NocWidth + y}
       [] type = "bitrev" -> {BitRev(i)}
       [] type = "shuffle" -> {2 * i - (IF i >= MaxRank \div 2 THEN MaxRank - 1 ELSE 0)}
       [] type = "tornado" -> {At(x + (NocWidth \div 2) - 1, y + (NocHeight \div 2) - 1)}
       [] type = "neighbor" -> {At(x + 1, y + 1)}

\* The flit to be sent: a new one at once, whatever waits in the queue, and none
\* from the queue in a cycle with a new one.
Offer(n, d, inject) ==
  IF inject THEN <<[dest |-> d, flit |-> n.made + 1]>>
  ELSE IF n.injqueue = <<>> THEN <<>> ELSE <<Head(n.injqueue)>>

\* Mutant: the flit leaves the queue whether it was sent or not.
QueuedDrops(n, d, inject, sent) ==
  IF inject THEN IF sent THEN n.injqueue ELSE n.injqueue \o Offer(n, d, TRUE)
  ELSE IF n.injqueue = <<>> THEN <<>> ELSE Tail(n.injqueue)

Queued(n, d, inject, sent) ==
  IF inject THEN IF sent THEN n.injqueue ELSE n.injqueue \o Offer(n, d, TRUE)
  ELSE IF sent THEN Tail(n.injqueue) ELSE n.injqueue

\* traffic_one_cycle: then it takes the first flit that has arrived.
TrafficOneCycle(r) ==
  /\ OneCycle(r) /\ node[r].kind = "traffic"
  /\ \E inject \in BOOLEAN : \E d \in Dest(node[r].type, r) :
       LET n == node[r]
           offer == Offer(n, d, inject)
           sent == offer # <<>> /\ SenderReady(r)
           arrived == IF inbox[r] = <<>> THEN <<>> ELSE <<Head(inbox[r])>>
       IN /\ inject => n.made < MaxFlits[n.type]
          /\ transit' = IF sent THEN [transit EXCEPT ![r][offer[1].dest] = Append(@, offer[1].flit)] ELSE transit
          /\ inbox' = IF arrived = <<>> THEN inbox ELSE [inbox EXCEPT ![r] = Tail(@)]
          /\ Completes(r, [n EXCEPT !.injqueue = Queued(n, d, inject, sent),
                                    !.made = IF inject THEN @ + 1 ELSE @,
                                    !.got = @ \o arrived], 1)
================================================================================
