-------------------------------- MODULE Minbd --------------------------------
(***************************************************************************)
(* The router of src/macsim/src/noc/minbd.c: minimally buffered deflection.*)
(* Two pipeline stages with one place per direction; a flit that does not  *)
(* get a direction that brings it nearer goes somewhere else, or into a    *)
(* side buffer.  The receiver puts the flits of a sender back in order.    *)
(***************************************************************************)
EXTENDS Flits

LOCAL INSTANCE FiniteSets
LOCAL INSTANCE FiniteSetsExt
LOCAL INSTANCE SequencesExt
LOCAL INSTANCE TLC

CONSTANTS
  SendSize, SideSize,   \* conf_send_fifo_size, conf_side_fifo_size
  RedirThreshold        \* conf_redir_threshold

VARIABLES
  ctx,       \* noc_context of every node
  seed,      \* seed, of which rand4 only uses the last two bits
  sent, got  \* send_no and recv_no

vars == <<ctx, seed, sent, got>>

NORTH == 0
SOUTH == 1
EAST == 2
WEST == 3
Port == 0 .. 3
NoPort == 4

NoFlits == [i \in Port |-> NoFlit]

Init ==
  /\ ctx = [n \in Node |->
       [in |-> NoFlits, s2 |-> NoFlits, redirCounter |-> 0,
        send |-> EmptyBuffer, side |-> EmptyBuffer, recv |-> EmptyBuffer]]
  /\ seed = 1
  /\ sent = [f \in Flows |-> 0]
  /\ got = [f \in Flows |-> 0]

\* rand4 after k calls: 1103515245 * seed + 12345 has the last bits of seed + 1.
Rand4(s, k) == (s + k) % 4

-----------------------------------------------------------------------------
\* Second stage.

\* The direction that brings a flit nearer, along the longer way first.  The
\* links around the edges of the torus are not considered.
Sign(d, towards, away) == IF d >= 0 THEN towards ELSE away
Abs(d) == IF d >= 0 THEN d ELSE -d
Productive(n, fc) ==
  LET dx == X(fc.dest) - X(n)
      dy == Y(fc.dest) - Y(n)
  IN IF Abs(dx) > Abs(dy) THEN Sign(dx, EAST, WEST) ELSE Sign(dy, SOUTH, NORTH)

\* productive of a place that holds no flit is 0.
Wish(n, s2) == [i \in Port |-> IF s2[i] = NoFlit THEN NORTH ELSE Productive(n, s2[i])]

\* One of the four switches: the flits of places a and b in their order or
\* changed over.  a decides if it is the silver flit or if b is empty.
Switch(s2, wish, silver, a, b, forA, forB) ==
  IF IF silver = a \/ s2[b] = NoFlit THEN wish[a] \in forA ELSE wish[b] \in forB
  THEN <<a, b>> ELSE <<b, a>>

\* q: the place of which every output gets the flit.
Permutation(s2, wish, silver) ==
  LET p0 == Switch(s2, wish, silver, 0, 2, {NORTH, SOUTH}, {EAST, WEST})
      p1 == Switch(s2, wish, silver, 1, 3, {NORTH, SOUTH}, {EAST, WEST})
      q0 == Switch(s2, wish, silver, p0[1], p1[1], {NORTH}, {SOUTH})
      q1 == Switch(s2, wish, silver, p0[2], p1[2], {EAST}, {WEST})
  IN [i \in Port |-> (q0 \o q1)[i + 1]]

\* The places deflected are those of flits that did not get their wish; the
\* first one goes into the side buffer if that has room.
Deflected(s2, wish, q) == {i \in Port : s2[q[i]] # NoFlit /\ wish[q[i]] # i}
Ejected(r, wish, q) ==
  IF HasSlot(r.side, SideSize) /\ Deflected(r.s2, wish, q) # {}
  THEN Min(Deflected(r.s2, wish, q)) ELSE NoPort

Stage2(n, r, rand) ==
  LET wish == Wish(n, r.s2)
      q == Permutation(r.s2, wish, IF r.s2[rand] = NoFlit THEN NoPort ELSE rand)
      e == Ejected(r, wish, q)
  IN [r EXCEPT !.out = [i \in Port |-> IF i = e THEN NoFlit ELSE r.s2[q[i]]],
               !.side = IF e = NoPort THEN @ ELSE Append(@, r.s2[q[e]])]

-----------------------------------------------------------------------------
\* First stage.

\* The flits for this node, at most two of them.
Arrived(n, r) == {i \in Port : r.in[i] # NoFlit /\ r.in[i].dest = n}
ToCore(n, r) ==
  {i \in Arrived(n, r) : Cardinality({j \in Arrived(n, r) : j < i}) < 2}
Remaining(n, r) == [i \in Port |-> IF i \in ToCore(n, r) THEN NoFlit ELSE r.in[i]]
Free(slots) == {i \in Port : slots[i] = NoFlit}

\* No place is free although a flit waits in the side buffer.
Redirecting(n, r) == Free(Remaining(n, r)) = {} /\ r.side # EmptyBuffer

\* A redirection takes place, and with it a second call of rand4.
Redirects(n, r) == Redirecting(n, r) /\ r.redirCounter + 1 > RedirThreshold

\* No place is free: after some cycles a flit is exchanged with the side buffer.
Redirected(n, r, rand) ==
  LET slots == Remaining(n, r) IN
  IF Redirects(n, r)
  THEN [r EXCEPT !.s2 = [slots EXCEPT ![rand] = Head(r.side)],
                 !.side = Append(Tail(@), slots[rand]), !.redirCounter = 0]
  ELSE [r EXCEPT !.s2 = slots, !.redirCounter = IF Redirecting(n, r) THEN @ + 1 ELSE @]

\* The oldest flit of a buffer into the first free place.
Inject(slots, buffer) ==
  IF Free(slots) = {} \/ buffer = EmptyBuffer THEN slots
  ELSE [slots EXCEPT ![Min(Free(slots))] = Head(buffer)]
Injected(n, r) ==
  LET s == Inject(Remaining(n, r), r.side)
  IN [r EXCEPT !.s2 = Inject(s, r.send), !.redirCounter = 0, !.side = Dequeued(@),
               !.send = IF Free(s) = {} THEN @ ELSE Dequeued(@)]

Stage1(n, r, rand) ==
  LET ports == SetToSortSeq(ToCore(n, r), <)
      received == [r EXCEPT !.recv = @ \o [k \in DOMAIN ports |-> r.in[ports[k]]]]
  IN IF Free(Remaining(n, r)) = {} THEN Redirected(n, received, rand)
     ELSE Injected(n, received)

-----------------------------------------------------------------------------
\* The routers are simulated one after the other and share the random numbers:
\* Calls[n + 1] is the number of calls before router n.
WithOutputs(r) ==
  [in |-> r.in, s2 |-> r.s2, redirCounter |-> r.redirCounter,
   send |-> r.send, side |-> r.side, recv |-> r.recv, out |-> NoFlits]
Staged2(n, calls) == Stage2(n, WithOutputs(ctx[n]), Rand4(seed, calls + 1))

Calls ==
  LET Next(calls, n) ==
        Append(calls, Last(calls) + (IF Redirects(n, Staged2(n, Last(calls))) THEN 2 ELSE 1))
  IN FoldLeft(Next, <<0>>, [i \in 1 .. Width * Height |-> i - 1])

\* minbd_route_all: router_one_cycle of all nodes, then the exchange.
Routed ==
  LET calls == Calls
      c == [n \in Node |->
             Stage1(n, Staged2(n, calls[n + 1]), Rand4(seed, calls[n + 1] + 2))]
  IN [ctx |-> [n \in Node |->
        [in |-> (NORTH :> c[North(n)].out[SOUTH] @@ SOUTH :> c[South(n)].out[NORTH]
                 @@ EAST :> c[East(n)].out[WEST] @@ WEST :> c[West(n)].out[EAST]),
         s2 |-> c[n].s2, redirCounter |-> c[n].redirCounter,
         send |-> c[n].send, side |-> c[n].side, recv |-> c[n].recv]],
      seed |-> Rand4(seed, Last(calls))]
RouteAll ==
  \E r \in {Routed} : ctx' = r.ctx /\ seed' = r.seed /\ UNCHANGED <<sent, got>>

\* ENABLED <<RouteAll>>_vars.
Working == Routed # [ctx |-> ctx, seed |-> seed]

\* minbd_send_flit, when it returns true.
Send(f) ==
  /\ sent[f] < MaxFlits /\ HasSlot(ctx[f[1]].send, SendSize)
  /\ ctx' = [ctx EXCEPT ![f[1]].send =
       Append(@, [src |-> f[1], dest |-> f[2], seq |-> sent[f] + 1])]
  /\ sent' = [sent EXCEPT ![f] = @ + 1]
  /\ UNCHANGED <<seed, got>>

\* minbd_recv_flit, when it returns true: the flit with the number that follows.
Expected(f) ==
  {i \in DOMAIN ctx[f[2]].recv :
     ctx[f[2]].recv[i].src = f[1] /\ ctx[f[2]].recv[i].seq = got[f] + 1}
Recv(f) ==
  /\ Expected(f) # {}
  /\ ctx' = [ctx EXCEPT ![f[2]].recv = RemoveAt(@, Min(Expected(f)))]
  /\ got' = [got EXCEPT ![f] = @ + 1]
  /\ UNCHANGED <<seed, sent>>

\* The flits in router n.
Slots(s) == [i \in 1 .. 4 |-> s[i - 1]]
Holds(n) ==
  Slots(ctx[n].in) \o Slots(ctx[n].s2) \o ctx[n].send \o ctx[n].side \o ctx[n].recv

\* A flit that was sent is in one place of one router until it is received, and
\* then in none.
Conservation ==
  \A f \in Flows : \A k \in 1 .. sent[f] :
    Copies([n \in Node |-> Holds(n)], f, k) = IF k \in 1 .. got[f] THEN 0 ELSE 1
=============================================================================
