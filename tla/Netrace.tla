--------------------------------- MODULE Netrace -------------------------------
(***************************************************************************)
(* The cores of trace.c, which send the packets of a trace in the order    *)
(* that their dependencies allow, and the reader of the trace, netrace.c.  *)
(* A packet is its number in the trace; the dependencies of a packet are   *)
(* the later ones that wait for it.                                        *)
(***************************************************************************)
EXTENDS Simulation

CONSTANTS
  Trace,       \* packets, records of cycle, src, dst, srcType, dstType, request, len and deps
  NumCycles,   \* of the header of the trace
  ReadAheadCycles,                     \* NT_READ_AHEAD
  MemLatency, TagLatency, BankLatency, \* 150, 2 and 8 cycles in the code
  Horizon      \* bound: the clock stops there

VARIABLES
  nt           \* the reader, and the counters and the clock of the simulation

NetraceAssumption ==
  /\ \A p \in DOMAIN Trace : Trace[p].deps \subseteq p + 1 .. Len(Trace) /\ Trace[p].len > 0
  /\ \A p, q \in DOMAIN Trace : p < q => Trace[p].cycle <= Trace[q].cycle
  /\ NumCycles > Len(Trace) /\ Horizon > NumCycles

\* netrace_init_context and nt_init_self_throttling.  freed is no part of the code.
NetraceContext ==
  [kind |-> "netrace", state |-> Running, pc |-> 0, nextpc |-> 0,
   injqueue |-> <<>>, behind |-> 0, pendingLen |-> 0, pendingDest |-> 0, pendingFlit |-> 0]
NetraceStart ==
  [read |-> 0, latest |-> 0, done |-> FALSE, refs |-> <<>>, packets |-> {}, cleared |-> <<>>,
   fly |-> 0, injected |-> 0, now |-> -1, over |-> FALSE, freed |-> {}]

-----------------------------------------------------------------------------
\* netrace.c

\* nt_read_packet, with the nodes that it adds for the dependencies.
ReadPacket(t) ==
  LET p == t.read + 1
      deps == Trace[p].deps
  IN [t EXCEPT !.read = p, !.latest = Trace[p].cycle, !.packets = @ \cup {p},
               !.refs = [x \in DOMAIN @ \cup {p} \cup deps |->
                           (IF x \in DOMAIN @ THEN @[x] ELSE 0) + Truth(x \in deps)]]

\* Mutant: a packet that is read is cleared.
IfRead(t, p) == [t EXCEPT !.cleared = Append(@, p)]

\* nt_dependencies_cleared, and nt_add_cleared_packet_to_list if they are.
IfCleared(t, p) == IF t.refs[p] = 0 THEN [t EXCEPT !.cleared = Append(@, p)] ELSE t

\* nt_read_ahead.
RECURSIVE ReadAhead(_, _)
ReadAhead(t, cycle) ==
  IF t.done \/ t.latest > cycle + ReadAheadCycles THEN t
  ELSE IF t.read = Len(Trace) THEN [t EXCEPT !.done = TRUE]
  ELSE LET u == ReadPacket(t) IN ReadAhead(IfCleared(u, u.read), cycle)

\* nt_prime_self_throttle.
Prime(t) == IF t.read > 0 THEN t ELSE LET u == ReadPacket(t) IN ReadAhead(IfCleared(u, 1), Trace[1].cycle)

\* Mutant: a packet is cleared only if it waited for no packet before.
ClearDependenciesTooLate(t, p) ==
  LET u == ReadAhead(t, Trace[p].cycle)
      refs == [x \in DOMAIN u.refs |-> u.refs[x] - Truth(x \in Trace[p].deps)]
      ready == {x \in Trace[p].deps \cap u.packets : u.refs[x] = 0}
  IN [u EXCEPT !.refs = [x \in DOMAIN refs \ {p} |-> refs[x]], !.packets = @ \ {p},
               !.cleared = @ \o SetToSortSeq(ready, LAMBDA x, y : x < y),
               !.freed = @ \cup {p}]

\* nt_clear_dependencies_free_packet, with nt_remove_dependency_node.
ClearDependencies(t, p) ==
  LET u == ReadAhead(t, Trace[p].cycle)
      refs == [x \in DOMAIN u.refs |-> u.refs[x] - Truth(x \in Trace[p].deps)]
      ready == {x \in Trace[p].deps \cap u.packets : refs[x] = 0}
  IN [u EXCEPT !.refs = [x \in DOMAIN refs \ {p} |-> refs[x]], !.packets = @ \ {p},
               !.cleared = @ \o SetToSortSeq(ready, LAMBDA x, y : x < y),
               !.freed = @ \cup {p}]

-----------------------------------------------------------------------------
\* trace.c

\* netrace_callback_packet_cleared for all packets from the k-th of the list on,
\* which grows when a packet of a core to itself is left out.
RECURSIVE Callbacks(_, _, _)
Callbacks(t, queues, k) ==
  IF k > Len(t.cleared) THEN [t |-> [t EXCEPT !.cleared = <<>>], queues |-> queues]
  ELSE LET p == t.cleared[k]
       IN IF Trace[p].src = Trace[p].dst THEN Callbacks(ClearDependencies(t, p), queues, k + 1)
          ELSE Callbacks([t EXCEPT !.fly = @ + 1], [queues EXCEPT ![Trace[p].src] = Append(@, p)], k + 1)

\* The loop of simulation for traces: the network and netrace_inject_messages, whose
\* answer ends the loop.
InjectMessages ==
  /\ RouteAll
  /\ LET now == IF nt.now < Horizon THEN nt.now + 1 ELSE nt.now
         c == Callbacks(Prime(nt), [r \in Rank |-> node[r].injqueue], 1)
     IN /\ nt' = [c.t EXCEPT !.now = now, !.over = c.t.fly = 0 /\ now > NumCycles]
        /\ node' = [r \in Rank |-> [node[r] EXCEPT !.injqueue = c.queues[r]]]

\* The cycles that a packet waits at its sender: for the memory, for a cache, or to
\* be as late as the last answer was.  It is not sent before its time in the trace.
Latency(n, p) ==
  LET packet == Trace[p]
      fromL1 == packet.srcType = "L1"
      own == CASE packet.srcType = "MC" -> MemLatency
               [] packet.srcType = "L2" -> IF packet.dstType = "MC" THEN TagLatency
                                           ELSE IF packet.dstType = "L1" THEN BankLatency ELSE 0
               [] fromL1 /\ packet.request ->
                    IF packet.cycle + n.behind > nt.now THEN packet.cycle + n.behind - nt.now ELSE 0
               [] OTHER -> 0
  IN IF packet.cycle > nt.now + own THEN packet.cycle - nt.now ELSE own
Behind(n, p) ==
  IF Trace[p].srcType = "L1" /\ ~Trace[p].request
  THEN IF nt.now < Trace[p].cycle THEN 0 ELSE nt.now - Trace[p].cycle
  ELSE n.behind
FromQueue(n) ==
  LET p == Head(n.injqueue)
  IN [n EXCEPT !.injqueue = Tail(@), !.pendingLen = Trace[p].len, !.pendingDest = Trace[p].dst,
               !.pendingFlit = p, !.behind = Behind(n, p)]

\* netrace_one_cycle.  Only the last flit of a packet names it.
NetraceOneCycle(r) ==
  /\ OneCycle(r) /\ node[r].kind = "netrace"
  /\ LET n == node[r]
         arrived == IF inbox[r] = <<>> THEN 0 ELSE Head(inbox[r]).flit
         t == IF arrived = 0 THEN nt ELSE [ClearDependencies(nt, arrived) EXCEPT !.fly = @ - 1]
         fetches == n.pendingLen = 0 /\ n.injqueue # <<>>
         m == IF fetches THEN FromQueue(n) ELSE n
         waits == fetches /\ Latency(n, m.pendingFlit) > 0
         stops == m.pendingLen = 0 /\ t.injected = NumCycles /\ t.fly = 0
         last == m.pendingLen = 1
         sends == ~waits /\ m.pendingLen > 0 /\ SenderReady(r)
     IN /\ inbox' = IF inbox[r] = <<>> THEN inbox ELSE [inbox EXCEPT ![r] = Tail(@)]
        /\ transit' = IF sends
                      THEN [transit EXCEPT ![r][m.pendingDest] = Append(@, IF last THEN m.pendingFlit ELSE 0)]
                      ELSE transit
        /\ nt' = IF sends /\ last THEN [t EXCEPT !.injected = @ + 1] ELSE t
        /\ IF waits THEN Completes(r, m, Latency(n, m.pendingFlit))
           ELSE IF stops THEN Stops(r, m, StoppedState)
           ELSE Completes(r, IF sends THEN [m EXCEPT !.pendingLen = @ - 1] ELSE m, 1)
================================================================================
