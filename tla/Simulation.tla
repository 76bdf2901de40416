------------------------------- MODULE Simulation ------------------------------
(***************************************************************************)
(* The loop of macsim-seq.c that simulates the network and the cores in    *)
(* turns, and how it charges cycles for an instruction.  The network is    *)
(* what node.h promises of it: a send is taken if the sender is ready,     *)
(* flits of one sender arrive in their order, and a receiver asks for what *)
(* has arrived.                                                            *)
(***************************************************************************)
EXTENDS Words, Sequences, SequencesExt, FiniteSets

CONSTANTS SendSize   \* number of flits of a sender that may be under way

VARIABLES
  node,     \* rank -> context of the core (node_t without the network)
  turn,     \* the next core of this cycle; after the last one the network is due
  transit,  \* sender -> receiver -> flits under way
  inbox     \* receiver -> flits that have arrived, with their senders

simVars == <<node, turn, transit, inbox>>
netVars == <<transit, inbox>>

Rank == DOMAIN node
MaxRank == Cardinality(Rank)

\* The states of a core.  A larger number than Running counts down the cycles
\* that the instruction still takes.
Off == 0
StoppedState == 1
UnknownInstruction == 2
SendBlocked == 4
RecvBlocked == 5
Running == 6

\* Mutant: a core that could not send is given up.
ReadyUnlessSending(n) == n.state > SendBlocked

Ready(n) == n.state >= SendBlocked

-----------------------------------------------------------------------------
\* The interface of the network, as a core sees it.

SenderReady(r) == FoldFunction(LAMBDA q, c : Len(q) + c, 0, transit[r]) < SendSize
\* node->noc_send_flit, which returns true if the sender is ready.
Put(r, d, f) ==
  /\ SenderReady(r)
  /\ transit' = [transit EXCEPT ![r][d] = Append(@, f)]
  /\ inbox' = inbox
From(r, s) == {k \in DOMAIN inbox[r] : inbox[r][k].src = s}
ProbeRank(r, s) == From(r, s) # {}
ProbeAny(r) == IF inbox[r] = <<>> THEN -1 ELSE inbox[r][1].src
FirstFrom(r, s) == CHOOSE k \in From(r, s) : \A j \in From(r, s) : k <= j
\* node->noc_recv_flit, when it returns true.
Take(r, s) ==
  /\ ProbeRank(r, s)
  /\ inbox' = [inbox EXCEPT ![r] = RemoveAt(@, FirstFrom(r, s))]
  /\ transit' = transit
Taken(r, s) == inbox[r][FirstFrom(r, s)].flit

\* noc_route_all.  A router takes at most one flit to its core in a cycle.
Arriving(came) ==
  /\ \A d \in DOMAIN came : transit[came[d]][d] # <<>>
  /\ transit' = [s \in Rank |-> [d \in Rank |->
       IF d \in DOMAIN came /\ came[d] = s THEN Tail(transit[s][d]) ELSE transit[s][d]]]
  /\ inbox' = [d \in Rank |->
       IF d \in DOMAIN came
       THEN Append(inbox[d], [src |-> came[d], flit |-> Head(transit[came[d]][d])])
       ELSE inbox[d]]
RouteAll ==
  /\ turn = MaxRank /\ turn' = 0
  /\ \E ds \in SUBSET {d \in Rank : \E s \in Rank : transit[s][d] # <<>>} :
       \E came \in [ds -> Rank] : Arriving(came)

-----------------------------------------------------------------------------
\* simulate_one_instruction, after one_cycle has left the context n and returned
\* a number of cycles, IC_BLOCKED or IC_STOP.

Completes(r, n, cycles) ==
  node' = [node EXCEPT ![r] =
    [n EXCEPT !.state = Running - 1 + cycles, !.pc = IF cycles = 1 THEN n.nextpc ELSE @]]
Blocks(r, n, state) == node' = [node EXCEPT ![r] = [n EXCEPT !.state = state]]
Stops(r, n, state) == node' = [node EXCEPT ![r] = [n EXCEPT !.state = state]]

Turn(r) == turn = r /\ turn' = turn + 1
OneCycle(r) == Turn(r) /\ Ready(node[r]) /\ node[r].state <= Running

\* A cycle of an instruction that takes several.
Stalled(r) ==
  /\ Turn(r) /\ node[r].state > Running
  /\ node' = [node EXCEPT ![r].state = @ - 1,
                          ![r].pc = IF node[r].state = Running + 1 THEN node[r].nextpc ELSE @]
  /\ UNCHANGED netVars
\* A core that has stopped.
Idle(r) == Turn(r) /\ ~Ready(node[r]) /\ UNCHANGED <<node, netVars>>

\* The loop of simulation ends when no core is ready any more.
Ended == \A r \in Rank : ~Ready(node[r])
=============================================================================
