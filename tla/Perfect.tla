------------------------------- MODULE Perfect -------------------------------
(***************************************************************************)
(* The network of src/macsim/src/noc/perfect.c: a flit can be received as  *)
(* soon as it has been sent.  There is no cycle of the network.            *)
(***************************************************************************)
EXTENDS Torus, Sequences

CONSTANTS
  Flows, MaxFlits  \* the pairs <<src, dest>> and their number of flits

VARIABLES
  recvbuf,    \* what a node can receive
  sent, got   \* history: flits sent, number of the last one received

vars == <<recvbuf, sent, got>>

Init ==
  /\ recvbuf = [n \in Node |-> <<>>]
  /\ sent = [f \in Flows |-> 0]
  /\ got = [f \in Flows |-> 0]

Send(f) ==
  /\ sent[f] < MaxFlits
  /\ recvbuf' = [recvbuf EXCEPT ![f[2]] = Append(@, [src |-> f[1], seq |-> sent[f] + 1])]
  /\ sent' = [sent EXCEPT ![f] = @ + 1]
  /\ UNCHANGED got

\* The positions of the flits of s in a queue; msg_dequeue_rank takes the first.
From(q, s) == {k \in 1 .. Len(q) : q[k].src = s}

\* perfect_recv_flit, when it returns true.
Recv(f) ==
  LET q == recvbuf[f[2]]
  IN \E k \in From(q, f[1]) :
       /\ \A j \in From(q, f[1]) : k <= j
       /\ recvbuf' = [recvbuf EXCEPT ![f[2]] = SubSeq(q, 1, k - 1) \o SubSeq(q, k + 1, Len(q))]
       /\ got' = [got EXCEPT ![f] = q[k].seq]
       /\ UNCHANGED sent

\* perfect_probe_rank.
ProbeRank(n, s) == From(recvbuf[n], s) # {}

Next == \E f \in Flows : Send(f) \/ Recv(f)

Spec == Init /\ [][Next]_vars
=============================================================================
