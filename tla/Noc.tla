--------------------------------- MODULE Noc ---------------------------------
(***************************************************************************)
(* What a program expects of noc_send_flit and noc_recv_flit: a lossless   *)
(* channel for each pair of a sender and a receiver that keeps the order   *)
(* of the flits.  Nothing is promised about flits of different pairs.      *)
(* The flits of a pair are told apart by their number.                     *)
(***************************************************************************)
EXTENDS Naturals

CONSTANTS
  Flows,     \* the pairs <<src, dest>> that communicate
  MaxFlits   \* how many flits a pair exchanges

VARIABLES
  sent,      \* the number of flits handed to the network, per flow
  got        \* the number of the last flit that was received, per flow

vars == <<sent, got>>

Init ==
  /\ sent = [f \in Flows |-> 0]
  /\ got = [f \in Flows |-> 0]

Send(f) ==
  /\ sent[f] < MaxFlits
  /\ sent' = [sent EXCEPT ![f] = @ + 1]
  /\ UNCHANGED got

\* The next flit is received: none is lost, doubled, reordered or made up.
Recv(f) ==
  /\ got[f] < sent[f]
  /\ got' = [got EXCEPT ![f] = @ + 1]
  /\ UNCHANGED sent

Next == \E f \in Flows : Send(f) \/ Recv(f)

Spec == Init /\ [][Next]_vars
=============================================================================
