------------------------------ MODULE Barrier ------------------------------
(***************************************************************************)
(* What a program expects of MPI_Barrier (src/sw/lib/mpi/mpi_barrier.c):   *)
(* nobody leaves a barrier that not everybody has entered.                 *)
(***************************************************************************)
EXTENDS Naturals

CONSTANTS
  Size,     \* the number of processes of the communicator
  Rounds    \* how many barriers a process passes

Process == 0 .. Size - 1

VARIABLES
  entered,  \* how many barriers a process has entered
  left      \* how many it has left

vars == <<entered, left>>

Init ==
  /\ entered = [p \in Process |-> 0]
  /\ left = [p \in Process |-> 0]

Enter(p) ==
  /\ left[p] = entered[p]
  /\ entered[p] < Rounds
  /\ entered' = [entered EXCEPT ![p] = @ + 1]
  /\ UNCHANGED left

Leave(p) ==
  /\ left[p] < entered[p]
  /\ \A q \in Process : left[p] < entered[q]
  /\ left' = [left EXCEPT ![p] = @ + 1]
  /\ UNCHANGED entered

Next == \E p \in Process : Enter(p) \/ Leave(p)

Spec == Init /\ [][Next]_vars
=============================================================================
