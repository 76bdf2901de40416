----------------------------- MODULE MpiBarrier -----------------------------
(***************************************************************************)
(* MPI_Barrier, src/sw/lib/mpi/mpi_barrier.c.  A token passes through all  *)
(* processes in the order of their ranks and comes back to process 0, who  *)
(* then releases the others.  Token and release travel from process 0 to   *)
(* process 1 on the same channel, and nothing but the order of the flits   *)
(* tells the rounds apart.                                                 *)
(*                                                                         *)
(* The network is what Noc.tla promises: a lossless channel that keeps the *)
(* order, for each pair of processes.                                      *)
(***************************************************************************)
EXTENDS Naturals, Sequences

CONSTANTS
  Size,     \* comm->group.size
  Rounds    \* how many barriers a process passes

\* A process that is alone returns at once and is not modelled.
ASSUME BarrierAssumption == Size \in Nat \ {0, 1} /\ Rounds \in Nat

Process == 0 .. Size - 1

VARIABLES
  pc,       \* where a process is: "out" of the barrier, about to "send" the
            \* token, waiting for the token from its predecessor ("token") or
            \* for the "release", or the root "tell"ing the others
  told,     \* the processes below told have been released in this round
  chan,     \* the flits on the way between two processes
  entered,  \* history: how many barriers a process has entered
  left,     \* and left
  aborted   \* an assert has failed

vars == <<pc, told, chan, entered, left, aborted>>

Release == 42
Flit == Process \cup {Release}

\* Mutant: the last process has no successor.
FollowingNoWrap(p) == p + 1

\* The ranks that a process receives the token from and passes it to.
Previous(p) == IF p = 0 THEN Size - 1 ELSE p - 1
Following(p) == (p + 1) % Size

\* fgmp_send_flit and fgmp_recv_flit of the flit f between two processes.
SendFlit(s, d, f) == chan' = [chan EXCEPT ![s][d] = Append(@, f)]
RecvFlit(d, s) == chan[s][d] # <<>> /\ chan' = [chan EXCEPT ![s][d] = Tail(@)]

\* An assert on a flit that is received.
Check(ok) == aborted' = ~ok

Init ==
  /\ pc = [p \in Process |-> "out"]
  /\ told = 1
  /\ chan = [p \in Process |-> [q \in Process |-> <<>>]]
  /\ entered = [p \in Process |-> 0]
  /\ left = [p \in Process |-> 0]
  /\ aborted = FALSE

\* The call.
Enter(p) ==
  /\ pc[p] = "out"
  /\ entered[p] < Rounds
  /\ entered' = [entered EXCEPT ![p] = @ + 1]
  /\ pc' = [pc EXCEPT ![p] = IF p = 0 THEN "send" ELSE "token"]
  /\ UNCHANGED <<told, chan, left, aborted>>

\* Mutants: the root does not wait for the token; the others not for the release.
AfterSendRootHurries(p) == IF p = 0 THEN "tell" ELSE "release"
AfterSendOthersHurry(p) == IF p = 0 THEN "token" ELSE "out"

AfterSend(p) == IF p = 0 THEN "token" ELSE "release"

\* The token is passed on.
PassToken(p) ==
  /\ pc[p] = "send"
  /\ SendFlit(p, Following(p), p)
  /\ pc' = [pc EXCEPT ![p] = AfterSend(p)]
  /\ UNCHANGED <<told, entered, left, aborted>>

\* Mutant: the loop of broadcast_flit does not start from the beginning.
ToldAfterNoReset(p) == told

ToldAfter(p) == IF p = 0 THEN 1 ELSE told

\* The token is received; in process 0 the one that has passed all others.
TakeToken(p) ==
  /\ pc[p] = "token"
  /\ RecvFlit(p, Previous(p))
  /\ Check(Head(chan[Previous(p)][p]) = Previous(p))
  /\ pc' = [pc EXCEPT ![p] = IF p = 0 THEN "tell" ELSE "send"]
  /\ told' = ToldAfter(p)
  /\ UNCHANGED <<entered, left>>

\* One iteration of the loop of broadcast_flit, which process 0 calls.
Tell ==
  /\ pc[0] = "tell"
  /\ SendFlit(0, told, Release)
  /\ told' = told + 1
  /\ IF told + 1 = Size
     THEN pc' = [pc EXCEPT ![0] = "out"] /\ left' = [left EXCEPT ![0] = @ + 1]
     ELSE UNCHANGED <<pc, left>>
  /\ UNCHANGED <<entered, aborted>>

Released(p) ==
  /\ pc[p] = "release"
  /\ RecvFlit(p, 0)
  /\ Check(Head(chan[0][p]) = Release)
  /\ pc' = [pc EXCEPT ![p] = "out"]
  /\ left' = [left EXCEPT ![p] = @ + 1]
  /\ UNCHANGED <<told, entered>>

\* An assert that fails ends the program.
Step(p) == ~aborted /\ (PassToken(p) \/ TakeToken(p) \/ Released(p) \/ (p = 0 /\ Tell))

Next == \E p \in Process : Step(p) \/ (~aborted /\ Enter(p))

Spec == Init /\ [][Next]_vars

\* A process in the barrier keeps running; it need not call it again.
FairSpec == Spec /\ \A p \in Process : WF_vars(Step(p))

-----------------------------------------------------------------------------
\* The flits are of the kinds that the code sends, between its partners.
TypeOK ==
  /\ pc \in [Process -> {"out", "send", "token", "release", "tell"}]
  /\ told \in 1 .. Size
  /\ chan \in [Process -> [Process -> Seq(Flit)]]
  /\ entered \in [Process -> 0 .. Rounds]
  /\ left \in [Process -> 0 .. Rounds]
  /\ aborted \in BOOLEAN

\* The asserts on the received flits hold: no process takes the token of the
\* next round for the release of this one, or the other way round.
AssertsHold == ~aborted

\* Nobody leaves a barrier before everybody has entered it, in every round.
Barriers == INSTANCE Barrier
BarrierSpec == Barriers!Spec

\* The processes never all wait for one another: while somebody is in a barrier,
\* a process can go on, or one that is outside has yet to enter that barrier.
CanGoOn(p) ==
  \/ pc[p] \in {"send", "tell"}
  \/ pc[p] = "token" /\ chan[Previous(p)][p] # <<>>
  \/ pc[p] = "release" /\ chan[0][p] # <<>>
Late(p) == pc[p] = "out" /\ \E q \in Process : entered[p] < entered[q]
NobodyStuck ==
  (\E p \in Process : pc[p] # "out") => \E p \in Process : CanGoOn(p) \/ Late(p)

\* A barrier that everybody has entered is left by everybody.
EverybodyLeaves ==
  \A r \in 1 .. Rounds :
    (\A p \in Process : entered[p] >= r) ~> (\A p \in Process : left[p] >= r)
=============================================================================
