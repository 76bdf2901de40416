----------------------------- MODULE MpiLibrary -----------------------------
(***************************************************************************)
(* The functions of src/sw/lib/mpi that transfer messages: the calls of    *)
(* MpiCalls, one after the other, and MPI_Sendrecv_replace, whose buffer   *)
(* has a module of its own.  What a program calls is chosen in the initial *)
(* state.                                                                  *)
(***************************************************************************)
EXTENDS MpiCalls, TLAPS

VARIABLES
  replacing,  \* MPI_Sendrecv_replace is called
  room, dest, pc, sptr, rptr, rest, ringbuf, buf

replaceVars == <<room, dest, pc, sptr, rptr, rest, ringbuf, buf>>
callVars == <<program, calls, script, mixed>>
libraryVars == <<replacing, replaceVars, callVars, chan, aborted>>

\* The smallest ring buffer; room for a message and an acknowledgement, and less.
Replace == INSTANCE SendrecvReplaceProofs WITH
  Length <- 4, Partial <- TRUE, MaxRingbuf <- 1, Rooms <- {1, 4, 5}

ASSUME LibraryAssumption == Replace!ReplaceAssumption

-----------------------------------------------------------------------------
\* The programs that the runs choose from.
World == <<0, 1, 2>>
Part == <<2, 0>>
Alone == <<1>>
Op(op, comm, root, to, len) ==
  [op |-> op, comm |-> comm, root |-> root, dest |-> to, len |-> len]
All(n) == <<n, n, n>>

Firsts ==
  {Op("send", World, 0, 2, All(2)), Op("sendrecv", World, 0, 0, All(2)),
   Op("bcast", World, 1, 0, All(2)), Op("scatter", World, 0, 0, <<1, 1, 2>>),
   Op("gather", World, 0, 0, <<1, 2, 1>>), Op("allreduce", World, 0, 0, All(1)),
   Op("barrier", World, 0, 0, All(0)), Op("gather", Part, 1, 0, All(2)),
   Op("bcast", Part, 0, 0, All(2)), Op("sendrecv", Part, 0, 0, All(3)),
   Op("sendrecv", Alone, 0, 0, All(1))}
Seconds == Firsts \cup
  {Op("alltoall", World, 0, 0, All(1)), Op("alltoall", World, 0, 0, All(2)),
   Op("alltoall", World, 0, 0, <<2, 0, 1>>)}
\* sw/tests/mpi/mpi_alltoall.c.
TestAlltoall == {<<Op("alltoall", World, 0, 0, All(1)), Op("barrier", World, 0, 0, All(0))>>}

Pairs == {<<a, b>> : a \in Firsts, b \in Seconds}

-----------------------------------------------------------------------------
LibraryInit ==
  /\ replacing \in BOOLEAN
  /\ IF replacing
     THEN Replace!Init /\ program = <<>> /\ calls = <<>> /\ script = <<>> /\ mixed = FALSE
     ELSE /\ Init
          /\ room = 0 /\ dest = <<>> /\ pc = <<>> /\ sptr = <<>> /\ rptr = <<>>
          /\ rest = <<>> /\ ringbuf = <<>> /\ buf = <<>>

LibraryStep(p) ==
  /\ \/ replacing /\ Replace!Step(p) /\ UNCHANGED callVars
     \/ ~replacing /\ Step(p) /\ UNCHANGED replaceVars
  /\ UNCHANGED replacing

LibraryNext == \E p \in Process : LibraryStep(p)

\* Every process keeps running.
LibrarySpec ==
  /\ LibraryInit
  /\ [][LibraryNext]_libraryVars
  /\ \A p \in Process : WF_libraryVars(LibraryStep(p))

-----------------------------------------------------------------------------
\* What a process sends is its own data, in order, although MPI_Sendrecv_replace
\* receives into the same buffer in the meantime.
SendsOriginal == replacing => Replace!SendsOriginal

\* Not all wait for one another in an exchange in place, unless there is too little
\* room for the acknowledgement of a process that comes late.
ExchangeGoesOn == replacing => Replace!SomebodyGoesOn

\* The calls receive every flit where it belongs and leave none behind.
CallsReceiveTheirs == replacing \/ NothingMixed
CallsLeaveNothing == replacing \/ NothingLeft

\* Everybody returns from all calls, with room for 3 flits.  From an exchange in place
\* everybody returns if there is room for a message and an acknowledgement, or if
\* no acknowledgement has been kept out for want of it.
EverybodyReturns ==
  <>(IF replacing THEN (\A p \in Process : pc[p] = "done") \/ Replace!SomebodyKeptOut
     ELSE \A p \in Process : Returned(p))
=============================================================================
