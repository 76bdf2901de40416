--------------------------- MODULE SendrecvReplace ---------------------------
(***************************************************************************)
(* MPI_Sendrecv_replace, src/sw/lib/mpi/mpi_sendrecv_replace.c.  Every     *)
(* process sends its buffer to one process and receives that of another    *)
(* one into the same buffer, while it sends.  Flits that arrive before     *)
(* their place in the buffer has been sent wait in a small ring buffer.    *)
(* The processes may shift their buffers around a ring, swap them in       *)
(* pairs, or keep them: any permutation.                                   *)
(***************************************************************************)
EXTENDS Naturals, Sequences, Functions

CONSTANTS
  Size,       \* the number of processes that call the function
  Length,     \* the flits of a message
  Partial,    \* whether the last of them is only partly used
  MaxRingbuf, \* MAX_RINGBUF
  Rooms       \* how many flits the network may hold for a process before fgmp_cong

ReplaceAssumption ==
  /\ Size \in Nat \ {0}
  /\ Length \in Nat \ {0} /\ Partial \in BOOLEAN
  /\ MaxRingbuf \in Nat \ {0} /\ Rooms \subseteq Nat \ {0}

Process == 0 .. Size - 1

VARIABLES
  room,     \* the room for flits to a process, a setting of the network
  dest,     \* the process that each process sends to
  pc,       \* the next statement of a process
  sptr,     \* sptr - buf; slen is what is left of Length
  rptr,     \* rptr - buf
  rest,     \* rlen, in flits
  ringbuf,  \* the flits in the ring buffer, oldest first
  buf,      \* the buffer
  chan,     \* the flits on the way from one process to another
  aborted   \* an assert has failed

vars == <<room, dest, pc, sptr, rptr, rest, ringbuf, buf, chan, aborted>>

\* The parameters dest and source of the calls, which match one another.
Dest(p) == dest[p]
Source(p) == CHOOSE q \in Process : dest[q] = p

\* The flits: data of the process p at the place i; headflit_from_tag_and_len of
\* the tag and the length, which are the same in all processes; ACK_FLIT.
Data(p, i) == <<"data", p, i>>
HeadFlit == <<"head", 0, 0>>
Ack == <<"ack", 0, 0>>

Init ==
  /\ room \in Rooms
  /\ dest \in Bijection(Process, Process)
  /\ pc = [p \in Process |-> "sendHead"]
  /\ sptr = [p \in Process |-> 0]
  /\ rptr = [p \in Process |-> 0]
  /\ rest = [p \in Process |-> Length]
  /\ ringbuf = [p \in Process |-> <<>>]
  /\ buf = [p \in Process |-> [i \in 0 .. Length - 1 |-> Data(p, i)]]
  /\ chan = [p \in Process |-> [q \in Process |-> <<>>]]
  /\ aborted = FALSE

\* What has arrived for a process waits in one receive buffer, whoever has sent it:
\* the process before it, or the one after it, which acknowledges.  Nobody else
\* sends to it.
Waiting(q) ==
  Len(chan[Source(q)][q]) + (IF Dest(q) = Source(q) THEN 0 ELSE Len(chan[Dest(q)][q]))

\* fgmp_cong and the sending and receiving of a flit.
Cong(q) == Waiting(q) >= room
SendFlit(p, q, f) == ~Cong(q) /\ chan' = [chan EXCEPT ![p][q] = Append(@, f)]
RecvFlit(p, q) == chan[q][p] # <<>> /\ chan' = [chan EXCEPT ![q][p] = Tail(@)]

Goto(p, l) == pc' = [pc EXCEPT ![p] = l]

\* The header goes out before the one of the partner comes in.
SendHead(p) ==
  /\ pc[p] = "sendHead"
  /\ SendFlit(p, Dest(p), HeadFlit)
  /\ Goto(p, "recvHead")
  /\ UNCHANGED <<room, dest, sptr, rptr, rest, ringbuf, buf, aborted>>

\* Mutant: every process waits for its acknowledgement before it sends one.
AfterHeadWaits(p) == IF Dest(p) = Source(p) THEN "send" ELSE "recvAck"

\* No acknowledgements between two processes that swap their buffers; a process
\* that sends to itself returns.
AfterHead(p) ==
  CASE Dest(p) # Source(p) -> "sendAck"
    [] Dest(p) = Source(p) /\ Dest(p) # p -> "send"
    [] Dest(p) = p -> "done"

RecvHead(p) ==
  /\ pc[p] = "recvHead"
  /\ RecvFlit(p, Source(p))
  /\ aborted' = (chan[Source(p)][p][1] # HeadFlit)
  /\ Goto(p, AfterHead(p))
  /\ UNCHANGED <<room, dest, sptr, rptr, rest, ringbuf, buf>>

SendAck(p) ==
  /\ pc[p] = "sendAck"
  /\ SendFlit(p, Source(p), Ack)
  /\ Goto(p, "recvAck")
  /\ UNCHANGED <<room, dest, sptr, rptr, rest, ringbuf, buf, aborted>>

RecvAck(p) ==
  /\ pc[p] = "recvAck"
  /\ RecvFlit(p, Dest(p))
  /\ aborted' = (chan[Dest(p)][p][1] # Ack)
  /\ Goto(p, "send")
  /\ UNCHANGED <<room, dest, sptr, rptr, rest, ringbuf, buf>>

\* The first half of the loop: the place that has just been sent gets the
\* oldest flit of the ring buffer, but rptr stays where it is.
LoopSend(p) ==
  /\ pc[p] = "send" /\ sptr[p] < Length
  /\ Goto(p, "recv")
  /\ IF Cong(Dest(p)) THEN UNCHANGED <<sptr, ringbuf, buf, chan>>
     ELSE /\ SendFlit(p, Dest(p), buf[p][sptr[p]])
          /\ sptr' = [sptr EXCEPT ![p] = @ + 1]
          /\ IF ringbuf[p] = <<>> THEN UNCHANGED <<ringbuf, buf>>
             ELSE /\ buf' = [buf EXCEPT ![p][sptr[p]] = ringbuf[p][1]]
                  /\ ringbuf' = [ringbuf EXCEPT ![p] = Tail(@)]
  /\ UNCHANGED <<room, dest, rptr, rest, aborted>>

\* The last flit is not received in the loop when it is only partly used.
WholeFlitLeft(p) == rest[p] > IF Partial THEN 1 ELSE 0

\* Mutant: the place that is sent next is taken for one that has been sent.
MustWaitTooLate(p) == ringbuf[p] # <<>> \/ rptr[p] > sptr[p]

\* A received flit cannot be stored yet.
MustWait(p) == ringbuf[p] # <<>> \/ rptr[p] >= sptr[p]

\* The condition of the second half of the loop.
Takes(p) ==
  WholeFlitLeft(p) /\ Len(ringbuf[p]) < MaxRingbuf /\ chan[Source(p)][p] # <<>>

\* The second half of the loop.
LoopRecv(p) ==
  /\ pc[p] = "recv"
  /\ Goto(p, "send")
  /\ IF Takes(p)
     THEN LET f == chan[Source(p)][p][1] IN
          /\ RecvFlit(p, Source(p))
          /\ rest' = [rest EXCEPT ![p] = @ - 1]
          /\ IF MustWait(p)
             THEN /\ ringbuf' = [ringbuf EXCEPT ![p] = Append(@, f)]
                  /\ UNCHANGED <<rptr, buf>>
             ELSE /\ buf' = [buf EXCEPT ![p][rptr[p]] = f]
                  /\ rptr' = [rptr EXCEPT ![p] = @ + 1]
                  /\ UNCHANGED ringbuf
     ELSE UNCHANGED <<rptr, rest, ringbuf, buf, chan>>
  /\ UNCHANGED <<room, dest, sptr, aborted>>

\* One flit of recv_raw, which does not look at the ring buffer.
RecvRest(p) ==
  /\ pc[p] = "send" /\ sptr[p] = Length
  /\ rest[p] > 0
  /\ RecvFlit(p, Source(p))
  /\ buf' = [buf EXCEPT ![p][rptr[p]] = chan[Source(p)][p][1]]
  /\ rptr' = [rptr EXCEPT ![p] = @ + 1]
  /\ rest' = [rest EXCEPT ![p] = @ - 1]
  /\ UNCHANGED <<room, dest, pc, sptr, ringbuf, aborted>>

Return(p) ==
  /\ pc[p] = "send" /\ sptr[p] = Length
  /\ rest[p] = 0
  /\ Goto(p, "done")
  /\ UNCHANGED <<room, dest, sptr, rptr, rest, ringbuf, buf, chan, aborted>>

Step(p) ==
  /\ ~aborted
  /\ \/ SendHead(p) \/ RecvHead(p) \/ SendAck(p) \/ RecvAck(p)
     \/ LoopSend(p) \/ LoopRecv(p) \/ RecvRest(p) \/ Return(p)

Next == \E p \in Process : Step(p)

Spec == Init /\ [][Next]_vars

-----------------------------------------------------------------------------
\* What a process sends is its own data, in order, although it receives into
\* the same buffer in the meantime: the last flit on the way to the process it
\* sends to is from the place before sptr, the one in front of it from the place
\* before that.
SendsOriginal ==
  \A p \in Process :
    LET flits == chan[p][Dest(p)]
    IN \A k \in 1 .. Len(flits) :
         flits[k][1] = "data" => flits[k] = Data(p, sptr[p] - Len(flits) + k - 1)

\* A flit can move: one that p sends or receives next; or p returns.  In the loop a
\* process that can do neither keeps going round.
GoesOn(p) ==
  \/ pc[p] = "sendHead" /\ ~Cong(Dest(p))
  \/ pc[p] = "recvHead" /\ chan[Source(p)][p] # <<>>
  \/ pc[p] = "sendAck" /\ ~Cong(Source(p))
  \/ pc[p] = "recvAck" /\ chan[Dest(p)][p] # <<>>
  \/ pc[p] \in {"send", "recv"} /\ sptr[p] < Length /\ (~Cong(Dest(p)) \/ Takes(p))
  \/ pc[p] \in {"send", "recv"} /\ sptr[p] = Length /\ (rest[p] = 0 \/ chan[Source(p)][p] # <<>>)

\* The flit that p waits for cannot come: those of the other sender fill the receive
\* buffer, and p takes none of them before.  The header or the data of the process
\* before p keep out the acknowledgement of the one after it, or the other way round.
KeptOut(p) ==
  /\ Cong(p)
  /\ \/ pc[p] = "recvHead" /\ chan[Source(p)][p] = <<>>
     \/ pc[p] = "recvAck" /\ chan[Dest(p)][p] = <<>>
SomebodyKeptOut == room <= Length /\ \E p \in Process : KeptOut(p)

\* Until everybody has returned there is a process that can go on, as small as the
\* ring buffer may be, or there is less room than for a message and an
\* acknowledgement, and the message keeps out the acknowledgement.  Headers, full
\* ring buffers and congestion never make all processes wait for one another otherwise.
SomebodyGoesOn ==
  (\E p \in Process : pc[p] # "done") => (\E p \in Process : GoesOn(p)) \/ SomebodyKeptOut

\* "everything sent, receive rest": when the function returns, the buffer holds
\* the message of the source, in order.
ReceivedAll ==
  \A p \in Process : pc[p] = "done" =>
    \A i \in 0 .. Length - 1 : buf[p][i] = Data(Source(p), i)
=============================================================================
