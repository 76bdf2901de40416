------------------------------- MODULE MpiCalls -------------------------------
(***************************************************************************)
(* The functions of src/sw/lib/mpi that transfer messages, called one      *)
(* after the other by several processes.  The flits carry no tags: only    *)
(* the order on the channel between two processes, and flits that          *)
(* acknowledge, tell which call a flit belongs to.                         *)
(*                                                                         *)
(* A call becomes the script of its sends and receives in the order of the *)
(* code; the loops in which that order depends on the network are single   *)
(* steps of the script that are repeated.  A data flit is identified by    *)
(* the call and its place in the message.  Messages are counted in flits.  *)
(***************************************************************************)
EXTENDS Naturals, Sequences, FiniteSets, SequencesExt

CONSTANTS
  Size,      \* the number of processes, fgmp_get_max_cid
  Capacity,  \* the flits the network holds for a process before fgmp_cong
  Partial,   \* whether the last flit of a message is only partly used
  Programs   \* the sequences of calls that all processes make

Process == 0 .. Size - 1

\* The parameters of a call: a communicator as the sequence of its cids
\* (MPI_Group_incl and MPI_Comm_create), the ranks of a root or source and of a
\* destination, and the length of the part of every rank (all the same but in
\* gatherv, scatterv).
Operation ==
  {"send", "sendrecv", "bcast", "scatter", "gather", "allreduce", "barrier", "alltoall"}
Parameters == [op : Operation, comm : Seq(Process), root : Nat, dest : Nat, len : Seq(Nat)]

\* What a program has to observe: nobody sends to itself, MPI_Gather and MPI_Allreduce
\* wait for ever for a part without flits, and MPI_Alltoall knows the ranks of
\* MPI_COMM_WORLD only.
IsCall(c) ==
  /\ c.comm # <<>> /\ \A i, j \in DOMAIN c.comm : c.comm[i] = c.comm[j] => i = j
  /\ c.root < Len(c.comm) /\ c.dest < Len(c.comm) /\ Len(c.comm) <= Len(c.len)
  /\ c.op = "send" => c.root # c.dest
  /\ c.op \in {"gather", "allreduce"} => \A i \in DOMAIN c.len : c.len[i] > 0
  /\ c.op = "alltoall" => c.comm = [i \in 1 .. Size |-> i - 1]

ASSUME CallsAssumption ==
  /\ Size \in Nat \ {0}
  /\ \A a \in Programs : a \in Seq(Parameters) /\ \A k \in DOMAIN a : IsCall(a[k])

VARIABLES
  program,  \* the calls
  calls,    \* the number of calls each process has begun
  script,   \* what is left of the current call of each process
  chan,     \* the flits on the way from one process to another
  aborted,  \* an assert has failed
  mixed     \* history: a flit was taken for one of another call or place

vars == <<program, calls, script, chan, aborted, mixed>>

-----------------------------------------------------------------------------
\* The communicator, its ranks and their parts in the call k.
Comm(k) == program[k].comm
CidFromComm(k, rank) == Comm(k)[rank + 1]
GroupSize(k) == Len(Comm(k))
GroupRank(k, p) == CHOOSE r \in 0 .. GroupSize(k) - 1 : CidFromComm(k, r) = p
PartLength(k, rank) == program[k].len[rank + 1]
IsWorld(k) == Comm(k) = [i \in 1 .. Size |-> i - 1]

\* The flits: ACK_FLIT, the header of tag and length, and the data.
Ack(k) == [kind |-> "ack", call |-> k, place |-> 0]
HeadFlit(k, len) == [kind |-> "head", call |-> k, place |-> len]
Data(k, i) == [kind |-> "data", call |-> k, place |-> i]

\* The steps of a script.
Send(q, f) == <<[do |-> "send", cid |-> q, flit |-> f]>>
Receive(q, f) == <<[do |-> "recv", cid |-> q, flit |-> f]>>
SendRaw(k, q, first, last) ==
  [j \in 1 .. (last + 1) - first |-> Send(q, Data(k, first + j - 1))[1]]
RecvRaw(k, q, first, last) ==
  [j \in 1 .. (last + 1) - first |-> Receive(q, Data(k, first + j - 1))[1]]

\* The steps that are loops, and when they end.
Finished(h) ==
  CASE h.do = "acks" -> h.from = {}
    [] h.do = "gather" -> \A q \in Process : h.lens[q] = 0
    [] h.do = "sendrecv" -> h.sleft = 0 /\ h.rleft = 0
    [] h.do = "alltoall" -> \A r \in DOMAIN h.slens : h.slens[r] = 0 /\ h.rlens[r] = 0
    [] OTHER -> FALSE
Loop(h) == IF Finished(h) THEN <<>> ELSE <<h>>

\* The same for all ranks but one, in their order.
ForOthers(k, root, Part(_)) ==
  FlattenSeq([i \in 1 .. GroupSize(k) |-> IF i - 1 = root THEN <<>> ELSE Part(i - 1)])

\* The first flit is sent even if there is none.
SendAcked(k, q, len) ==
  Send(q, Data(k, 1)) \o Receive(q, Ack(k)) \o SendRaw(k, q, 2, len)
RecvAcked(k, q, len) ==
  Receive(q, Data(k, 1)) \o Send(q, Ack(k)) \o RecvRaw(k, q, 2, len)

\* MPI_Send, and MPI_Recv, which MPI_Wait calls with the parameters of MPI_Irecv.
SendScript(k, q, len) ==
  Send(q, HeadFlit(k, len)) \o Receive(q, Ack(k)) \o SendRaw(k, q, 1, len)
RecvScript(k, q, len) ==
  Receive(q, HeadFlit(k, len)) \o Send(q, Ack(k)) \o RecvRaw(k, q, 1, len)

\* MPI_Sendrecv, here to the next rank and from the previous one.  No
\* acknowledgement if they are the same.
SendrecvScript(k, me) ==
  LET n == GroupSize(k)
      to == CidFromComm(k, (me + 1) % n)
      from == CidFromComm(k, (me + n - 1) % n)
      slen == PartLength(k, (me + 1) % n)
      rlen == PartLength(k, me)
  IN Send(to, HeadFlit(k, slen)) \o Receive(from, HeadFlit(k, rlen))
     \o (IF to = from THEN <<>> ELSE Send(from, Ack(k)) \o Receive(to, Ack(k)))
     \o Loop([do |-> "sendrecv", to |-> to, from |-> from,
              slen |-> slen, sleft |-> slen, rlen |-> rlen, rleft |-> rlen])

\* Mutant: the root does not wait for the acknowledgements.
BcastScriptNoWait(k, me, root) ==
  LET len == PartLength(k, root)
      First(r) == Send(CidFromComm(k, r), Data(k, 1))
      Rest(i) == ForOthers(k, root, LAMBDA r : Send(CidFromComm(k, r), Data(k, i)))
  IN IF me # root THEN RecvAcked(k, CidFromComm(k, root), len)
     ELSE ForOthers(k, root, First) \o FlattenSeq([i \in 1 .. len - 1 |-> Rest(i + 1)])

\* MPI_Bcast.
BcastScript(k, me, root) ==
  LET len == PartLength(k, root)
      First(r) == Send(CidFromComm(k, r), Data(k, 1))
      Rest(i) == ForOthers(k, root, LAMBDA r : Send(CidFromComm(k, r), Data(k, i)))
      others == {CidFromComm(k, r) : r \in (0 .. GroupSize(k) - 1) \ {root}}
  IN IF me # root THEN RecvAcked(k, CidFromComm(k, root), len)
     ELSE ForOthers(k, root, First) \o Loop([do |-> "acks", from |-> others])
          \o FlattenSeq([i \in 1 .. len - 1 |-> Rest(i + 1)])

\* MPI_Scatter and MPI_Scatterv.
ScatterScript(k, me, root) ==
  IF me # root THEN RecvAcked(k, CidFromComm(k, root), PartLength(k, me))
  ELSE ForOthers(k, root, LAMBDA r : SendAcked(k, CidFromComm(k, r), PartLength(k, r)))

\* The root of MPI_Gather, MPI_Gatherv and MPI_Reduce: lens of all processes.
GatherLens(k, root) ==
  [q \in Process |->
     IF q \in ToSet(Comm(k)) /\ GroupRank(k, q) # root THEN PartLength(k, GroupRank(k, q)) ELSE 0]
GatherStep(k, root) == Loop([do |-> "gather", lens |-> GatherLens(k, root), ack |-> 0])

\* Mutant: a process sends its part at once.
GatherPartAtOnce(k, me, root) == SendRaw(k, CidFromComm(k, root), 1, PartLength(k, me))

\* The other processes wait until the root is ready.
GatherPart(k, me, root) ==
  Receive(CidFromComm(k, root), Ack(k))
  \o SendRaw(k, CidFromComm(k, root), 1, PartLength(k, me))
GatherScript(k, me, root) ==
  IF me = root THEN GatherStep(k, root) ELSE GatherPart(k, me, root)

\* MPI_Allreduce: rank 0 sends the result without asking.
AllreduceScript(k, me) ==
  LET Result(r) == SendRaw(k, CidFromComm(k, r), 1, PartLength(k, r)) IN
  IF me = 0 THEN GatherStep(k, 0) \o ForOthers(k, 0, Result)
  ELSE GatherPart(k, me, 0) \o RecvRaw(k, CidFromComm(k, 0), 1, PartLength(k, me))

\* MPI_Barrier, which the module MpiBarrier models in detail.
BarrierScript(k, me) ==
  LET n == GroupSize(k)
      Pass == Send(CidFromComm(k, (me + 1) % n), Data(k, 0))
      Take == Receive(CidFromComm(k, (me + n - 1) % n), Data(k, 0))
  IN IF me = 0
     THEN Pass \o Take \o ForOthers(k, 0, LAMBDA r : Send(CidFromComm(k, r), Data(k, 1)))
     ELSE Take \o Pass \o Receive(CidFromComm(k, 0), Data(k, 1))

\* MPI_Alltoall and MPI_Alltoallv.  A flit goes around the ring, then rank 0
\* sends one to every rank; rank 1 has two flits of rank 0 then, the second one
\* of which is to be ignored if the message has only one.
RingStart(k, me) ==
  LET n == GroupSize(k)
      next == CidFromComm(k, (me + 1) % n)
      prev == CidFromComm(k, (me + n - 1) % n)
      Second(r) == IF r = 1 THEN 2 ELSE 1
  IN IF me = 0
     THEN Send(next, Data(k, 1)) \o Receive(prev, Data(k, 1))
          \o ForOthers(k, 0, LAMBDA r : Send(CidFromComm(k, r), Data(k, Second(r))))
     ELSE Receive(prev, Data(k, 1)) \o Send(next, Data(k, 1))
          \o Receive(CidFromComm(k, 0), Data(k, Second(me)))

\* How many flits of a message of rank s to rank d the start has sent.
InStart(n, s, d) ==
  (IF d = (s + 1) % n THEN 1 ELSE 0) + (IF s = 0 THEN 1 ELSE 0)
Left(len, k) == IF len > k THEN len - k ELSE 0
Exchange(k, me) ==
  LET n == GroupSize(k)
      ranks == 0 .. n - 1
      Rest(len, r, s, d) == IF r = me THEN 0 ELSE Left(len, InStart(n, s, d))
  IN Loop([do |-> "alltoall", slens |-> [r \in ranks |-> Rest(PartLength(k, r), r, me, r)],
                              rlens |-> [r \in ranks |-> Rest(PartLength(k, me), r, r, me)]])
AlltoallScript(k, me) == RingStart(k, me) \o Exchange(k, me)

\* The script of call k for process p.
Script(k, p) ==
  LET me == GroupRank(k, p)
      c == program[k]
      Is(op) == c.op = op
      partner == CidFromComm(k, IF me = c.root THEN c.dest ELSE c.root)
      len == PartLength(k, c.dest)
  IN CASE p \notin ToSet(c.comm) -> <<>>
       [] OTHER ->
          CASE Is("send") -> IF me = c.root THEN SendScript(k, partner, len)
                             ELSE IF me = c.dest THEN RecvScript(k, partner, len) ELSE <<>>
            [] Is("sendrecv") -> SendrecvScript(k, me)
            [] Is("bcast") -> BcastScript(k, me, c.root)
            [] Is("scatter") -> ScatterScript(k, me, c.root)
            [] Is("gather") -> GatherScript(k, me, c.root)
            [] Is("allreduce") -> AllreduceScript(k, me)
            [] Is("barrier") -> BarrierScript(k, me)
            [] Is("alltoall") -> AlltoallScript(k, me)

-----------------------------------------------------------------------------
\* fgmp_cong and the sending of a flit; the network holds Capacity flits for a
\* process, whoever has sent them.
Cong(q) == FoldFunction(+, 0, [p \in Process |-> Len(chan[p][q])]) >= Capacity
SendFlit(p, q, f) == ~Cong(q) /\ chan' = [chan EXCEPT ![p][q] = Append(@, f)]

\* fgmp_probe, and the receiving of a flit where the code expects f.
Probe(p, q) == chan[q][p] # <<>>
TakeFlit(p, q, f) ==
  /\ Probe(p, q)
  /\ chan' = [chan EXCEPT ![q][p] = Tail(@)]
  /\ aborted' = (f.kind # "data" /\ Head(chan[q][p]).kind # f.kind)
  /\ mixed' = (mixed \/ Head(chan[q][p]) # f)

AtStep(p, do) == script[p] # <<>> /\ Head(script[p]).do = do
Continue(p, steps) == script' = [script EXCEPT ![p] = steps \o Tail(@)]

Init ==
  /\ program \in Programs
  /\ calls = [p \in Process |-> 0]
  /\ script = [p \in Process |-> <<>>]
  /\ chan = [p \in Process |-> [q \in Process |-> <<>>]]
  /\ aborted = FALSE
  /\ mixed = FALSE

\* The last call has returned, the next one begins.
Call(p) ==
  /\ script[p] = <<>> /\ calls[p] < Len(program)
  /\ calls' = [calls EXCEPT ![p] = @ + 1]
  /\ script' = [script EXCEPT ![p] = Script(calls[p] + 1, p)]
  /\ UNCHANGED <<program, chan, aborted, mixed>>

SendStep(p) ==
  /\ AtStep(p, "send")
  /\ SendFlit(p, Head(script[p]).cid, Head(script[p]).flit)
  /\ Continue(p, <<>>)
  /\ UNCHANGED <<program, calls, aborted, mixed>>

RecvStep(p) ==
  /\ AtStep(p, "recv")
  /\ TakeFlit(p, Head(script[p]).cid, Head(script[p]).flit)
  /\ Continue(p, <<>>)
  /\ UNCHANGED <<program, calls>>

\* wait_for_ack: one of the processes that have not answered yet.
WaitForAck(p) ==
  /\ AtStep(p, "acks")
  /\ \E q \in Head(script[p]).from :
       /\ TakeFlit(p, q, Ack(calls[p]))
       /\ Continue(p, Loop([Head(script[p]) EXCEPT !.from = @ \ {q}]))
  /\ UNCHANGED <<program, calls>>

\* gather: while no flit is there the processes are told to start, in the order
\* of their cids, or a flit is received from any of them.
GatherStart(p) ==
  LET h == Head(script[p]) IN
  /\ AtStep(p, "gather") /\ h.ack < Size
  /\ IF h.lens[h.ack] = 0 THEN UNCHANGED chan ELSE SendFlit(p, h.ack, Ack(calls[p]))
  /\ Continue(p, <<[h EXCEPT !.ack = @ + 1]>>)
  /\ UNCHANGED <<program, calls, aborted, mixed>>
GatherRecv(p) ==
  LET h == Head(script[p])
      k == calls[p]
  IN /\ AtStep(p, "gather")
     /\ \E q \in {q \in Process : h.lens[q] # 0} :
          /\ TakeFlit(p, q, Data(k, PartLength(k, GroupRank(k, q)) - h.lens[q] + 1))
          /\ Continue(p, Loop([h EXCEPT !.lens[q] = @ - 1]))
     /\ UNCHANGED <<program, calls>>

\* The loop of MPI_Sendrecv, then recv_raw: the last flit is not received in the
\* loop if it is only partly used.
ExchangeSend(p) ==
  LET h == Head(script[p]) IN
  /\ AtStep(p, "sendrecv") /\ h.sleft > 0
  /\ SendFlit(p, h.to, Data(calls[p], h.slen - h.sleft + 1))
  /\ Continue(p, Loop([h EXCEPT !.sleft = @ - 1]))
  /\ UNCHANGED <<program, calls, aborted, mixed>>
ExchangeRecv(p) ==
  LET h == Head(script[p]) IN
  /\ AtStep(p, "sendrecv") /\ h.rleft > 0
  /\ h.sleft = 0 \/ ~Partial \/ h.rleft > 1
  /\ TakeFlit(p, h.from, Data(calls[p], h.rlen - h.rleft + 1))
  /\ Continue(p, Loop([h EXCEPT !.rleft = @ - 1]))
  /\ UNCHANGED <<program, calls>>

\* The loop of alltoall: the ranks take turns, and those whose turn it is while
\* fgmp_cong holds are passed over; fgmp_any takes a flit of any process.
AlltoallSend(p) ==
  LET h == Head(script[p])
      k == calls[p]
  IN /\ AtStep(p, "alltoall")
     /\ \E r \in {r \in DOMAIN h.slens : h.slens[r] # 0} :
          /\ SendFlit(p, CidFromComm(k, r), Data(k, PartLength(k, r) - h.slens[r] + 1))
          /\ Continue(p, Loop([h EXCEPT !.slens[r] = @ - 1]))
     /\ UNCHANGED <<program, calls, aborted, mixed>>

\* rank_in_comm: in a communicator of its own only index 0 is looked at, the
\* loop counts the wrong variable.
RankKnown(k, q) == IsWorld(k) \/ q = CidFromComm(k, 0)
AlltoallRecv(p) ==
  LET h == Head(script[p])
      k == calls[p]
      Rank(q) == GroupRank(k, q)
  IN /\ AtStep(p, "alltoall")
     /\ \E q \in {q \in Process : Probe(p, q)} :
          IF RankKnown(k, q)
          THEN /\ TakeFlit(p, q, Data(k, PartLength(k, GroupRank(k, p)) - h.rlens[Rank(q)] + 1))
               /\ Continue(p, Loop([h EXCEPT !.rlens[Rank(q)] = Left(@, 1)]))
          ELSE Continue(p, <<[do |-> "hang"]>>) /\ UNCHANGED <<chan, aborted, mixed>>
     /\ UNCHANGED <<program, calls>>

Step(p) ==
  /\ ~aborted
  /\ \/ Call(p) \/ SendStep(p) \/ RecvStep(p) \/ WaitForAck(p)
     \/ GatherStart(p) \/ GatherRecv(p) \/ ExchangeSend(p) \/ ExchangeRecv(p)
     \/ AlltoallSend(p) \/ AlltoallRecv(p)

Next == \E p \in Process : Step(p)

Spec == Init /\ [][Next]_vars

-----------------------------------------------------------------------------
\* The asserts on acknowledgements and headers hold.
AssertsHold == ~aborted

\* Every flit is received in the call for which it was sent, and for its place of the
\* message, although no flit says which call it belongs to and the processes
\* are in different ones.
NothingMixed == ~mixed

\* When the last call has returned everywhere, no flit is left that the next
\* one would take for its own.
Returned(p) == calls[p] = Len(program) /\ script[p] = <<>>
NothingLeft ==
  (\A p \in Process : Returned(p)) => \A p, q \in Process : chan[p][q] = <<>>
=============================================================================
