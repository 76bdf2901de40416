------------------------ MODULE SendrecvReplaceProofs ------------------------
(***************************************************************************)
(* MPI_Sendrecv_replace sends what the buffer held when it was called, and *)
(* its asserts hold, for every permutation of any number of processes,     *)
(* every length of the message and every size of the ring buffer and of    *)
(* the network.                                                            *)
(*                                                                         *)
(* The invariant says what each channel holds.  On the way from a process  *)
(* to the one that it sends to, the header comes first, until it is        *)
(* received, and then the data of the places before sptr.  On the way back *)
(* there is at most an acknowledgement.  The places of the buffer from     *)
(* sptr on are untouched, because rptr never overtakes sptr.               *)
(***************************************************************************)
EXTENDS SendrecvReplace, SequenceTheorems, WellFoundedInduction, TLAPS

Flit == {"head", "ack", "data"} \X Nat \X Nat
Location == {"sendHead", "recvHead", "sendAck", "recvAck", "send", "recv", "done"}

TypeOK ==
  /\ room \in Rooms
  /\ dest \in Bijection(Process, Process)
  /\ pc \in [Process -> Location]
  /\ sptr \in [Process -> 0 .. Length] /\ rptr \in [Process -> Nat] /\ rest \in [Process -> Nat]
  /\ ringbuf \in [Process -> Seq(Flit)]
  /\ buf \in [Process -> [0 .. Length - 1 -> Flit]]
  /\ chan \in [Process -> [Process -> Seq(Flit)]]
  /\ aborted \in BOOLEAN

\* rptr does not overtake sptr, nor leave the buffer; what has not been sent yet
\* is as it was.
Buffer(p) ==
  /\ rptr[p] <= sptr[p]
  /\ rptr[p] + Len(ringbuf[p]) + rest[p] <= Length
  /\ \A i \in sptr[p] .. Length - 1 : buf[p][i] = Data(p, i)

\* Before a process has received the header of the other one, has sent its
\* acknowledgement, and has received that of the other one.
BeforeHead == {"sendHead", "recvHead"}
BeforeAck == BeforeHead \cup {"sendAck"}
BeforeData == BeforeAck \cup {"recvAck"}

\* The header of p is sent and not received yet; and its acknowledgement.
HeadOnWay(p) == pc[p] # "sendHead" /\ pc[Dest(p)] \in BeforeHead
AckOnWay(p) == pc[p] \notin BeforeAck /\ pc[Source(p)] \in BeforeData

\* The flits of p from place k on are the data of the places before sptr.
DataFrom(p, k) ==
  LET c == chan[p][Dest(p)]
  IN \A i \in k .. Len(c) : c[i] = Data(p, sptr[p] - Len(c) + i - 1)

Forward(p) ==
  LET c == chan[p][Dest(p)]
  IN /\ pc[p] = "sendHead" => c = <<>> /\ pc[Dest(p)] \in BeforeHead
     /\ HeadOnWay(p) => c # <<>> /\ c[1] = HeadFlit /\ DataFrom(p, 2)
     /\ ~HeadOnWay(p) => DataFrom(p, 1)

Back(p) ==
  Dest(p) # Source(p) => /\ AckOnWay(p) => chan[p][Source(p)] = <<Ack>>
                         /\ ~AckOnWay(p) => chan[p][Source(p)] = <<>>
                         /\ pc[p] \in BeforeAck => pc[Source(p)] \in BeforeData

Control(p) ==
  pc[p] \in {"sendAck", "recvAck"} => Dest(p) # Source(p)

Inv ==
  /\ TypeOK
  /\ ~aborted
  /\ \A p \in Process : Buffer(p) /\ Forward(p) /\ Back(p) /\ Control(p)

-----------------------------------------------------------------------------
\* Source and Dest are the two directions of the permutation.
LEMMA Partners ==
  ASSUME dest \in Bijection(Process, Process), NEW p \in Process
  PROVE  /\ Dest(p) \in Process /\ Source(p) \in Process
         /\ Dest(Source(p)) = p /\ Source(Dest(p)) = p
         /\ \A q \in Process : Dest(q) = p => q = Source(p)
  <1>1. /\ dest \in [Process -> Process]
        /\ \A a, b \in Process : dest[a] = dest[b] => a = b
        /\ \A t \in Process : \E s \in Process : dest[s] = t
    BY DEF Bijection, Injection, Surjection, IsInjective
  <1>2. Source(p) \in Process /\ dest[Source(p)] = p
    BY <1>1 DEF Source
  <1>3. dest[p] \in Process
    BY <1>1
  <1>4. Source(dest[p]) \in Process /\ dest[Source(dest[p])] = dest[p]
    BY <1>1, <1>3 DEF Source
  <1> QED
    BY <1>1, <1>2, <1>3, <1>4 DEF Dest

\* In TLA+ the rest of a queue is its places 2 and up.
LEMMA TailPlaces ==
  ASSUME NEW S, NEW c \in Seq(S), c # <<>>
  PROVE  /\ Tail(c) \in Seq(S) /\ c[1] \in S
         /\ Len(c) \in Nat /\ Len(c) >= 1 /\ Len(Tail(c)) = Len(c) - 1
         /\ \A i \in 1 .. Len(c) - 1 : Tail(c)[i] = c[i + 1]
  <1>1. Len(c) \in Nat \ {0}
    BY EmptySeq, LenProperties
  <1>2. 1 \in 1 .. Len(c)
    BY <1>1
  <1>3. c[1] \in S
    BY <1>2, ElementOfSeq
  <1> QED
    BY <1>1, <1>3, HeadTailProperties

\* What sending and receiving a flit does to the channels.
LEMMA SendChanges ==
  ASSUME TypeOK, NEW p \in Process, NEW q \in Process, NEW f \in Flit, SendFlit(p, q, f)
  PROVE  /\ chan' \in [Process -> [Process -> Seq(Flit)]]
         /\ \A a, b \in Process : a # p \/ b # q => chan'[a][b] = chan[a][b]
         /\ chan'[p][q] = Append(chan[p][q], f)
  <1>1. chan[p][q] \in Seq(Flit) /\ Append(chan[p][q], f) \in Seq(Flit)
    BY AppendProperties DEF TypeOK
  <1>2. chan' = [chan EXCEPT ![p][q] = Append(chan[p][q], f)]
    BY DEF SendFlit
  <1> QED
    BY <1>1, <1>2 DEF TypeOK

LEMMA RecvChanges ==
  ASSUME TypeOK, NEW p \in Process, NEW q \in Process, RecvFlit(p, q)
  PROVE  /\ chan' \in [Process -> [Process -> Seq(Flit)]]
         /\ \A a, b \in Process : a # q \/ b # p => chan'[a][b] = chan[a][b]
         /\ chan[q][p] \in Seq(Flit) /\ chan[q][p] # <<>>
         /\ chan'[q][p] = Tail(chan[q][p]) /\ chan[q][p][1] \in Flit
  <1>1. chan[q][p] \in Seq(Flit) /\ chan[q][p] # <<>>
    BY DEF TypeOK, RecvFlit
  <1>2. Tail(chan[q][p]) \in Seq(Flit) /\ chan[q][p][1] \in Flit
    BY <1>1, TailPlaces
  <1>3. chan' = [chan EXCEPT ![q][p] = Tail(chan[q][p])]
    BY DEF RecvFlit
  <1> QED
    BY <1>1, <1>2, <1>3 DEF TypeOK

\* What storing a flit does to the buffers.
LEMMA StoreChanges ==
  ASSUME TypeOK, NEW p \in Process, NEW i \in 0 .. Length - 1, NEW f \in Flit,
         buf' = [buf EXCEPT ![p][i] = f]
  PROVE  /\ buf' \in [Process -> [0 .. Length - 1 -> Flit]]
         /\ \A x \in Process \ {p} : buf'[x] = buf[x]
         /\ \A j \in 0 .. Length - 1 : j # i => buf'[p][j] = buf[p][j]
  <1>1. buf \in [Process -> [0 .. Length - 1 -> Flit]]
    BY DEF TypeOK
  <1>2. buf'[p] = [buf[p] EXCEPT ![i] = f]
    BY <1>1
  <1>3. buf'[p] \in [0 .. Length - 1 -> Flit]
    BY <1>1, <1>2
  <1>4. buf' = [buf EXCEPT ![p] = buf'[p]]
    BY <1>1, <1>2
  <1> QED
    BY <1>1, <1>2, <1>3, <1>4

\* A channel nobody uses stays as it is.
LEMMA KeepsForward ==
  ASSUME NEW x \in Process, Forward(x), dest' = dest,
         chan'[x][Dest(x)] = chan[x][Dest(x)], sptr'[x] = sptr[x],
         HeadOnWay(x)' <=> HeadOnWay(x),
         pc'[x] = "sendHead" => pc[x] = "sendHead" /\ pc'[Dest(x)] \in BeforeHead
  PROVE  Forward(x)'
  BY DEF Forward, DataFrom, Dest

LEMMA KeepsBack ==
  ASSUME NEW x \in Process, Back(x), dest' = dest,
         Dest(x) # Source(x) =>
           /\ chan'[x][Source(x)] = chan[x][Source(x)]
           /\ AckOnWay(x)' <=> AckOnWay(x)
           /\ pc'[x] \in BeforeAck => pc'[Source(x)] \in BeforeData
  PROVE  Back(x)'
  <1>1. Source(x)' = Source(x) /\ Dest(x)' = Dest(x)
    BY DEF Source, Dest
  <1> QED
    BY <1>1 DEF Back, Ack, BeforeAck, BeforeData, BeforeHead

\* The receiver takes the oldest flit: the header, or else data.
LEMMA ForwardReceived ==
  ASSUME NEW x \in Process, Forward(x), dest' = dest,
         chan[x][Dest(x)] \in Seq(Flit), chan[x][Dest(x)] # <<>>,
         chan'[x][Dest(x)] = Tail(chan[x][Dest(x)]), sptr[x] \in Nat, sptr'[x] = sptr[x],
         ~HeadOnWay(x)', pc'[x] = "sendHead" => pc[x] = "sendHead"
  PROVE  Forward(x)'
  <1> DEFINE c == chan[x][Dest(x)]
             d == Tail(c)
  <1>1. /\ Len(c) \in Nat /\ Len(c) >= 1 /\ Len(d) = Len(c) - 1
        /\ \A i \in 1 .. Len(c) - 1 : d[i] = c[i + 1]
    BY TailPlaces
  <1>2. \A i \in 2 .. Len(c) : c[i] = Data(x, sptr[x] - Len(c) + i - 1)
    BY <1>1 DEF Forward, DataFrom
  <1> HIDE DEF d
  <1>3. \A i \in 1 .. Len(d) : d[i] = Data(x, sptr[x] - Len(d) + i - 1)
    <2>1. TAKE i \in 1 .. Len(d)
    <2>2. i + 1 \in 2 .. Len(c) /\ i \in 1 .. Len(c) - 1
      BY <1>1
    <2>3. sptr[x] - Len(c) + (i + 1) - 1 = sptr[x] - Len(d) + i - 1
      BY <1>1, <2>2
    <2> QED
      BY <1>1, <1>2, <2>2, <2>3
  <1>4. pc'[x] # "sendHead"
    BY DEF Forward
  <1>5. chan'[x][Dest(x)'] = d /\ sptr'[x] = sptr[x]
    BY DEF Dest, d
  <1> QED
    BY <1>3, <1>4, <1>5 DEF Forward, DataFrom

\* The sender appends the data of the place sptr.
LEMMA ForwardSent ==
  ASSUME NEW x \in Process, Forward(x), dest' = dest, chan[x][Dest(x)] \in Seq(Flit),
         chan'[x][Dest(x)] = Append(chan[x][Dest(x)], Data(x, sptr[x])),
         Data(x, sptr[x]) \in Flit, sptr[x] \in Nat, sptr'[x] = sptr[x] + 1,
         HeadOnWay(x)' <=> HeadOnWay(x), pc'[x] # "sendHead"
  PROVE  Forward(x)'
  <1> DEFINE c == chan[x][Dest(x)]
             d == Append(c, Data(x, sptr[x]))
  <1>1. /\ Len(c) \in Nat /\ Len(d) = Len(c) + 1 /\ d # <<>>
        /\ \A i \in 1 .. Len(c) : d[i] = c[i]
        /\ d[Len(c) + 1] = Data(x, sptr[x])
    BY SMTT(40), AppendProperties, LenProperties
  <1> HIDE DEF d
  <1>2. ASSUME NEW k \in {1, 2}, DataFrom(x, k)
        PROVE  \A i \in k .. Len(d) : d[i] = Data(x, sptr'[x] - Len(d) + i - 1)
    <2>1. TAKE i \in k .. Len(d)
    <2>2. CASE i <= Len(c)
      <3>1. i \in k .. Len(c) /\ i \in 1 .. Len(c)
        BY <1>1, <2>2
      <3>2. c[i] = Data(x, sptr[x] - Len(c) + i - 1)
        BY <1>2, <3>1 DEF DataFrom
      <3>3. sptr[x] - Len(c) + i - 1 = sptr'[x] - Len(d) + i - 1
        BY SMTT(40), <1>1, <3>1
      <3> QED
        BY <1>1, <3>1, <3>2, <3>3
    <2>3. CASE i > Len(c)
      <3>1. i = Len(c) + 1
        BY <1>1, <2>3
      <3>2. sptr'[x] - Len(d) + i - 1 = sptr[x]
        BY SMTT(40), <1>1, <3>1
      <3> QED
        BY <1>1, <3>1, <3>2
    <2> QED
      BY <1>1, <2>2, <2>3
  <1>3. chan'[x][Dest(x)'] = d
    BY DEF Dest, d
  <1>4. ASSUME NEW k \in {1, 2}, DataFrom(x, k)
        PROVE  DataFrom(x, k)'
    BY <1>2, <1>3, <1>4 DEF DataFrom
  <1>5. CASE HeadOnWay(x)
    <2>1. c # <<>> /\ c[1] = HeadFlit /\ DataFrom(x, 2)
      BY <1>5 DEF Forward
    <2>2. d # <<>> /\ d[1] = HeadFlit
      <3>1. Len(c) # 0
        BY <1>1, <2>1, EmptySeq
      <3> QED
        BY <1>1, <2>1, <3>1
    <2> QED
      BY <1>3, <1>4, <1>5, <2>1, <2>2 DEF Forward
  <1>6. CASE ~HeadOnWay(x)
    BY <1>4, <1>6 DEF Forward
  <1> QED
    BY <1>5, <1>6

-----------------------------------------------------------------------------
LEMMA Initially ==
  ASSUME ReplaceAssumption, Init
  PROVE  Inv
  <1>1. /\ Length \in Nat \ {0} /\ Process \subseteq Nat
        /\ dest \in Bijection(Process, Process) /\ room \in Rooms
    BY DEF Init, ReplaceAssumption, Process
  <1>2. /\ pc = [p \in Process |-> "sendHead"]
        /\ sptr = [p \in Process |-> 0] /\ rptr = [p \in Process |-> 0]
        /\ rest = [p \in Process |-> Length] /\ ringbuf = [p \in Process |-> <<>>]
        /\ buf = [p \in Process |-> [i \in 0 .. Length - 1 |-> Data(p, i)]]
        /\ chan = [p \in Process |-> [q \in Process |-> <<>>]] /\ aborted = FALSE
    BY DEF Init
  <1>3. \A p \in Process : \A i \in 0 .. Length - 1 : Data(p, i) \in Flit
    BY <1>1 DEF Data, Flit
  <1>4. TypeOK
    <2>1. /\ sptr \in [Process -> 0 .. Length] /\ rptr \in [Process -> Nat]
          /\ rest \in [Process -> Nat] /\ pc \in [Process -> Location]
      BY <1>1, <1>2 DEF Location
    <2>2. buf \in [Process -> [0 .. Length - 1 -> Flit]]
      BY <1>2, <1>3
    <2>3. /\ ringbuf \in [Process -> Seq(Flit)]
          /\ chan \in [Process -> [Process -> Seq(Flit)]]
      BY <1>2, EmptySeq
    <2> QED
      BY <1>1, <1>2, <2>1, <2>2, <2>3 DEF TypeOK
  <1>5. ASSUME NEW p \in Process
        PROVE  Buffer(p) /\ Forward(p) /\ Back(p) /\ Control(p)
    <2>1. Dest(p) \in Process /\ Source(p) \in Process
      BY <1>1, Partners
    <2>2. Buffer(p)
      BY <1>1, <1>2, EmptySeq DEF Buffer
    <2>3. Forward(p)
      BY <1>2, <2>1 DEF Forward, HeadOnWay, DataFrom, BeforeHead
    <2>4. Back(p) /\ Control(p)
      BY <1>2, <2>1 DEF Back, AckOnWay, Control, BeforeAck, BeforeData, BeforeHead
    <2> QED
      BY <2>2, <2>3, <2>4
  <1> QED
    BY <1>2, <1>4, <1>5 DEF Inv

\* The members of Inv about one process.
LEMMA Parts ==
  ASSUME ReplaceAssumption, Inv, NEW p \in Process
  PROVE  /\ TypeOK /\ Buffer(p) /\ Forward(p) /\ Back(p) /\ Control(p)
         /\ Dest(p) \in Process /\ Source(p) \in Process
         /\ Dest(Source(p)) = p /\ Source(Dest(p)) = p
         /\ sptr[p] \in Nat /\ sptr[p] <= Length
         /\ \A q \in Process : chan[p][q] \in Seq(Flit)
         /\ Dest(p) = Source(p) => Dest(Dest(p)) = Source(Dest(p))
  <1>1. TypeOK /\ Buffer(p) /\ Forward(p) /\ Back(p) /\ Control(p)
    BY DEF Inv
  <1>2. /\ Dest(p) \in Process /\ Source(p) \in Process
        /\ Dest(Source(p)) = p /\ Source(Dest(p)) = p
    BY <1>1, Partners DEF TypeOK
  <1>3. /\ sptr[p] \in Nat /\ sptr[p] <= Length
        /\ \A q \in Process : chan[p][q] \in Seq(Flit)
    BY <1>1 DEF TypeOK, ReplaceAssumption
  <1> QED
    BY <1>1, <1>2, <1>3

\* A step of p that changes neither the pointers nor the buffers.
LEMMA KeepsBuffers ==
  ASSUME Inv, dest' = dest, sptr' = sptr, rptr' = rptr, rest' = rest,
         ringbuf' = ringbuf, buf' = buf, NEW p \in Process
  PROVE  Buffer(p)'
  BY DEF Inv, Buffer

\* A step of p to the statement l leaves alone what the channels hold that it
\* does not use, in the direction of the data and in the other one.
LEMMA ForwardMoves ==
  ASSUME ReplaceAssumption, Inv, NEW p \in Process, NEW l \in Location, Goto(p, l), dest' = dest,
         l # "sendHead", NEW x \in Process,
         Dest(x) = p => (l \in BeforeHead <=> pc[p] \in BeforeHead),
         x = p => pc[p] # "sendHead",
         chan'[x][Dest(x)] = chan[x][Dest(x)], sptr'[x] = sptr[x]
  PROVE  Forward(x)'
  <1>1. \A y \in Process : pc'[y] = IF y = p THEN l ELSE pc[y]
    BY DEF Goto, Inv, TypeOK
  <1>2. Dest(x) \in Process /\ Forward(x) /\ Dest(x)' = Dest(x)
    BY Parts DEF Dest
  <1>3. HeadOnWay(x)' <=> HeadOnWay(x)
    BY <1>1, <1>2 DEF HeadOnWay, BeforeHead
  <1>4. pc'[x] = "sendHead" => pc[x] = "sendHead" /\ pc'[Dest(x)] \in BeforeHead
    BY <1>1, <1>2 DEF Forward
  <1> QED
    BY <1>2, <1>3, <1>4, KeepsForward

LEMMA BackMoves ==
  ASSUME ReplaceAssumption, Inv, NEW p \in Process, NEW l \in Location, Goto(p, l), dest' = dest,
         Dest(p) # Source(p) => /\ l \in BeforeAck <=> pc[p] \in BeforeAck
                                /\ l \in BeforeData <=> pc[p] \in BeforeData,
         NEW x \in Process, Dest(x) # Source(x) => chan'[x][Source(x)] = chan[x][Source(x)]
  PROVE  Back(x)'
  <1>1. \A y \in Process : pc'[y] = IF y = p THEN l ELSE pc[y]
    BY DEF Goto, Inv, TypeOK
  <1>2. /\ Source(x) \in Process /\ Back(x) /\ Source(x)' = Source(x)
        /\ Dest(Source(x)) = x
        /\ Dest(Source(x)) = Source(Source(x)) => Dest(x) = Source(x)
    <2>1. Source(x) \in Process /\ Back(x) /\ Dest(Source(x)) = x /\ Source(x)' = Source(x)
      BY Parts DEF Source
    <2> QED
      BY <2>1, Parts
  <1>3. ASSUME Dest(x) # Source(x)
        PROVE  \A y \in {x, Source(x)} :
                 /\ pc'[y] \in BeforeAck <=> pc[y] \in BeforeAck
                 /\ pc'[y] \in BeforeData <=> pc[y] \in BeforeData
    <2>1. TAKE y \in {x, Source(x)}
    <2>2. Dest(y) # Source(y) /\ y \in Process
      BY <1>2, <1>3
    <2> QED
      BY <1>1, <2>2
  <1>4. Dest(x) # Source(x) =>
          /\ AckOnWay(x)' <=> AckOnWay(x)
          /\ pc'[x] \in BeforeAck => pc'[Source(x)] \in BeforeData
    <2>1. SUFFICES ASSUME Dest(x) # Source(x)
                   PROVE  /\ AckOnWay(x)' <=> AckOnWay(x)
                          /\ pc'[x] \in BeforeAck => pc'[Source(x)] \in BeforeData
      OBVIOUS
    <2>2. AckOnWay(x)' <=> AckOnWay(x)
      BY <1>2, <1>3, <2>1 DEF AckOnWay
    <2>3. pc'[x] \in BeforeAck => pc'[Source(x)] \in BeforeData
      BY <1>2, <1>3, <2>1 DEF Back
    <2> QED
      BY <2>2, <2>3
  <1> QED
    BY <1>2, <1>4, KeepsBack

\* Control holds after a step of p to any other statement.
LEMMA ControlMoves ==
  ASSUME ReplaceAssumption, Inv, NEW p \in Process, NEW l \in Location, Goto(p, l), dest' = dest,
         l \in {"sendAck", "recvAck"} => Dest(p) # Source(p), NEW x \in Process
  PROVE  Control(x)'
  <1>1. \A y \in Process : pc'[y] = IF y = p THEN l ELSE pc[y]
    BY DEF Goto, Inv, TypeOK
  <1>2. Control(x) /\ Dest(x)' = Dest(x) /\ Source(x)' = Source(x)
    BY ZenonT(60), Parts DEF Dest, Source
  <1> QED
    BY <1>1, <1>2 DEF Control

LEMMA SendHeadKeeps ==
  ASSUME ReplaceAssumption, Inv, NEW p \in Process, SendHead(p)
  PROVE  Inv'
  <1> DEFINE d == Dest(p)
  <1>1. /\ pc[p] = "sendHead" /\ pc' = [pc EXCEPT ![p] = "recvHead"]
        /\ room' = room /\ dest' = dest /\ sptr' = sptr /\ rptr' = rptr /\ rest' = rest
        /\ ringbuf' = ringbuf /\ buf' = buf /\ aborted' = aborted
    BY DEF SendHead, Goto
  <1>2. d \in Process /\ HeadFlit \in Flit /\ SendFlit(p, d, HeadFlit)
    BY Parts DEF SendHead, HeadFlit, Flit
  <1>3. /\ chan' \in [Process -> [Process -> Seq(Flit)]]
        /\ \A a, b \in Process : a # p \/ b # d => chan'[a][b] = chan[a][b]
        /\ chan'[p][d] = Append(chan[p][d], HeadFlit)
    BY <1>2, SendChanges DEF Inv
  <1>4. TypeOK'
    BY <1>1, <1>3 DEF Inv, TypeOK, Location
  <1>5. \A x \in Process : pc'[x] = IF x = p THEN "recvHead" ELSE pc[x]
    BY <1>1 DEF Inv, TypeOK
  <1>6. Goto(p, "recvHead") /\ "recvHead" \in Location
    BY <1>1 DEF Goto, Location
  <1>7. ASSUME NEW x \in Process
        PROVE  Forward(x)'
    <2>1. CASE x = p
      <3>1. chan[p][d] = <<>> /\ Append(<<>>, HeadFlit) = <<HeadFlit>>
        BY <1>1, Parts DEF Forward
      <3>2. chan'[p][d] = <<HeadFlit>>
        BY <1>3, <3>1
      <3>3. pc'[p] = "recvHead" /\ Dest(p)' = d
        BY <1>1, <1>5 DEF Dest
      <3>4. HeadOnWay(p)'
        BY <1>1, <1>5, <3>3, Parts DEF HeadOnWay, Forward, BeforeHead
      <3>5. HeadFlit' = HeadFlit /\ <<HeadFlit>> # <<>> /\ <<HeadFlit>>[1] = HeadFlit
            /\ Len(<<HeadFlit>>) = 1
        BY DEF HeadFlit
      <3>6. Len(chan'[p][Dest(p)']) = 1 /\ chan'[p][Dest(p)'][1] = HeadFlit
            /\ chan'[p][Dest(p)'] # <<>>
        BY <3>2, <3>3, <3>5
      <3>7. DataFrom(p, 2)'
        BY <3>6 DEF DataFrom
      <3> QED
        BY <2>1, <3>3, <3>4, <3>5, <3>6, <3>7 DEF Forward
    <2>2. CASE x # p
      <3>1. chan'[x][Dest(x)] = chan[x][Dest(x)]
        BY <1>3, <2>2, Parts
      <3> QED
        BY <1>1, <1>6, <2>2, <3>1, ForwardMoves DEF BeforeHead
    <2> QED
      BY <2>1, <2>2
  <1>8. ASSUME NEW x \in Process
        PROVE  Back(x)'
    <2>1. Dest(x) # Source(x) => chan'[x][Source(x)] = chan[x][Source(x)]
      BY <1>3, Parts
    <2> QED
      BY <1>1, <1>6, <2>1, BackMoves DEF BeforeAck, BeforeData, BeforeHead
  <1>9. \A x \in Process : Control(x)'
    BY <1>1, <1>6, ControlMoves
  <1> QED
    BY <1>1, <1>4, <1>7, <1>8, <1>9, KeepsBuffers DEF Inv

\* The oldest flit on the way to a process that waits for the header is the header.
LEMMA RecvHeadKeeps ==
  ASSUME ReplaceAssumption, Inv, NEW p \in Process, RecvHead(p)
  PROVE  Inv'
  <1> PICK s \in Process : s = Source(p)
    BY Parts
  <1> DEFINE l == AfterHead(p)
  <1>1. /\ pc[p] = "recvHead" /\ Goto(p, l)
        /\ room' = room /\ dest' = dest /\ sptr' = sptr /\ rptr' = rptr /\ rest' = rest
        /\ ringbuf' = ringbuf /\ buf' = buf /\ aborted' = (chan[s][p][1] # HeadFlit)
        /\ RecvFlit(p, s)
    BY DEF RecvHead
  <1>2. /\ s \in Process /\ Dest(s) = p /\ TypeOK
        /\ Dest(p) = p => s = p
    BY Parts
  <1>3. /\ chan' \in [Process -> [Process -> Seq(Flit)]]
        /\ \A a, b \in Process : a # s \/ b # p => chan'[a][b] = chan[a][b]
        /\ chan[s][p] \in Seq(Flit) /\ chan[s][p] # <<>>
        /\ chan'[s][p] = Tail(chan[s][p])
    BY <1>1, <1>2, RecvChanges
  <1>4. /\ l \in {"sendAck", "send", "done"}
        /\ l = "sendAck" <=> Dest(p) # s
    BY <1>2 DEF AfterHead
  <1>5. l \in Location
    BY <1>4 DEF Location
  <1> HIDE DEF l
  <1>6. ~aborted'
    <2>1. Forward(s)
      BY <1>2, Parts
    <2>2. HeadOnWay(s)
      BY <1>1, <1>2, <1>3, <2>1 DEF Forward, HeadOnWay, BeforeHead
    <2> QED
      BY <1>1, <1>2, <2>1, <2>2 DEF Forward
  <1>7. TypeOK'
    BY <1>1, <1>3, <1>5 DEF TypeOK, Inv, Goto
  <1>8. \A x \in Process : pc'[x] = IF x = p THEN l ELSE pc[x]
    BY <1>1, <1>2 DEF Goto, TypeOK
  <1>9. ASSUME NEW x \in Process
        PROVE  Forward(x)'
    <2>1. CASE x = s
      <3>1. ~HeadOnWay(s)'
        BY <1>1, <1>2, <1>4, <1>8 DEF HeadOnWay, BeforeHead, Dest
      <3>2. pc'[s] = "sendHead" => pc[s] = "sendHead"
        BY <1>2, <1>4, <1>8
      <3>3. Forward(s) /\ sptr[s] \in Nat
        BY <1>2, Parts
      <3> QED
        BY <1>1, <1>2, <1>3, <2>1, <3>1, <3>2, <3>3, ForwardReceived
    <2>2. CASE x # s
      <3>1. Dest(x) \in Process /\ Dest(x) # p
        BY <2>2, Parts
      <3>2. chan'[x][Dest(x)] = chan[x][Dest(x)]
        BY <1>2, <1>3, <2>2, <3>1
      <3> QED
        BY <1>1, <1>4, <1>5, <3>1, <3>2, ForwardMoves
    <2> QED
      BY <2>1, <2>2
  <1>10. ASSUME NEW x \in Process
         PROVE  Back(x)'
    <2>1. Dest(x) # Source(x) => chan'[x][Source(x)] = chan[x][Source(x)]
      BY <1>2, <1>3, Parts
    <2> QED
      BY <1>1, <1>4, <1>5, <2>1, BackMoves DEF BeforeAck, BeforeData, BeforeHead
  <1>11. \A x \in Process : Control(x)'
    BY <1>1, <1>4, <1>5, ControlMoves
  <1> QED
    BY <1>1, <1>6, <1>7, <1>9, <1>10, <1>11, KeepsBuffers DEF Inv

\* The acknowledgements use a channel of their own: the processes that a process
\* sends to and receives from differ.
LEMMA SendAckKeeps ==
  ASSUME ReplaceAssumption, Inv, NEW p \in Process, SendAck(p)
  PROVE  Inv'
  <1> DEFINE s == Source(p)
  <1>1. /\ pc[p] = "sendAck" /\ Goto(p, "recvAck") /\ "recvAck" \in Location
        /\ room' = room /\ dest' = dest /\ sptr' = sptr /\ rptr' = rptr /\ rest' = rest
        /\ ringbuf' = ringbuf /\ buf' = buf /\ aborted' = aborted
        /\ SendFlit(p, s, Ack) /\ Ack \in Flit
    BY DEF SendAck, Ack, Flit, Location
  <1>2. /\ s \in Process /\ Dest(s) = p /\ TypeOK /\ Back(p) /\ Control(p)
        /\ Dest(p) # s /\ Source(p)' = s /\ Dest(p)' = Dest(p)
    <2>1. s \in Process /\ Dest(s) = p /\ TypeOK /\ Back(p) /\ Control(p)
      BY Parts
    <2> QED
      BY <1>1, <2>1 DEF Control, Source, Dest
  <1>3. /\ chan' \in [Process -> [Process -> Seq(Flit)]]
        /\ \A a, b \in Process : a # p \/ b # s => chan'[a][b] = chan[a][b]
        /\ chan'[p][s] = Append(chan[p][s], Ack)
    BY <1>1, <1>2, SendChanges
  <1>4. \A x \in Process : pc'[x] = IF x = p THEN "recvAck" ELSE pc[x]
    BY <1>1, <1>2 DEF Goto, TypeOK
  <1>5. TypeOK'
    BY <1>1, <1>3, <1>4 DEF TypeOK, Inv, Goto
  <1>6. ASSUME NEW x \in Process
        PROVE  Forward(x)'
    <2>1. Dest(x) \in Process /\ (x = p => Dest(x) # s)
      BY <1>2, Parts
    <2>2. chan'[x][Dest(x)] = chan[x][Dest(x)]
      BY <1>2, <1>3, <2>1
    <2> QED
      BY <1>1, <2>2, ForwardMoves DEF BeforeHead
  <1>7. ASSUME NEW x \in Process
        PROVE  Back(x)'
    <2>1. Source(x) \in Process /\ Dest(Source(x)) = x /\ Source(x)' = Source(x) /\ Back(x)
      BY <1>1, Parts DEF Source
    <2>2. CASE x = p
      <3>1. chan[p][s] = <<>> /\ pc[s] \in BeforeData
        BY <1>1, <1>2 DEF Back, AckOnWay, BeforeAck
      <3>2. chan'[p][s] = <<Ack>>
        BY <1>3, <3>1
      <3>3. pc'[s] \in BeforeData /\ pc'[p] \notin BeforeAck
        BY <1>2, <1>4, <3>1 DEF BeforeData, BeforeAck, BeforeHead
      <3>4. AckOnWay(p)'
        BY <1>2, <3>3 DEF AckOnWay, BeforeAck, BeforeData, BeforeHead
      <3> QED
        BY <1>2, <2>2, <3>2, <3>3, <3>4 DEF Back, Ack, BeforeAck, BeforeData, BeforeHead
    <2>3. CASE x # p
      <3>1. pc'[Source(x)] \in BeforeData <=> pc[Source(x)] \in BeforeData
        BY <1>1, <1>4, <2>1 DEF BeforeData, BeforeAck, BeforeHead
      <3>2. pc'[x] = pc[x]
        BY <1>4, <2>3
      <3>3. Dest(x) # Source(x) =>
              /\ chan'[x][Source(x)] = chan[x][Source(x)]
              /\ AckOnWay(x)' <=> AckOnWay(x)
              /\ pc'[x] \in BeforeAck => pc'[Source(x)] \in BeforeData
        BY <1>3, <2>1, <2>3, <3>1, <3>2 DEF Back, AckOnWay
      <3> QED
        BY <1>1, <2>1, <3>3, KeepsBack
    <2> QED
      BY <2>2, <2>3
  <1>8. \A x \in Process : Control(x)'
    BY <1>1, <1>2, ControlMoves
  <1> QED
    BY <1>1, <1>5, <1>6, <1>7, <1>8, KeepsBuffers DEF Inv

\* What comes back from the process that p sends to is an acknowledgement.
LEMMA RecvAckKeeps ==
  ASSUME ReplaceAssumption, Inv, NEW p \in Process, RecvAck(p)
  PROVE  Inv'
  <1> PICK d \in Process : d = Dest(p)
    BY Parts
  <1>1. /\ pc[p] = "recvAck" /\ Goto(p, "send") /\ "send" \in Location
        /\ room' = room /\ dest' = dest /\ sptr' = sptr /\ rptr' = rptr /\ rest' = rest
        /\ ringbuf' = ringbuf /\ buf' = buf /\ aborted' = (chan[d][p][1] # Ack)
        /\ RecvFlit(p, d)
    BY DEF RecvAck, Location
  <1>2. /\ d \in Process /\ Source(d) = p /\ TypeOK /\ Back(d) /\ Control(p)
        /\ d # Source(p) /\ Dest(d) # p /\ Source(d)' = p /\ Dest(d)' = Dest(d)
    <2>1. /\ d \in Process /\ Source(d) = p /\ TypeOK /\ Control(p)
          /\ \A q \in Process : Dest(q) = p => q = Source(p)
      BY Parts, Partners
    <2>2. Back(d)
      BY <2>1, Parts
    <2>3. d # Source(p)
      BY <1>1, <2>1 DEF Control
    <2>4. Source(d)' = Source(d) /\ Dest(d)' = Dest(d)
      BY <1>1 DEF Source, Dest
    <2> QED
      BY <2>1, <2>2, <2>3, <2>4
  <1>3. /\ chan' \in [Process -> [Process -> Seq(Flit)]]
        /\ \A a, b \in Process : a # d \/ b # p => chan'[a][b] = chan[a][b]
        /\ chan[d][p] # <<>> /\ chan'[d][p] = Tail(chan[d][p])
    BY <1>1, <1>2, RecvChanges
  <1>4. chan[d][p] = <<Ack>> /\ AckOnWay(d)
    BY <1>2, <1>3 DEF Back
  <1>5. ~aborted' /\ chan'[d][p] = <<>>
    <2>1. Tail(<<Ack>>) = <<>> /\ <<Ack>>[1] = Ack
      BY DEF Ack
    <2> QED
      BY <1>1, <1>3, <1>4, <2>1
  <1>6. \A x \in Process : pc'[x] = IF x = p THEN "send" ELSE pc[x]
    BY <1>1, <1>2 DEF Goto, TypeOK
  <1>7. TypeOK'
    BY <1>1, <1>3, <1>6 DEF TypeOK, Inv, Goto
  <1>8. ASSUME NEW x \in Process
        PROVE  Forward(x)'
    <2>1. Dest(x) \in Process /\ (x = d => Dest(x) # p)
      BY <1>2, Parts
    <2>2. chan'[x][Dest(x)] = chan[x][Dest(x)]
      BY <1>2, <1>3, <2>1
    <2> QED
      BY <1>1, <2>2, ForwardMoves DEF BeforeHead
  <1>9. ASSUME NEW x \in Process
        PROVE  Back(x)'
    <2>1. Source(x) \in Process /\ Dest(Source(x)) = x /\ Source(x)' = Source(x) /\ Back(x)
      BY <1>1, Parts DEF Source
    <2>2. CASE x = d
      <3>1. pc'[p] \notin BeforeData
        BY <1>6 DEF BeforeData, BeforeAck, BeforeHead
      <3>2. ~AckOnWay(d)'
        BY <1>2, <3>1 DEF AckOnWay, BeforeAck, BeforeData, BeforeHead
      <3>3. pc'[d] \notin BeforeAck
        BY <1>1, <1>4, <1>6 DEF AckOnWay, BeforeAck, BeforeHead
      <3> QED
        BY <1>2, <1>5, <2>2, <3>2, <3>3 DEF Back, Ack, BeforeAck, BeforeData, BeforeHead
    <2>3. CASE x # d
      <3>1. Source(x) # p
        BY <2>1, <2>3
      <3>2. pc'[Source(x)] = pc[Source(x)] /\ (pc'[x] \in BeforeAck <=> pc[x] \in BeforeAck)
        BY <1>1, <1>6, <2>1, <3>1 DEF BeforeAck, BeforeHead
      <3>3. Dest(x) # Source(x) =>
              /\ chan'[x][Source(x)] = chan[x][Source(x)]
              /\ AckOnWay(x)' <=> AckOnWay(x)
              /\ pc'[x] \in BeforeAck => pc'[Source(x)] \in BeforeData
        BY <1>2, <1>3, <2>1, <2>3, <3>2 DEF Back, AckOnWay
      <3> QED
        BY <1>1, <2>1, <3>3, KeepsBack
    <2> QED
      BY <2>2, <2>3
  <1>10. \A x \in Process : Control(x)'
    BY <1>1, ControlMoves
  <1> QED
    BY <1>1, <1>5, <1>7, <1>8, <1>9, <1>10, KeepsBuffers DEF Inv

\* The loop, once the headers and acknowledgements have gone: a step that uses
\* no channel, and one that receives data.
InLoop == {"send", "recv", "done"}

LEMMA NothingMoves ==
  ASSUME ReplaceAssumption, Inv, NEW p \in Process, NEW l \in InLoop, Goto(p, l), dest' = dest,
         sptr' = sptr, chan' = chan, pc[p] \in InLoop, NEW x \in Process
  PROVE  Forward(x)' /\ Back(x)' /\ Control(x)'
  <1>1. l \in Location /\ l \notin BeforeData /\ pc[p] \notin BeforeData
    BY DEF InLoop, Location, BeforeData, BeforeAck, BeforeHead
  <1>2. /\ l \notin BeforeAck /\ l \notin BeforeHead /\ l # "sendHead"
        /\ pc[p] \notin BeforeAck /\ pc[p] \notin BeforeHead /\ pc[p] # "sendHead"
    BY <1>1 DEF BeforeData, BeforeAck, BeforeHead
  <1>3. Control(x)'
    BY <1>1, ControlMoves DEF InLoop
  <1> QED
    BY <1>1, <1>2, <1>3, ForwardMoves, BackMoves

LEMMA DataReceived ==
  ASSUME ReplaceAssumption, Inv, NEW p \in Process, NEW l \in InLoop, Goto(p, l), dest' = dest,
         sptr' = sptr, RecvFlit(p, Source(p)), pc[p] \in InLoop, NEW x \in Process
  PROVE  Forward(x)' /\ Back(x)' /\ Control(x)'
  <1> PICK s \in Process : s = Source(p)
    BY Parts
  <1>1. Dest(s) = p /\ TypeOK /\ Forward(s) /\ sptr[s] \in Nat
    BY Parts
  <1>2. /\ \A a, b \in Process : a # s \/ b # p => chan'[a][b] = chan[a][b]
        /\ chan[s][p] \in Seq(Flit) /\ chan[s][p] # <<>>
        /\ chan'[s][p] = Tail(chan[s][p])
    BY <1>1, RecvChanges
  <1>3. l \in Location /\ l \notin BeforeData /\ pc[p] \notin BeforeData
    BY DEF InLoop, Location, BeforeData, BeforeAck, BeforeHead
  <1>4. /\ l \notin BeforeAck /\ l \notin BeforeHead /\ l # "sendHead"
        /\ pc[p] \notin BeforeAck /\ pc[p] \notin BeforeHead /\ pc[p] # "sendHead"
    BY <1>3 DEF BeforeData, BeforeAck, BeforeHead
  <1>5. \A y \in Process : pc'[y] = IF y = p THEN l ELSE pc[y]
    BY <1>1 DEF Goto, TypeOK
  <1>6. Forward(x)'
    <2>1. CASE x = s
      <3>1. ~HeadOnWay(s)'
        BY <1>1, <1>4, <1>5 DEF HeadOnWay, BeforeHead, Dest
      <3>2. pc'[s] = "sendHead" => pc[s] = "sendHead"
        BY <1>4, <1>5
      <3> QED
        BY <1>1, <1>2, <2>1, <3>1, <3>2, ForwardReceived
    <2>2. CASE x # s
      <3>1. Dest(x) \in Process /\ Dest(x) # p
        BY <2>2, Parts
      <3>2. chan'[x][Dest(x)] = chan[x][Dest(x)]
        BY <1>2, <2>2, <3>1
      <3> QED
        BY <1>3, <1>4, <3>1, <3>2, ForwardMoves
    <2> QED
      BY <2>1, <2>2
  <1>7. Back(x)'
    <2>1. Dest(x) # Source(x) => chan'[x][Source(x)] = chan[x][Source(x)]
      BY <1>1, <1>2, Parts
    <2> QED
      BY <1>3, <1>4, <2>1, BackMoves
  <1>8. Control(x)'
    BY <1>3, ControlMoves DEF InLoop
  <1> QED
    BY <1>6, <1>7, <1>8

\* The flit that goes out is the original one of the place sptr, whatever the
\* ring buffer puts there afterwards.
LEMMA LoopSendKeeps ==
  ASSUME ReplaceAssumption, Inv, NEW p \in Process, LoopSend(p)
  PROVE  Inv'
  <1> PICK d \in Process : d = Dest(p)
    BY Parts
  <1>1. /\ pc[p] = "send" /\ sptr[p] < Length /\ Goto(p, "recv")
        /\ room' = room /\ dest' = dest /\ rptr' = rptr /\ rest' = rest /\ aborted' = aborted
        /\ "recv" \in InLoop /\ "send" \in InLoop /\ "recv" \in Location
    BY DEF LoopSend, InLoop, Location
  <1>2. /\ TypeOK /\ ~aborted' /\ Buffer(p) /\ Forward(p)
        /\ sptr[p] \in Nat /\ Length \in Nat /\ rptr[p] \in Nat /\ rest[p] \in Nat
        /\ p \in Nat /\ chan[p][d] \in Seq(Flit) /\ ringbuf[p] \in Seq(Flit)
    <2>1. TypeOK /\ Buffer(p) /\ Forward(p) /\ sptr[p] \in Nat /\ ~aborted'
      BY <1>1, Parts DEF Inv
    <2>2. Length \in Nat /\ p \in Nat
      BY DEF ReplaceAssumption, Process
    <2>3. /\ rptr[p] \in Nat /\ rest[p] \in Nat /\ ringbuf[p] \in Seq(Flit)
          /\ chan[p][d] \in Seq(Flit)
      BY <2>1 DEF TypeOK
    <2> QED
      BY <2>1, <2>2, <2>3
  <1>5. /\ sptr \in [Process -> 0 .. Length] /\ ringbuf \in [Process -> Seq(Flit)]
        /\ buf \in [Process -> [0 .. Length - 1 -> Flit]]
    BY <1>2 DEF TypeOK
  <1>3. CASE Cong(d)
    <2>1. sptr' = sptr /\ ringbuf' = ringbuf /\ buf' = buf /\ chan' = chan
      BY <1>3 DEF LoopSend
    <2>2. TypeOK'
      BY <1>1, <1>2, <2>1 DEF TypeOK, Goto
    <2>3. \A x \in Process : Forward(x)' /\ Back(x)' /\ Control(x)'
      BY <1>1, <2>1, NothingMoves
    <2> QED
      BY <1>1, <1>2, <2>1, <2>2, <2>3, KeepsBuffers DEF Inv
  <1>4. CASE ~Cong(d)
    <2>1. /\ SendFlit(p, d, buf[p][sptr[p]])
          /\ sptr' = [sptr EXCEPT ![p] = @ + 1]
          /\ ringbuf[p] = <<>> => ringbuf' = ringbuf /\ buf' = buf
          /\ ringbuf[p] # <<>> => /\ buf' = [buf EXCEPT ![p][sptr[p]] = ringbuf[p][1]]
                                  /\ ringbuf' = [ringbuf EXCEPT ![p] = Tail(@)]
      BY <1>4 DEF LoopSend
    <2>2. sptr[p] \in 0 .. Length - 1 /\ sptr[p] \in sptr[p] .. Length - 1
      BY <1>1, <1>2
    <2>3. buf[p][sptr[p]] = Data(p, sptr[p]) /\ Data(p, sptr[p]) \in Flit
      BY <1>2, <2>2 DEF Buffer, Data, Flit
    <2>4. /\ chan' \in [Process -> [Process -> Seq(Flit)]]
          /\ \A a, b \in Process : a # p \/ b # d => chan'[a][b] = chan[a][b]
          /\ chan'[p][d] = Append(chan[p][d], Data(p, sptr[p]))
      <3>1. SendFlit(p, d, Data(p, sptr[p]))
        BY <2>1, <2>3
      <3> QED
        BY ZenonT(60), <1>2, <2>3, <3>1, SendChanges
    <2>5. \A x \in Process : sptr'[x] = IF x = p THEN sptr[x] + 1 ELSE sptr[x]
      BY <1>2, <2>1 DEF TypeOK
    <2>6. \A x \in Process : pc'[x] = IF x = p THEN "recv" ELSE pc[x]
      BY <1>1, <1>2 DEF Goto, TypeOK
    <2>7. /\ ringbuf' \in [Process -> Seq(Flit)] /\ buf' \in [Process -> [0 .. Length - 1 -> Flit]]
          /\ \A x \in Process \ {p} : ringbuf'[x] = ringbuf[x] /\ buf'[x] = buf[x]
          /\ Len(ringbuf'[p]) \in Nat /\ Len(ringbuf[p]) \in Nat
          /\ Len(ringbuf'[p]) <= Len(ringbuf[p])
          /\ \A i \in 0 .. Length - 1 : i # sptr[p] => buf'[p][i] = buf[p][i]
      <3>1. Len(ringbuf[p]) \in Nat
        BY <1>2, LenProperties
      <3>2. CASE ringbuf[p] = <<>>
        <4>1. ringbuf' = ringbuf /\ buf' = buf
          BY <2>1, <3>2
        <4> QED
          BY <1>5, <3>1, <4>1
      <3>3. CASE ringbuf[p] # <<>>
        <4>1. /\ Tail(ringbuf[p]) \in Seq(Flit) /\ ringbuf[p][1] \in Flit
              /\ Len(ringbuf[p]) \in Nat /\ Len(ringbuf[p]) >= 1
              /\ Len(Tail(ringbuf[p])) = Len(ringbuf[p]) - 1
          BY <1>2, <3>3, TailPlaces
        <4>2. /\ ringbuf' \in [Process -> Seq(Flit)] /\ ringbuf'[p] = Tail(ringbuf[p])
              /\ \A x \in Process \ {p} : ringbuf'[x] = ringbuf[x]
          BY <1>5, <2>1, <3>3, <4>1
        <4>3. /\ buf' \in [Process -> [0 .. Length - 1 -> Flit]]
              /\ \A x \in Process \ {p} : buf'[x] = buf[x]
              /\ \A i \in 0 .. Length - 1 : i # sptr[p] => buf'[p][i] = buf[p][i]
          BY SMTT(40), <1>2, <2>1, <2>2, <3>3, <4>1, StoreChanges
        <4> QED
          BY <4>1, <4>2, <4>3
      <3> QED
        BY <3>2, <3>3
    <2>8. TypeOK'
      <3>1. sptr' \in [Process -> 0 .. Length]
        <4>1. sptr[p] + 1 \in 0 .. Length
          BY <1>1, <1>2
        <4> QED
          BY <1>5, <2>1, <4>1
      <3>2. pc' \in [Process -> Location]
        BY <1>1, <1>2 DEF TypeOK, Goto
      <3> QED
        BY <1>1, <1>2, <2>4, <2>7, <3>1, <3>2 DEF TypeOK
    <2>9. ASSUME NEW x \in Process
          PROVE  Buffer(x)'
      <3>1. CASE x = p
        <4>1. \A i \in sptr'[p] .. Length - 1 : i \in sptr[p] .. Length - 1 /\ i # sptr[p] /\ i \in 0 .. Length - 1
          BY <1>2, <2>5
        <4>2. \A i \in sptr'[p] .. Length - 1 : buf'[p][i] = Data(p, i)
          BY <1>2, <2>7, <4>1 DEF Buffer
        <4>3. rptr'[p] <= sptr'[p] /\ rptr'[p] + Len(ringbuf'[p]) + rest'[p] <= Length
          <5> DEFINE m == Len(ringbuf[p])
                     n == Len(ringbuf'[p])
          <5>1. m \in Nat /\ n \in Nat /\ n <= m
            BY <2>7
          <5>2. rptr[p] <= sptr[p] /\ rptr[p] + m + rest[p] <= Length
            BY <1>2 DEF Buffer
          <5> HIDE DEF m, n
          <5>3. rptr[p] <= sptr[p] + 1 /\ rptr[p] + n + rest[p] <= Length
            BY SMTT(40), <1>2, <5>1, <5>2
          <5> QED
            BY <1>1, <2>5, <5>3 DEF n
        <4> QED
          BY <3>1, <4>2, <4>3 DEF Buffer, Data
      <3>2. CASE x # p
        <4>1. Buffer(x)
          BY Parts
        <4>2. /\ sptr'[x] = sptr[x] /\ rptr'[x] = rptr[x] /\ rest'[x] = rest[x]
              /\ ringbuf'[x] = ringbuf[x] /\ buf'[x] = buf[x]
          BY <1>1, <2>5, <2>7, <3>2
        <4> QED
          BY <4>1, <4>2 DEF Buffer, Data
      <3> QED
        BY <3>1, <3>2
    <2>10. ASSUME NEW x \in Process
           PROVE  Forward(x)'
      <3>1. Dest(x) \in Process
        BY Parts
      <3>2. CASE x = p
        <4>1. HeadOnWay(p)' <=> HeadOnWay(p)
          <5>1. Dest(p)' = Dest(p)
            BY <1>1 DEF Dest
          <5> QED
            BY <1>1, <2>6, <5>1 DEF HeadOnWay, BeforeHead
        <4>2. sptr'[p] = sptr[p] + 1 /\ pc'[p] # "sendHead"
          BY <2>5, <2>6
        <4> QED
          BY <1>1, <1>2, <2>3, <2>4, <3>2, <4>1, <4>2, ForwardSent
      <3>3. CASE x # p
        <4>1. chan'[x][Dest(x)] = chan[x][Dest(x)] /\ sptr'[x] = sptr[x]
          BY <2>4, <2>5, <3>1, <3>3
        <4> QED
          BY <1>1, <3>3, <4>1, ForwardMoves DEF BeforeHead
      <3> QED
        BY <3>2, <3>3
    <2>11. ASSUME NEW x \in Process
           PROVE  Back(x)' /\ Control(x)'
      <3>1. Dest(x) # Source(x) => chan'[x][Source(x)] = chan[x][Source(x)]
        BY <2>4, Parts
      <3>2. Back(x)'
        BY <1>1, <3>1, BackMoves DEF BeforeAck, BeforeData, BeforeHead
      <3>3. Control(x)'
        BY <1>1, ControlMoves
      <3> QED
        BY <3>2, <3>3
    <2> QED
      BY <1>2, <2>8, <2>9, <2>10, <2>11 DEF Inv
  <1> QED
    BY <1>3, <1>4

\* A received flit is stored before sptr, or waits in the ring buffer.
LEMMA LoopRecvKeeps ==
  ASSUME ReplaceAssumption, Inv, NEW p \in Process, LoopRecv(p)
  PROVE  Inv'
  <1> PICK s \in Process : s = Source(p)
    BY Parts
  <1> DEFINE f == chan[s][p][1]
             Taken == Takes(p)
  <1>1. /\ pc[p] = "recv" /\ Goto(p, "send")
        /\ room' = room /\ dest' = dest /\ sptr' = sptr /\ aborted' = aborted
        /\ "recv" \in InLoop /\ "send" \in InLoop /\ "send" \in Location
    BY DEF LoopRecv, InLoop, Location
  <1>2. /\ TypeOK /\ ~aborted' /\ Buffer(p)
        /\ sptr[p] \in Nat /\ sptr[p] <= Length /\ Length \in Nat
        /\ rptr[p] \in Nat /\ rest[p] \in Nat /\ ringbuf[p] \in Seq(Flit)
    <2>1. TypeOK /\ Buffer(p) /\ sptr[p] \in Nat /\ sptr[p] <= Length /\ ~aborted'
      BY <1>1, Parts DEF Inv
    <2>2. Length \in Nat
      BY DEF ReplaceAssumption
    <2> QED
      BY <2>1, <2>2 DEF TypeOK
  <1>3. pc' \in [Process -> Location]
    BY <1>1, <1>2 DEF TypeOK, Goto
  <1>4. CASE ~Taken
    <2>1. rptr' = rptr /\ rest' = rest /\ ringbuf' = ringbuf /\ buf' = buf /\ chan' = chan
      BY <1>4 DEF LoopRecv
    <2>2. TypeOK'
      BY <1>1, <1>2, <1>3, <2>1 DEF TypeOK
    <2>3. \A x \in Process : Forward(x)' /\ Back(x)' /\ Control(x)'
      BY <1>1, <2>1, NothingMoves
    <2> QED
      BY <1>1, <1>2, <2>1, <2>2, <2>3, KeepsBuffers DEF Inv
  <1>5. CASE Taken
    <2>1. /\ RecvFlit(p, s) /\ rest' = [rest EXCEPT ![p] = @ - 1] /\ rest[p] > 0
          /\ MustWait(p) => /\ ringbuf' = [ringbuf EXCEPT ![p] = Append(@, f)]
                            /\ rptr' = rptr /\ buf' = buf
          /\ ~MustWait(p) => /\ buf' = [buf EXCEPT ![p][rptr[p]] = f]
                             /\ rptr' = [rptr EXCEPT ![p] = @ + 1]
                             /\ ringbuf' = ringbuf
      BY <1>2, <1>5 DEF LoopRecv, Takes, WholeFlitLeft
    <2>2. chan' \in [Process -> [Process -> Seq(Flit)]] /\ f \in Flit
      BY <1>2, <2>1, RecvChanges
    <2>3. \A x \in Process : Forward(x)' /\ Back(x)' /\ Control(x)'
      BY <1>1, <2>1, DataReceived
    <2> HIDE DEF f
    <2>4. /\ rest' \in [Process -> Nat]
          /\ \A x \in Process : rest'[x] = IF x = p THEN rest[p] - 1 ELSE rest[x]
      <3>1. rest[p] - 1 \in Nat
        BY <1>2, <2>1
      <3>2. rest \in [Process -> Nat]
        BY <1>2 DEF TypeOK
      <3> QED
        BY <2>1, <3>1, <3>2
    <2>5. CASE MustWait(p)
      <3>1. ringbuf \in [Process -> Seq(Flit)] /\ rptr' = rptr /\ buf' = buf
        BY <1>2, <2>1, <2>5 DEF TypeOK
      <3>2. /\ Append(ringbuf[p], f) \in Seq(Flit) /\ Len(ringbuf[p]) \in Nat
            /\ Len(Append(ringbuf[p], f)) = Len(ringbuf[p]) + 1
        BY <1>2, <2>2, AppendProperties, LenProperties
      <3>3. /\ ringbuf' \in [Process -> Seq(Flit)]
            /\ \A x \in Process \ {p} : ringbuf'[x] = ringbuf[x]
            /\ ringbuf'[p] = Append(ringbuf[p], f)
        BY <2>1, <2>5, <3>1, <3>2
      <3>4. TypeOK'
        BY <1>1, <1>2, <1>3, <2>2, <2>4, <3>1, <3>3 DEF TypeOK
      <3>5. ASSUME NEW x \in Process
            PROVE  Buffer(x)'
        <4>1. CASE x = p
          <5> DEFINE m == Len(ringbuf[p])
                     n == Len(ringbuf'[p])
          <5>1. m \in Nat /\ n = m + 1
            BY <3>2, <3>3
          <5>2. rptr[p] <= sptr[p] /\ rptr[p] + m + rest[p] <= Length
            BY <1>2 DEF Buffer
          <5> HIDE DEF m, n
          <5>3. rptr[p] + n + (rest[p] - 1) <= Length
            BY <1>2, <5>1, <5>2
          <5> QED
            BY <1>1, <1>2, <2>4, <3>1, <4>1, <5>2, <5>3 DEF n, Buffer, Data
        <4>2. CASE x # p
          <5>1. Buffer(x)
            BY Parts
          <5> QED
            BY <1>1, <2>4, <3>1, <3>3, <4>2, <5>1 DEF Buffer, Data
        <4> QED
          BY <4>1, <4>2
      <3> QED
        BY <1>2, <2>3, <3>4, <3>5 DEF Inv
    <2>6. CASE ~MustWait(p)
      <3>1. /\ rptr[p] < sptr[p] /\ rptr[p] \in 0 .. Length - 1
            /\ ringbuf' = ringbuf /\ ringbuf[p] = <<>>
        BY <1>2, <2>1, <2>6 DEF MustWait
      <3>2. /\ buf' \in [Process -> [0 .. Length - 1 -> Flit]]
            /\ \A x \in Process \ {p} : buf'[x] = buf[x]
            /\ \A i \in 0 .. Length - 1 : i # rptr[p] => buf'[p][i] = buf[p][i]
        BY SMTT(40), <1>2, <2>1, <2>2, <2>6, <3>1, StoreChanges
      <3>3. /\ rptr' \in [Process -> Nat]
            /\ \A x \in Process : rptr'[x] = IF x = p THEN rptr[p] + 1 ELSE rptr[x]
        <4>1. rptr \in [Process -> Nat]
          BY <1>2 DEF TypeOK
        <4> QED
          BY <2>1, <2>6, <4>1
      <3>4. TypeOK'
        BY <1>1, <1>2, <1>3, <2>2, <2>4, <3>1, <3>2, <3>3 DEF TypeOK
      <3>5. ASSUME NEW x \in Process
            PROVE  Buffer(x)'
        <4>1. CASE x = p
          <5>1. rptr[p] + 0 + rest[p] <= Length /\ Len(ringbuf[p]) = 0
            BY <1>2, <3>1, EmptySeq DEF Buffer
          <5>2. \A i \in sptr[p] .. Length - 1 : i \in 0 .. Length - 1 /\ i # rptr[p]
            BY <1>2, <3>1
          <5>3. \A i \in sptr[p] .. Length - 1 : buf'[p][i] = Data(p, i)
            BY <1>2, <3>2, <5>2 DEF Buffer
          <5>4. rptr[p] + 1 <= sptr[p] /\ (rptr[p] + 1) + 0 + (rest[p] - 1) <= Length
            BY <1>2, <3>1, <5>1
          <5> QED
            BY <1>1, <2>4, <3>1, <3>3, <4>1, <5>1, <5>3, <5>4 DEF Buffer, Data
        <4>2. CASE x # p
          <5>1. Buffer(x)
            BY Parts
          <5> QED
            BY <1>1, <2>4, <3>1, <3>2, <3>3, <4>2, <5>1 DEF Buffer, Data
        <4> QED
          BY <4>1, <4>2
      <3> QED
        BY <1>2, <2>3, <3>4, <3>5 DEF Inv
    <2> QED
      BY <2>5, <2>6
  <1> QED
    BY <1>4, <1>5

\* What recv_raw receives fits into the buffer.
LEMMA RecvRestKeeps ==
  ASSUME ReplaceAssumption, Inv, NEW p \in Process, RecvRest(p)
  PROVE  Inv'
  <1> PICK s \in Process : s = Source(p)
    BY Parts
  <1> DEFINE f == chan[s][p][1]
  <1>1. /\ pc[p] = "send" /\ pc' = pc /\ sptr[p] = Length /\ rest[p] > 0
        /\ room' = room /\ dest' = dest /\ sptr' = sptr /\ ringbuf' = ringbuf /\ aborted' = aborted
        /\ RecvFlit(p, s) /\ buf' = [buf EXCEPT ![p][rptr[p]] = f]
        /\ rptr' = [rptr EXCEPT ![p] = @ + 1] /\ rest' = [rest EXCEPT ![p] = @ - 1]
    BY DEF RecvRest
  <1>2. /\ TypeOK /\ ~aborted' /\ Buffer(p) /\ Length \in Nat
        /\ rptr[p] \in Nat /\ rest[p] \in Nat /\ Len(ringbuf[p]) \in Nat
    <2>1. TypeOK /\ Buffer(p) /\ ~aborted'
      BY <1>1, Parts DEF Inv
    <2>2. Length \in Nat
      BY DEF ReplaceAssumption
    <2>3. rptr[p] \in Nat /\ rest[p] \in Nat /\ ringbuf[p] \in Seq(Flit)
      BY <2>1 DEF TypeOK
    <2> QED
      BY <2>1, <2>2, <2>3, LenProperties
  <1>3. Goto(p, "send") /\ "send" \in InLoop
    BY <1>1, <1>2 DEF Goto, InLoop, TypeOK
  <1>4. \A x \in Process : Forward(x)' /\ Back(x)' /\ Control(x)'
    BY <1>1, <1>3, DataReceived
  <1>5. chan' \in [Process -> [Process -> Seq(Flit)]] /\ f \in Flit
    BY <1>1, <1>2, RecvChanges
  <1> HIDE DEF f
  <1> DEFINE m == Len(ringbuf[p])
  <1>6. rptr[p] + m + rest[p] <= Length /\ m \in Nat
    BY <1>2 DEF Buffer
  <1> HIDE DEF m
  <1>7. /\ rptr[p] \in 0 .. Length - 1 /\ rest[p] - 1 \in Nat
        /\ rptr[p] + 1 <= Length /\ (rptr[p] + 1) + m + (rest[p] - 1) <= Length
    BY SMTT(40), <1>1, <1>2, <1>6
  <1>8. /\ buf' \in [Process -> [0 .. Length - 1 -> Flit]]
        /\ \A x \in Process \ {p} : buf'[x] = buf[x]
    BY <1>1, <1>2, <1>5, <1>7, StoreChanges
  <1>9. /\ rptr' \in [Process -> Nat] /\ rest' \in [Process -> Nat]
        /\ \A x \in Process : rptr'[x] = IF x = p THEN rptr[p] + 1 ELSE rptr[x]
        /\ \A x \in Process : rest'[x] = IF x = p THEN rest[p] - 1 ELSE rest[x]
    <2>1. rptr \in [Process -> Nat] /\ rest \in [Process -> Nat]
      BY <1>2 DEF TypeOK
    <2> QED
      BY <1>1, <1>2, <1>7, <2>1
  <1>10. TypeOK'
    BY <1>1, <1>2, <1>5, <1>8, <1>9 DEF TypeOK
  <1>11. ASSUME NEW x \in Process
         PROVE  Buffer(x)'
    <2>1. CASE x = p
      <3>1. \A i \in sptr[p] .. Length - 1 : FALSE
        BY <1>1, <1>2
      <3> QED
        BY <1>1, <1>7, <1>9, <2>1, <3>1 DEF Buffer, m
    <2>2. CASE x # p
      <3>1. Buffer(x)
        BY Parts
      <3> QED
        BY <1>1, <1>8, <1>9, <2>2, <3>1 DEF Buffer, Data
    <2> QED
      BY <2>1, <2>2
  <1> QED
    BY <1>2, <1>4, <1>10, <1>11 DEF Inv

LEMMA ReturnKeeps ==
  ASSUME ReplaceAssumption, Inv, NEW p \in Process, Return(p)
  PROVE  Inv'
  <1>1. /\ pc[p] = "send" /\ Goto(p, "done") /\ room' = room /\ dest' = dest /\ sptr' = sptr /\ rptr' = rptr
        /\ rest' = rest /\ ringbuf' = ringbuf /\ buf' = buf /\ chan' = chan /\ aborted' = aborted
        /\ "send" \in InLoop /\ "done" \in InLoop /\ "done" \in Location
    BY DEF Return, InLoop, Location
  <1>2. TypeOK' /\ ~aborted'
    BY <1>1 DEF Inv, TypeOK, Goto
  <1>3. \A x \in Process : Forward(x)' /\ Back(x)' /\ Control(x)'
    BY <1>1, NothingMoves
  <1> QED
    BY <1>1, <1>2, <1>3, KeepsBuffers DEF Inv

LEMMA StutterKeeps ==
  ASSUME Inv, UNCHANGED vars
  PROVE  Inv'
  <1>1. /\ room' = room /\ dest' = dest /\ pc' = pc /\ sptr' = sptr /\ rptr' = rptr /\ rest' = rest
        /\ ringbuf' = ringbuf /\ buf' = buf /\ chan' = chan /\ aborted' = aborted
    BY DEF vars
  <1>2. TypeOK' /\ ~aborted'
    BY <1>1 DEF Inv, TypeOK
  <1>3. ASSUME NEW x \in Process
        PROVE  Buffer(x)' /\ Forward(x)' /\ Back(x)' /\ Control(x)'
    <2>1. Buffer(x) /\ Forward(x) /\ Back(x) /\ Control(x)
      BY DEF Inv
    <2>2. Dest(x)' = Dest(x) /\ Source(x)' = Source(x) /\ Source(Dest(x))' = Source(Dest(x))
      BY <1>1 DEF Dest, Source
    <2>3. HeadOnWay(x)' <=> HeadOnWay(x)
      BY <1>1, <2>2 DEF HeadOnWay, BeforeHead
    <2>4. AckOnWay(x)' <=> AckOnWay(x)
      BY <1>1, <2>2 DEF AckOnWay, BeforeAck, BeforeData, BeforeHead
    <2>5. Forward(x)'
      BY <1>1, <2>1, <2>2, <2>3 DEF Forward, DataFrom, Data, HeadFlit, BeforeHead
    <2>6. Back(x)'
      BY <1>1, <2>1, <2>2, <2>4 DEF Back, Ack, BeforeAck, BeforeData, BeforeHead
    <2> QED
      BY <1>1, <2>1, <2>2, <2>5, <2>6 DEF Buffer, Control, Data
  <1> QED
    BY <1>2, <1>3 DEF Inv

\* The header is the only flit in a channel to Dest(p) that is not data of p, and
\* the data are those of the places before sptr.
LEMMA ChannelsHoldData ==
  ASSUME ReplaceAssumption, Inv
  PROVE  SendsOriginal
  <1>1. SUFFICES ASSUME NEW p \in Process, NEW k \in 1 .. Len(chan[p][Dest(p)]),
                        chan[p][Dest(p)][k][1] = "data"
                 PROVE  chan[p][Dest(p)][k]
                          = Data(p, sptr[p] - Len(chan[p][Dest(p)]) + k - 1)
    BY DEF SendsOriginal
  <1>2. Forward(p) /\ Len(chan[p][Dest(p)]) \in Nat
    <2>1. Forward(p) /\ chan[p][Dest(p)] \in Seq(Flit)
      BY Parts
    <2> QED
      BY <2>1, LenProperties
  <1>3. CASE HeadOnWay(p)
    <2>1. chan[p][Dest(p)][1] = HeadFlit /\ DataFrom(p, 2)
      BY <1>2, <1>3 DEF Forward
    <2>2. k # 1
      BY <1>1, <2>1 DEF HeadFlit
    <2> QED
      BY <1>1, <1>2, <2>1, <2>2 DEF DataFrom
  <1>4. CASE ~HeadOnWay(p)
    BY <1>1, <1>2, <1>4 DEF Forward, DataFrom
  <1> QED
    BY <1>3, <1>4

-----------------------------------------------------------------------------
LEMMA StepKeeps ==
  ASSUME ReplaceAssumption, Inv, NEW p \in Process, Step(p)
  PROVE  Inv'
  BY SendHeadKeeps, RecvHeadKeeps, SendAckKeeps, RecvAckKeeps,
     LoopSendKeeps, LoopRecvKeeps, RecvRestKeeps, ReturnKeeps DEF Step

LEMMA Invariance ==
  ASSUME ReplaceAssumption
  PROVE  Spec => []Inv
  <1>1. Init => Inv
    BY Initially
  <1>2. Inv /\ [Next]_vars => Inv'
    BY StepKeeps, StutterKeeps DEF Next
  <1> QED
    BY <1>1, <1>2, PTL DEF Spec

\* Receiving into the buffer that is being sent never changes what is sent, for
\* all permutations, lengths and sizes: LoopSend reads the place before it takes
\* a flit from the ring buffer, and MustWait keeps rptr behind sptr.
THEOREM OriginalSent ==
  ASSUME ReplaceAssumption
  PROVE  Spec => []SendsOriginal
  <1>1. Inv => SendsOriginal
    BY ChannelsHoldData
  <1> QED
    BY <1>1, Invariance, PTL

\* The asserts of the function hold: the first flit that a process takes from the
\* one before it is the header, and what comes from the one after it, before its
\* own data flow, is an acknowledgement.
THEOREM AssertsOfReplace ==
  ASSUME ReplaceAssumption
  PROVE  Spec => []~aborted
  <1>1. Inv => ~aborted
    BY DEF Inv
  <1> QED
    BY <1>1, Invariance, PTL
-----------------------------------------------------------------------------
\* Nobody waits for ever.  What is on the way to a process is what was sent and
\* not received; a ring buffer that holds flits belongs to a process that has
\* received more than it has sent.
Headers(p) == IF HeadOnWay(p) THEN 1 ELSE 0
Counted(p) == Len(chan[p][Dest(p)]) + Length = sptr[p] + rest[Dest(p)] + Headers(p)
Ahead(p) == ringbuf[p] # <<>> => sptr[p] + Len(ringbuf[p]) + rest[p] <= Length
Ended(p) ==
  /\ pc[p] \in {"send", "recv"} => Dest(p) # p
  /\ pc[p] = "done" /\ Dest(p) # p => sptr[p] = Length /\ rest[p] = 0
  /\ pc[p] \in BeforeData => sptr[p] = 0
Balance == \A p \in Process : Counted(p) /\ Ahead(p) /\ Ended(p)

LEMMA BalanceInitially ==
  ASSUME ReplaceAssumption, Init
  PROVE  Balance
  <1>1. /\ \A p \in Process : Dest(p) \in Process
        /\ Length \in Nat /\ Len(<<>>) = 0
    BY Partners DEF Init, ReplaceAssumption
  <1>2. ASSUME NEW p \in Process
        PROVE  /\ pc[p] = "sendHead" /\ sptr[p] = 0 /\ rest[p] = Length
               /\ ringbuf[p] = <<>> /\ chan[p][Dest(p)] = <<>>
    BY <1>1 DEF Init
  <1> QED
    BY <1>1, <1>2 DEF Balance, Counted, Headers, HeadOnWay, Ahead, Ended

\* The numbers in Counted are numbers.
LEMMA CountersTyped ==
  ASSUME ReplaceAssumption, Inv, NEW p \in Process
  PROVE  /\ Len(chan[p][Dest(p)]) \in Nat /\ sptr[p] \in Nat /\ rest[p] \in Nat
         /\ rest[Dest(p)] \in Nat /\ Len(ringbuf[p]) \in Nat /\ Headers(p) \in {0, 1}
         /\ sptr[p] <= Length /\ rest[p] <= Length /\ Length \in Nat /\ rptr[p] \in Nat
  <1>1. /\ TypeOK /\ Dest(p) \in Process /\ chan[p][Dest(p)] \in Seq(Flit)
        /\ sptr[p] \in Nat /\ sptr[p] <= Length /\ Buffer(p)
    BY Parts
  <1>2. /\ rest[p] \in Nat /\ rest[Dest(p)] \in Nat /\ ringbuf[p] \in Seq(Flit)
        /\ rptr[p] \in Nat /\ Length \in Nat
    BY <1>1 DEF TypeOK, ReplaceAssumption
  <1>3. Len(chan[p][Dest(p)]) \in Nat /\ Len(ringbuf[p]) \in Nat
    BY <1>1, <1>2, LenProperties
  <1>4. rest[p] <= Length
    <2> DEFINE m == Len(ringbuf[p])
    <2>1. rptr[p] + m + rest[p] <= Length /\ m \in Nat
      BY <1>1, <1>3 DEF Buffer
    <2> HIDE DEF m
    <2> QED
      BY <1>2, <2>1
  <1> QED
    BY <1>1, <1>2, <1>3, <1>4 DEF Headers

\* A step before the data: it only moves a header, or something in the other
\* direction.
LEMMA HandshakeBalance ==
  ASSUME ReplaceAssumption, Inv, Inv', Balance, NEW p \in Process, NEW l \in Location, Goto(p, l),
         dest' = dest, sptr' = sptr, rest' = rest, ringbuf' = ringbuf,
         l \in {"send", "recv"} => Dest(p) # p,
         l = "done" => Dest(p) = p,
         pc[p] \in BeforeData,
         \A x \in Process :
           Len(chan'[x][Dest(x)]) + Headers(x) = Len(chan[x][Dest(x)]) + Headers(x)'
  PROVE  Balance'
  <1>1. \A y \in Process : pc'[y] = IF y = p THEN l ELSE pc[y]
    BY DEF Goto, Inv, TypeOK
  <1>2. SUFFICES ASSUME NEW x \in Process
                 PROVE  Counted(x)' /\ Ahead(x)' /\ Ended(x)'
    BY DEF Balance
  <1>3. Counted(x) /\ Ahead(x) /\ Ended(x) /\ Dest(x)' = Dest(x)
    BY DEF Balance, Dest
  <1>4. Counted(x)'
    <2>1. PICK a \in Nat, h \in {0, 1} : a = Len(chan[x][Dest(x)]) /\ h = Headers(x)
      BY CountersTyped
    <2>2. Len(chan'[x][Dest(x)]) \in Nat /\ Headers(x)' \in {0, 1}
      <3>1. chan' \in [Process -> [Process -> Seq(Flit)]] /\ Dest(x) \in Process
        BY Parts DEF Inv, TypeOK
      <3>2. chan'[x][Dest(x)] \in Seq(Flit)
        BY <3>1
      <3> QED
        BY <3>2, LenProperties DEF Headers
    <2>3. PICK b \in Nat, k \in {0, 1} : b = Len(chan'[x][Dest(x)]) /\ k = Headers(x)'
      BY <2>2
    <2>4. b + h = a + k
      BY <2>1, <2>3
    <2>5. PICK q \in Nat, r \in Nat, n \in Nat :
            q = sptr[x] /\ r = rest[Dest(x)] /\ n = Length
      BY CountersTyped
    <2>6. a + n = q + r + h
      BY <1>3, <2>1, <2>5 DEF Counted
    <2>7. b + n = q + r + k
      BY <2>4, <2>6
    <2> QED
      BY <1>3, <2>3, <2>5, <2>7 DEF Counted
  <1>5. Ahead(x)'
    BY <1>3 DEF Ahead
  <1>6. Ended(x)'
    BY <1>1, <1>3 DEF Ended
  <1> QED
    BY <1>4, <1>5, <1>6

LEMMA SendHeadBalance ==
  ASSUME ReplaceAssumption, Inv, Inv', Balance, NEW p \in Process, SendHead(p)
  PROVE  Balance'
  <1> PICK d \in Process : d = Dest(p)
    BY Parts
  <1>1. /\ pc[p] = "sendHead" /\ Goto(p, "recvHead") /\ "recvHead" \in Location
        /\ dest' = dest /\ sptr' = sptr /\ rest' = rest /\ ringbuf' = ringbuf
        /\ SendFlit(p, d, HeadFlit) /\ HeadFlit \in Flit /\ TypeOK
    BY Parts DEF SendHead, Location, HeadFlit, Flit
  <1>2. /\ \A a, b \in Process : a # p \/ b # d => chan'[a][b] = chan[a][b]
        /\ chan'[p][d] = Append(chan[p][d], HeadFlit)
    BY <1>1, SendChanges
  <1>3. \A y \in Process : pc'[y] = IF y = p THEN "recvHead" ELSE pc[y]
    BY <1>1 DEF Goto, TypeOK
  <1>4. ASSUME NEW x \in Process
        PROVE  Len(chan'[x][Dest(x)]) + Headers(x) = Len(chan[x][Dest(x)]) + Headers(x)'
    <2>1. Dest(x) \in Process /\ Dest(x)' = Dest(x) /\ Forward(x)
      BY <1>1, Parts DEF Dest
    <2>2. CASE x = p
      <3>1. chan[x][Dest(x)] = <<>> /\ pc[Dest(x)] \in BeforeHead
        BY <1>1, <2>1, <2>2 DEF Forward
      <3>2. Len(chan[x][Dest(x)]) = 0 /\ Len(chan'[x][Dest(x)]) = 1
        <4>1. chan'[x][Dest(x)] = Append(<<>>, HeadFlit)
          BY <1>2, <2>2, <3>1
        <4>2. Append(<<>>, HeadFlit) = <<HeadFlit>> /\ Len(<<HeadFlit>>) = 1
          OBVIOUS
        <4> QED
          BY <3>1, <4>1, <4>2
      <3>3. Headers(x) = 0
        BY <1>1, <2>2 DEF Headers, HeadOnWay
      <3>4. Headers(x)' = 1
        BY <1>3, <2>1, <2>2, <3>1 DEF Headers, HeadOnWay, BeforeHead
      <3> QED
        BY <3>2, <3>3, <3>4
    <2>3. CASE x # p
      <3>1. chan'[x][Dest(x)] = chan[x][Dest(x)]
        BY <1>2, <2>1, <2>3
      <3>2. HeadOnWay(x)' <=> HeadOnWay(x)
        BY <1>1, <1>3, <2>1, <2>3 DEF HeadOnWay, BeforeHead
      <3>3. Headers(x)' = Headers(x)
        BY <3>2 DEF Headers
      <3> QED
        BY <3>1, <3>3
    <2> QED
      BY <2>2, <2>3
  <1> QED
    BY <1>1, <1>4, HandshakeBalance DEF BeforeData, BeforeAck, BeforeHead

LEMMA RecvHeadBalance ==
  ASSUME ReplaceAssumption, Inv, Inv', Balance, NEW p \in Process, RecvHead(p)
  PROVE  Balance'
  <1> PICK s \in Process : s = Source(p)
    BY Parts
  <1> PICK l : l = AfterHead(p)
    OBVIOUS
  <1>1. /\ pc[p] = "recvHead" /\ Goto(p, l) /\ RecvFlit(p, s)
        /\ dest' = dest /\ sptr' = sptr /\ rest' = rest /\ ringbuf' = ringbuf
        /\ TypeOK /\ Dest(s) = p /\ Forward(s)
    BY Parts DEF RecvHead
  <1>2. /\ l \in Location /\ l \notin BeforeHead
        /\ l \in {"send", "recv"} => Dest(p) # p
        /\ l = "done" => Dest(p) = p
    <2>1. CASE Dest(p) # Source(p)
      BY <2>1 DEF AfterHead, Location, BeforeHead
    <2>2. CASE Dest(p) = Source(p) /\ Dest(p) # p
      BY <2>2 DEF AfterHead, Location, BeforeHead
    <2>3. CASE Dest(p) = p
      <3>1. Source(p) = p
        BY <2>3, Parts
      <3> QED
        BY <2>3, <3>1 DEF AfterHead, Location, BeforeHead
    <2> QED
      BY <2>1, <2>2, <2>3
  <1>3. /\ \A a, b \in Process : a # s \/ b # p => chan'[a][b] = chan[a][b]
        /\ chan[s][p] \in Seq(Flit) /\ chan[s][p] # <<>> /\ chan'[s][p] = Tail(chan[s][p])
    BY <1>1, RecvChanges
  <1>4. \A y \in Process : pc'[y] = IF y = p THEN l ELSE pc[y]
    BY <1>1 DEF Goto, TypeOK
  <1>5. ASSUME NEW x \in Process
        PROVE  Len(chan'[x][Dest(x)]) + Headers(x) = Len(chan[x][Dest(x)]) + Headers(x)'
    <2>1. Dest(x) \in Process /\ Dest(x)' = Dest(x)
      BY <1>1, Parts DEF Dest
    <2>2. CASE x = s
      <3>1. Len(chan[x][Dest(x)]) \in Nat /\ Len(chan'[x][Dest(x)]) = Len(chan[x][Dest(x)]) - 1
        <4>1. Len(chan[s][p]) \in Nat /\ Len(Tail(chan[s][p])) = Len(chan[s][p]) - 1
          BY <1>3, TailPlaces
        <4> QED
          BY <1>1, <1>3, <2>2, <4>1
      <3>2. pc[x] # "sendHead"
        BY <1>1, <1>3, <2>2 DEF Forward
      <3>3. Headers(x) = 1
        BY <1>1, <2>2, <3>2 DEF Headers, HeadOnWay, BeforeHead
      <3>4. Headers(x)' = 0
        BY <1>1, <1>2, <1>4, <2>1, <2>2 DEF Headers, HeadOnWay, BeforeHead
      <3> QED
        BY <3>1, <3>3, <3>4
    <2>3. CASE x # s
      <3>1. Dest(x) # p
        BY <2>3, Parts
      <3>2. chan'[x][Dest(x)] = chan[x][Dest(x)]
        BY <1>3, <2>1, <2>3
      <3>3. pc'[x] = "sendHead" <=> pc[x] = "sendHead"
        BY <1>1, <1>2, <1>4 DEF BeforeHead
      <3>4. HeadOnWay(x)' <=> HeadOnWay(x)
        BY <1>4, <2>1, <3>1, <3>3 DEF HeadOnWay, BeforeHead
      <3>5. Headers(x)' = Headers(x)
        BY <3>4 DEF Headers
      <3> QED
        BY <3>2, <3>5
    <2> QED
      BY <2>2, <2>3
  <1> QED
    BY <1>1, <1>2, <1>5, HandshakeBalance DEF BeforeData, BeforeAck, BeforeHead

\* Acknowledgements go the other way, and only where this is another channel.
LEMMA SendAckBalance ==
  ASSUME ReplaceAssumption, Inv, Inv', Balance, NEW p \in Process, SendAck(p)
  PROVE  Balance'
  <1> PICK s \in Process : s = Source(p)
    BY Parts
  <1>1. /\ pc[p] = "sendAck" /\ Goto(p, "recvAck") /\ "recvAck" \in Location
        /\ dest' = dest /\ sptr' = sptr /\ rest' = rest /\ ringbuf' = ringbuf
        /\ SendFlit(p, s, Ack) /\ Ack \in Flit /\ TypeOK /\ Dest(p) # s
    BY Parts DEF SendAck, Location, Ack, Flit, Control
  <1>2. \A a, b \in Process : a # p \/ b # s => chan'[a][b] = chan[a][b]
    BY <1>1, SendChanges
  <1>3. \A y \in Process : pc'[y] = IF y = p THEN "recvAck" ELSE pc[y]
    BY <1>1 DEF Goto, TypeOK
  <1>4. ASSUME NEW x \in Process
        PROVE  Len(chan'[x][Dest(x)]) + Headers(x) = Len(chan[x][Dest(x)]) + Headers(x)'
    <2>1. Dest(x) \in Process /\ Dest(x)' = Dest(x)
      BY <1>1, Parts DEF Dest
    <2>2. chan'[x][Dest(x)] = chan[x][Dest(x)]
      BY <1>1, <1>2, <2>1
    <2>3. HeadOnWay(x)' <=> HeadOnWay(x)
      BY <1>1, <1>3, <2>1 DEF HeadOnWay, BeforeHead
    <2>4. Headers(x)' = Headers(x)
      BY <2>3 DEF Headers
    <2> QED
      BY <2>2, <2>4
  <1> QED
    BY <1>1, <1>4, HandshakeBalance DEF BeforeData, BeforeAck, BeforeHead

LEMMA RecvAckBalance ==
  ASSUME ReplaceAssumption, Inv, Inv', Balance, NEW p \in Process, RecvAck(p)
  PROVE  Balance'
  <1> PICK d \in Process : d = Dest(p)
    BY Parts
  <1>1. /\ pc[p] = "recvAck" /\ Goto(p, "send") /\ "send" \in Location
        /\ dest' = dest /\ sptr' = sptr /\ rest' = rest /\ ringbuf' = ringbuf
        /\ RecvFlit(p, d) /\ TypeOK /\ d # Source(p)
    BY Parts DEF RecvAck, Location, Control
  <1>2. \A a, b \in Process : a # d \/ b # p => chan'[a][b] = chan[a][b]
    BY <1>1, RecvChanges
  <1>3. \A y \in Process : pc'[y] = IF y = p THEN "send" ELSE pc[y]
    BY <1>1 DEF Goto, TypeOK
  <1>4. Dest(d) # p /\ Dest(p) # p
    <2>1. Dest(d) # p
      BY <1>1, Parts
    <2> QED
      BY <2>1
  <1>5. ASSUME NEW x \in Process
        PROVE  Len(chan'[x][Dest(x)]) + Headers(x) = Len(chan[x][Dest(x)]) + Headers(x)'
    <2>1. Dest(x) \in Process /\ Dest(x)' = Dest(x)
      BY <1>1, Parts DEF Dest
    <2>2. chan'[x][Dest(x)] = chan[x][Dest(x)]
      BY <1>2, <1>4, <2>1
    <2>3. HeadOnWay(x)' <=> HeadOnWay(x)
      BY <1>1, <1>3, <2>1 DEF HeadOnWay, BeforeHead
    <2>4. Headers(x)' = Headers(x)
      BY <2>3 DEF Headers
    <2> QED
      BY <2>2, <2>4
  <1> QED
    BY <1>1, <1>4, <1>5, HandshakeBalance DEF BeforeData, BeforeAck, BeforeHead

\* A step in the loop or after it: p sends or receives data, or nothing.
LEMMA LoopBalance ==
  ASSUME ReplaceAssumption, Inv, Inv', Balance, NEW p \in Process, NEW l \in InLoop, Goto(p, l),
         dest' = dest, pc[p] \in {"send", "recv"},
         \A x \in Process \ {p} :
           sptr'[x] = sptr[x] /\ rest'[x] = rest[x] /\ ringbuf'[x] = ringbuf[x],
         ringbuf'[p] # <<>> => sptr'[p] + Len(ringbuf'[p]) + rest'[p] <= Length,
         l = "done" => sptr'[p] = Length /\ rest'[p] = 0,
         \A x \in Process :
           Len(chan'[x][Dest(x)]) + sptr[x] + rest[Dest(x)]
             = Len(chan[x][Dest(x)]) + sptr'[x] + rest'[Dest(x)]
  PROVE  Balance'
  <1>1. \A y \in Process : pc'[y] = IF y = p THEN l ELSE pc[y]
    BY DEF Goto, Inv, TypeOK
  <1>2. SUFFICES ASSUME NEW x \in Process
                 PROVE  Counted(x)' /\ Ahead(x)' /\ Ended(x)'
    BY DEF Balance
  <1>3. /\ Counted(x) /\ Ahead(x) /\ Ended(x) /\ Dest(x)' = Dest(x) /\ Dest(p) # p
        /\ Dest(x) \in Process
    BY Parts DEF Balance, Dest, Ended
  <1>4. Counted(x)'
    <2>1. HeadOnWay(x)' <=> HeadOnWay(x)
      BY <1>1, <1>3 DEF HeadOnWay, BeforeHead, InLoop
    <2>2. Headers(x)' = Headers(x)
      BY <2>1 DEF Headers
    <2>3. PICK a \in Nat, q \in Nat, r \in Nat, h \in {0, 1}, n \in Nat :
            /\ a = Len(chan[x][Dest(x)]) /\ q = sptr[x] /\ r = rest[Dest(x)]
            /\ h = Headers(x) /\ n = Length
      BY CountersTyped
    <2>4. chan' \in [Process -> [Process -> Seq(Flit)]] /\ sptr' \in [Process -> 0 .. Length]
          /\ rest' \in [Process -> Nat] /\ Length \in Nat
      BY DEF Inv, TypeOK, ReplaceAssumption
    <2>5. chan'[x][Dest(x)] \in Seq(Flit) /\ sptr'[x] \in Nat /\ rest'[Dest(x)] \in Nat
      BY <1>3, <2>4
    <2>6. PICK b \in Nat, u \in Nat, v \in Nat :
            b = Len(chan'[x][Dest(x)]) /\ u = sptr'[x] /\ v = rest'[Dest(x)]
      BY <2>5, LenProperties
    <2>7. b + q + r = a + u + v
      BY <2>3, <2>6
    <2>8. a + n = q + r + h
      BY <1>3, <2>3 DEF Counted
    <2>9. b + n = u + v + h
      BY <2>7, <2>8
    <2> QED
      BY <1>3, <2>2, <2>3, <2>6, <2>9 DEF Counted
  <1>5. Ahead(x)'
    BY <1>3 DEF Ahead
  <1>6. Ended(x)'
    BY <1>1, <1>3 DEF Ended, InLoop, BeforeData, BeforeAck, BeforeHead
  <1> QED
    BY <1>4, <1>5, <1>6

\* One flit more on the way is one more sent; one fewer is one fewer to receive.
LEMMA OneMoves ==
  \A m, q, r \in Nat : /\ (m + 1) + q + r = m + (q + 1) + r
                       /\ (m - 1) + q + r = m + q + (r - 1)
  OBVIOUS

LEMMA LoopSendBalance ==
  ASSUME ReplaceAssumption, Inv, Inv', Balance, NEW p \in Process, LoopSend(p)
  PROVE  Balance'
  <1> PICK d \in Process : d = Dest(p)
    BY Parts
  <1>1. /\ pc[p] = "send" /\ sptr[p] < Length /\ Goto(p, "recv") /\ "recv" \in InLoop
        /\ dest' = dest /\ rest' = rest /\ TypeOK /\ chan[p][d] \in Seq(Flit)
        /\ sptr \in [Process -> 0 .. Length] /\ ringbuf \in [Process -> Seq(Flit)]
    BY Parts DEF LoopSend, InLoop, TypeOK
  <1>2. Ahead(p)
    BY DEF Balance
  <1>3. CASE Cong(d)
    <2>1. sptr' = sptr /\ ringbuf' = ringbuf /\ chan' = chan
      BY <1>3 DEF LoopSend
    <2> QED
      BY <1>1, <1>2, <2>1, LoopBalance DEF Ahead
  <1>4. CASE ~Cong(d)
    <2> PICK f : f = buf[p][sptr[p]]
      OBVIOUS
    <2>1. /\ SendFlit(p, d, f)
          /\ sptr' = [sptr EXCEPT ![p] = @ + 1]
          /\ ringbuf[p] = <<>> => ringbuf' = ringbuf
          /\ ringbuf[p] # <<>> => ringbuf' = [ringbuf EXCEPT ![p] = Tail(@)]
      BY <1>4 DEF LoopSend
    <2>2. f \in Flit
      <3>1. sptr[p] \in 0 .. Length - 1
        BY <1>1, CountersTyped
      <3> QED
        BY ZenonT(60), <1>1, <3>1 DEF TypeOK
    <2>3. /\ \A a, b \in Process : a # p \/ b # d => chan'[a][b] = chan[a][b]
          /\ Len(chan'[p][d]) = Len(chan[p][d]) + 1 /\ Len(chan[p][d]) \in Nat
      <3>1. /\ \A a, b \in Process : a # p \/ b # d => chan'[a][b] = chan[a][b]
            /\ chan'[p][d] = Append(chan[p][d], f)
        <4>1. TypeOK /\ SendFlit(p, d, f)
          BY <1>1, <2>1
        <4> QED
          BY <2>2, <4>1, SendChanges
      <3>2. Len(chan[p][d]) \in Nat /\ Len(Append(chan[p][d], f)) = Len(chan[p][d]) + 1
        BY <1>1, <2>2, AppendProperties, LenProperties
      <3> QED
        BY <3>1, <3>2
    <2>4. \A x \in Process : sptr'[x] = IF x = p THEN sptr[x] + 1 ELSE sptr[x]
      BY <1>1, <2>1
    <2>5. \A x \in Process \ {p} : ringbuf'[x] = ringbuf[x]
      BY <1>1, <2>1
    <2>6. ringbuf'[p] # <<>> => sptr'[p] + Len(ringbuf'[p]) + rest'[p] <= Length
      <3>1. CASE ringbuf[p] = <<>>
        BY <2>1, <3>1
      <3>2. CASE ringbuf[p] # <<>>
        <4>1. PICK m \in Nat : m = Len(ringbuf[p]) /\ Len(Tail(ringbuf[p])) = m - 1
          BY <1>1, <3>2, TailPlaces
        <4>2. ringbuf'[p] = Tail(ringbuf[p])
          BY <1>1, <2>1, <3>2
        <4>3. sptr[p] + m + rest[p] <= Length
          BY <1>2, <3>2, <4>1 DEF Ahead
        <4>4. (sptr[p] + 1) + (m - 1) + rest[p] <= Length
          BY <4>3, CountersTyped
        <4> QED
          BY <1>1, <2>4, <4>1, <4>2, <4>4
      <3> QED
        BY <3>1, <3>2
    <2>7. ASSUME NEW x \in Process
          PROVE  Len(chan'[x][Dest(x)]) + sptr[x] + rest[Dest(x)]
                   = Len(chan[x][Dest(x)]) + sptr'[x] + rest'[Dest(x)]
      <3>1. CASE x = p
        <4>1. PICK m \in Nat, q \in Nat, r \in Nat :
                m = Len(chan[p][d]) /\ q = sptr[p] /\ r = rest[d]
          BY <2>3, CountersTyped
        <4>2. Len(chan'[p][d]) = m + 1 /\ sptr'[p] = q + 1 /\ rest'[d] = r
          BY <1>1, <2>3, <2>4, <4>1
        <4>3. (m + 1) + q + r = m + (q + 1) + r
          BY OneMoves
        <4> QED
          BY <3>1, <4>1, <4>2, <4>3
      <3>2. CASE x # p
        <4>1. Dest(x) \in Process
          BY Parts
        <4> QED
          BY <1>1, <2>3, <2>4, <3>2, <4>1
      <3> QED
        BY <3>1, <3>2
    <2> QED
      BY <1>1, <2>4, <2>5, <2>6, <2>7, LoopBalance
  <1> QED
    BY <1>3, <1>4

\* Receiving data: one flit less on the way, one less to receive.
LEMMA ReceivedBalance ==
  ASSUME ReplaceAssumption, Inv, NEW p \in Process, dest' = dest, sptr' = sptr,
         RecvFlit(p, Source(p)), rest' = [rest EXCEPT ![p] = @ - 1], NEW x \in Process
  PROVE  Len(chan'[x][Dest(x)]) + sptr[x] + rest[Dest(x)]
           = Len(chan[x][Dest(x)]) + sptr'[x] + rest'[Dest(x)]
  <1> PICK s \in Process : s = Source(p)
    BY Parts
  <1>1. TypeOK /\ Dest(s) = p /\ Dest(x) \in Process
    BY Parts
  <1>2. /\ \A a, b \in Process : a # s \/ b # p => chan'[a][b] = chan[a][b]
        /\ chan[s][p] \in Seq(Flit) /\ chan[s][p] # <<>> /\ chan'[s][p] = Tail(chan[s][p])
    BY <1>1, RecvChanges
  <1>3. \A y \in Process : rest'[y] = IF y = p THEN rest[y] - 1 ELSE rest[y]
    BY <1>1 DEF TypeOK
  <1>4. CASE x = s
    <2>1. PICK m \in Nat, q \in Nat, r \in Nat :
            m = Len(chan[s][p]) /\ q = sptr[s] /\ r = rest[p]
      BY <1>1, CountersTyped
    <2>2. Len(chan'[s][p]) = m - 1
      BY <1>2, <2>1, TailPlaces
    <2>3. rest'[p] = r - 1 /\ sptr'[s] = q
      BY <1>3, <2>1
    <2>4. (m - 1) + q + r = m + q + (r - 1)
      BY OneMoves
    <2> QED
      BY <1>1, <1>4, <2>1, <2>2, <2>3, <2>4
  <1>5. CASE x # s
    <2>1. Dest(x) # p
      BY <1>5, Parts
    <2>2. chan'[x][Dest(x)] = chan[x][Dest(x)] /\ rest'[Dest(x)] = rest[Dest(x)]
      BY <1>1, <1>2, <1>3, <1>5, <2>1
    <2> QED
      BY <2>2
  <1> QED
    BY <1>4, <1>5

LEMMA LoopRecvBalance ==
  ASSUME ReplaceAssumption, Inv, Inv', Balance, NEW p \in Process, LoopRecv(p)
  PROVE  Balance'
  <1>1. /\ pc[p] = "recv" /\ Goto(p, "send") /\ "send" \in InLoop
        /\ dest' = dest /\ sptr' = sptr /\ TypeOK
        /\ rest \in [Process -> Nat] /\ ringbuf \in [Process -> Seq(Flit)]
    BY Parts DEF LoopRecv, InLoop, TypeOK
  <1>2. Ahead(p) /\ Buffer(p)
    BY Parts DEF Balance
  <1>3. CASE ~Takes(p)
    <2>1. rest' = rest /\ ringbuf' = ringbuf /\ chan' = chan
      BY <1>3 DEF LoopRecv
    <2> QED
      BY <1>1, <1>2, <2>1, LoopBalance DEF Ahead
  <1>4. CASE Takes(p)
    <2> PICK f : f = chan[Source(p)][p][1]
      OBVIOUS
    <2>1. /\ RecvFlit(p, Source(p)) /\ rest' = [rest EXCEPT ![p] = @ - 1]
          /\ MustWait(p) => ringbuf' = [ringbuf EXCEPT ![p] = Append(@, f)]
          /\ ~MustWait(p) => ringbuf' = ringbuf
      BY <1>4 DEF LoopRecv
    <2>2. f \in Flit
      <3>1. Source(p) \in Process
        BY Parts
      <3> QED
        BY <1>1, <2>1, <3>1, RecvChanges
    <2>3. \A x \in Process : rest'[x] = IF x = p THEN rest[x] - 1 ELSE rest[x]
      BY <1>1, <2>1
    <2>4. \A x \in Process \ {p} : ringbuf'[x] = ringbuf[x]
      BY <1>1, <2>1
    <2>5. PICK m \in Nat, q \in Nat, r \in Nat, t \in Nat :
            m = Len(ringbuf[p]) /\ q = sptr[p] /\ r = rest[p] /\ t = rptr[p]
      BY CountersTyped
    <2>6. /\ ringbuf[p] # <<>> => q + m + r <= Length
          /\ t + m + r <= Length
      BY <1>2, <2>5 DEF Ahead, Buffer
    <2>7. ringbuf'[p] # <<>> => sptr'[p] + Len(ringbuf'[p]) + rest'[p] <= Length
      <3>1. CASE MustWait(p)
        <4>1. Len(ringbuf'[p]) = m + 1
          BY <1>1, <2>1, <2>2, <2>5, <3>1, AppendProperties
        <4>2. ringbuf[p] # <<>> \/ (m = 0 /\ t >= q)
          BY <2>5, <3>1, EmptySeq DEF MustWait
        <4>3. q + (m + 1) + (r - 1) <= Length
          BY <2>6, <4>2, CountersTyped
        <4> QED
          BY <1>1, <2>3, <2>5, <4>1, <4>3
      <3>2. CASE ~MustWait(p)
        BY <2>1, <3>2 DEF MustWait
      <3> QED
        BY <3>1, <3>2
    <2>8. \A x \in Process : Len(chan'[x][Dest(x)]) + sptr[x] + rest[Dest(x)]
                               = Len(chan[x][Dest(x)]) + sptr'[x] + rest'[Dest(x)]
      BY <1>1, <2>1, ReceivedBalance
    <2> QED
      BY <1>1, <2>3, <2>4, <2>7, <2>8, LoopBalance
  <1> QED
    BY <1>3, <1>4

LEMMA RecvRestBalance ==
  ASSUME ReplaceAssumption, Inv, Inv', Balance, NEW p \in Process, RecvRest(p)
  PROVE  Balance'
  <1>1. /\ pc[p] = "send" /\ pc' = pc /\ "send" \in InLoop
        /\ dest' = dest /\ sptr' = sptr /\ ringbuf' = ringbuf /\ TypeOK
        /\ RecvFlit(p, Source(p)) /\ rest' = [rest EXCEPT ![p] = @ - 1]
        /\ pc \in [Process -> Location] /\ rest \in [Process -> Nat]
    BY Parts DEF RecvRest, InLoop, TypeOK
  <1>2. Goto(p, "send")
    BY <1>1 DEF Goto
  <1>3. \A x \in Process : rest'[x] = IF x = p THEN rest[x] - 1 ELSE rest[x]
    BY <1>1
  <1>4. ringbuf'[p] # <<>> => sptr'[p] + Len(ringbuf'[p]) + rest'[p] <= Length
    <2>1. PICK m \in Nat, q \in Nat, r \in Nat :
            m = Len(ringbuf[p]) /\ q = sptr[p] /\ r = rest[p]
      BY CountersTyped
    <2>2. ringbuf[p] # <<>> => q + m + r <= Length
      BY <2>1 DEF Balance, Ahead
    <2>3. ringbuf[p] # <<>> => q + m + (r - 1) <= Length
      BY SMTT(40), <2>1, <2>2, CountersTyped
    <2> QED
      BY <1>1, <1>3, <2>1, <2>3
  <1>5. \A x \in Process : Len(chan'[x][Dest(x)]) + sptr[x] + rest[Dest(x)]
                             = Len(chan[x][Dest(x)]) + sptr'[x] + rest'[Dest(x)]
    BY <1>1, ReceivedBalance
  <1> QED
    BY <1>1, <1>2, <1>3, <1>4, <1>5, LoopBalance

LEMMA ReturnBalance ==
  ASSUME ReplaceAssumption, Inv, Inv', Balance, NEW p \in Process, Return(p)
  PROVE  Balance'
  <1>1. /\ pc[p] = "send" /\ Goto(p, "done") /\ "done" \in InLoop
        /\ dest' = dest /\ sptr' = sptr /\ rest' = rest /\ ringbuf' = ringbuf /\ chan' = chan
        /\ sptr[p] = Length /\ rest[p] = 0
    BY DEF Return, InLoop
  <1>2. ringbuf'[p] # <<>> => sptr'[p] + Len(ringbuf'[p]) + rest'[p] <= Length
    BY <1>1 DEF Balance, Ahead
  <1> QED
    BY <1>1, <1>2, LoopBalance

LEMMA BalanceStep ==
  ASSUME ReplaceAssumption, Inv, Balance, NEW p \in Process, Step(p)
  PROVE  Balance'
  BY StepKeeps, SendHeadBalance, RecvHeadBalance, SendAckBalance, RecvAckBalance,
     LoopSendBalance, LoopRecvBalance, RecvRestBalance, ReturnBalance DEF Step

LEMMA BalanceStutters ==
  ASSUME Balance, UNCHANGED vars
  PROVE  Balance'
  BY DEF vars, Balance, Counted, Headers, HeadOnWay, BeforeHead, Dest, Ahead, Ended

\* Every nonempty set of processes has one that has sent the least.
LEMMA LeastSent ==
  ASSUME ReplaceAssumption, Inv, NEW W, W \subseteq Process, W # {}
  PROVE  \E m \in W : \A x \in W : sptr[m] <= sptr[x]
  <1> DEFINE T == {sptr[x] : x \in W}
             R == OpToRel(<, Nat)
  <1>1. \A x \in W : sptr[x] \in Nat
    BY CountersTyped
  <1>2. T \subseteq Nat /\ T # {}
    BY <1>1
  <1>3. \A a, b \in Nat : a < b => <<a, b>> \in R
    BY DEF OpToRel
  <1>4. IsWellFoundedOn(R, Nat)
    BY NatLessThanWellFounded
  <1> HIDE DEF R
  <1>5. PICK a \in T : \A b \in T : ~(<<b, a>> \in R)
    BY <1>2, <1>4, WFMin
  <1>6. PICK m \in W : a = sptr[m]
    BY <1>5
  <1>7. ASSUME NEW x \in W
        PROVE  sptr[m] <= sptr[x]
    <2>1. sptr[x] \in T /\ sptr[x] \in Nat /\ sptr[m] \in Nat /\ ~(sptr[x] < sptr[m])
      BY <1>1, <1>3, <1>5, <1>6
    <2> QED
      BY <2>1
  <1> QED
    BY <1>7

\* A receive buffer that is full holds a flit; of two senders, one of the first or
\* one of the second.
LEMMA FullHolds ==
  ASSUME ReplaceAssumption, Inv, NEW p \in Process, Cong(p)
  PROVE  chan[Source(p)][p] # <<>> \/ (Dest(p) # Source(p) /\ chan[Dest(p)][p] # <<>>)
  <1>1. room \in Nat /\ room >= 1
    BY DEF Inv, TypeOK, ReplaceAssumption
  <1>2. Waiting(p) # 0
    BY <1>1 DEF Cong
  <1>3. Len(<<>>) = 0
    BY EmptySeq
  <1>4. SUFFICES ASSUME chan[Source(p)][p] = <<>>,
                        Dest(p) = Source(p) \/ chan[Dest(p)][p] = <<>>
                 PROVE  FALSE
    OBVIOUS
  <1>5. Len(chan[Source(p)][p]) = 0
    BY <1>3, <1>4
  <1>6. CASE Dest(p) = Source(p)
    <2>1. Waiting(p) = Len(chan[Source(p)][p]) + 0
      BY <1>6 DEF Waiting
    <2> QED
      BY <1>2, <1>5, <2>1
  <1>7. CASE Dest(p) # Source(p)
    <2>1. Waiting(p) = Len(chan[Source(p)][p]) + Len(chan[Dest(p)][p])
      BY <1>7 DEF Waiting
    <2>2. Len(chan[Dest(p)][p]) = 0
      BY <1>3, <1>4, <1>7
    <2> QED
      BY <1>2, <1>5, <2>1, <2>2
  <1> QED
    BY <1>6, <1>7

\* Whoever acknowledges is behind the data.
LEMMA AckSent ==
  ASSUME ReplaceAssumption, Inv, NEW p \in Process, Dest(p) # Source(p)
  PROVE  /\ chan[Dest(p)][p] # <<>> => pc[Dest(p)] \notin BeforeAck /\ pc[p] \in BeforeData
         /\ pc[Dest(p)] \notin BeforeAck /\ pc[p] \in BeforeData => chan[Dest(p)][p] = <<Ack>>
  <1> PICK d \in Process : d = Dest(p)
    BY Parts
  <1>1. Back(d) /\ Source(d) = p /\ Dest(d) # Source(d)
    BY Parts
  <1> QED
    BY <1>1 DEF Back, AckOnWay

\* Before a process has acknowledged and the header is received, nothing comes from the
\* one before it: the data wait for the acknowledgement.
LEMMA DataNotSent ==
  ASSUME ReplaceAssumption, Inv, Balance, NEW p \in Process, pc[p] = "sendAck"
  PROVE  chan[Source(p)][p] = <<>>
  <1> PICK s \in Process : s = Source(p)
    BY Parts
  <1>1. Back(p) /\ Control(p) /\ Dest(s) = p /\ Counted(s) /\ Ended(s)
    BY Parts DEF Balance
  <1>2. pc[s] \in BeforeData
    BY <1>1 DEF Back, Control, BeforeAck
  <1>3. sptr[s] = 0 /\ ~HeadOnWay(s)
    BY <1>1, <1>2 DEF Ended, HeadOnWay, BeforeHead
  <1>4. PICK a \in Nat, r \in Nat, n \in Nat :
          a = Len(chan[s][p]) /\ r = rest[p] /\ n = Length /\ r <= n
    BY <1>1, CountersTyped
  <1>5. a + n = 0 + r + 0
    BY <1>1, <1>3, <1>4 DEF Counted, Headers
  <1>6. Len(chan[s][p]) = 0 /\ chan[s][p] \in Seq(Flit)
    BY <1>4, <1>5, Parts
  <1> QED
    BY <1>6, EmptySeq

\* Before the data a header or an acknowledgement can be sent, or finds a full receive
\* buffer; the owner of that can receive, or is kept out.
LEMMA HeadGoesOn ==
  ASSUME ReplaceAssumption, Inv, Balance, NEW p \in Process, pc[p] \in BeforeAck
  PROVE  \E x \in Process : GoesOn(x) \/ KeptOut(x)
  <1>1. ASSUME NEW x \in Process, pc[x] = "sendHead"
        PROVE  \E y \in Process : GoesOn(y) \/ KeptOut(y)
    <2> PICK d \in Process : d = Dest(x)
      BY Parts
    <2>1. chan[x][d] = <<>> /\ pc[d] \in BeforeHead /\ Source(d) = x /\ Forward(d)
      BY <1>1, Parts DEF Forward
    <2>2. CASE ~Cong(d)
      BY <1>1, <2>2 DEF GoesOn
    <2>3. CASE Cong(d)
      <3>1. Dest(d) # Source(d) /\ chan[Dest(d)][d] # <<>>
        BY <2>1, <2>3, FullHolds
      <3>2. pc[Dest(d)] \notin BeforeAck
        BY <3>1, AckSent
      <3>3. pc[d] = "recvHead"
        BY <2>1, <3>2 DEF Forward, BeforeAck, BeforeHead
      <3> QED
        BY <2>1, <2>3, <3>3 DEF KeptOut
    <2> QED
      BY <2>2, <2>3
  <1> PICK s \in Process : s = Source(p)
    BY Parts
  <1>2. Back(p) /\ Control(p) /\ Forward(s) /\ Dest(s) = p
    BY Parts
  <1>3. CASE pc[p] = "recvHead" /\ pc[s] # "sendHead"
    <2>1. chan[s][p] # <<>>
      BY <1>2, <1>3 DEF Forward, HeadOnWay, BeforeHead
    <2>2. GoesOn(p)
      BY <1>3, <2>1 DEF GoesOn
    <2> QED
      BY <2>2
  <1>4. CASE pc[p] = "sendAck" /\ ~Cong(s)
    BY <1>4 DEF GoesOn
  <1>5. CASE pc[p] = "sendAck" /\ Cong(s)
    <2>1. chan[p][s] = <<>> /\ pc[s] \in BeforeData
      BY <1>2, <1>5 DEF Back, Control, AckOnWay, BeforeAck
    <2>2. chan[Source(s)][s] # <<>>
      BY <1>2, <1>5, <2>1, FullHolds
    <2>3. CASE pc[s] = "sendHead"
      BY <1>1, <2>3
    <2>4. CASE pc[s] = "recvHead"
      BY <2>2, <2>4 DEF GoesOn
    <2>5. CASE pc[s] = "sendAck"
      BY <2>2, <2>5, DataNotSent
    <2>6. CASE pc[s] = "recvAck"
      BY <1>2, <1>5, <2>1, <2>6 DEF KeptOut
    <2> QED
      BY <2>1, <2>3, <2>4, <2>5, <2>6 DEF BeforeData, BeforeAck, BeforeHead
  <1> QED
    BY <1>1, <1>3, <1>4, <1>5 DEF BeforeAck, BeforeHead

LEMMA HandshakeGoesOn ==
  ASSUME ReplaceAssumption, Inv, Balance, NEW p \in Process, pc[p] \in BeforeData
  PROVE  \E x \in Process : GoesOn(x) \/ KeptOut(x)
  <1> PICK d \in Process : d = Dest(p)
    BY Parts
  <1>1. CASE pc[p] \in BeforeAck \/ pc[d] \in BeforeAck
    BY <1>1, HeadGoesOn
  <1>2. CASE pc[p] = "recvAck" /\ pc[d] \notin BeforeAck
    <2>1. Dest(p) # Source(p)
      BY <1>2, Parts DEF Control
    <2>2. chan[d][p] # <<>>
      BY <1>2, <2>1, AckSent DEF BeforeData, Ack
    <2>3. GoesOn(p)
      BY <1>2, <2>2 DEF GoesOn
    <2> QED
      BY <2>3
  <1> QED
    BY <1>1, <1>2 DEF BeforeData

\* With room for a message and an acknowledgement no flit is kept out: more than
\* a message does not come from the process before p, as long as it waits for the
\* acknowledgement, and nothing but that comes from the one after it.
LEMMA RoomForBoth ==
  ASSUME ReplaceAssumption, Inv, Balance, NEW p \in Process, KeptOut(p)
  PROVE  room <= Length
  <1> PICK s \in Process, d \in Process : s = Source(p) /\ d = Dest(p)
    BY Parts
  <1>1. /\ room \in Nat /\ room >= 1 /\ Length \in Nat /\ Length >= 1 /\ Len(<<>>) = 0
        /\ Dest(s) = p /\ Control(p) /\ Counted(s)
    <2>1. room \in Nat /\ room >= 1
      BY DEF Inv, TypeOK, ReplaceAssumption
    <2>2. Length \in Nat /\ Length >= 1
      BY DEF ReplaceAssumption
    <2>3. Len(<<>>) = 0
      BY EmptySeq
    <2>4. Dest(s) = p /\ Control(p) /\ Counted(s)
      BY Parts DEF Balance
    <2> QED
      BY <2>1, <2>2, <2>3, <2>4
  <1>2. CASE pc[p] = "recvHead" /\ chan[s][p] = <<>>
    <2>1. d # s /\ chan[d][p] # <<>>
      BY <1>2, FullHolds DEF KeptOut
    <2>2. chan[d][p] = <<Ack>>
      BY <2>1, AckSent
    <2>3. Len(<<Ack>>) = 1
      OBVIOUS
    <2>4. Waiting(p) = 1
      BY <1>1, <1>2, <2>1, <2>2, <2>3 DEF Waiting
    <2>5. 1 >= room
      BY <2>4 DEF KeptOut, Cong
    <2> QED
      BY <1>1, <2>5
  <1>3. CASE pc[p] = "recvAck" /\ chan[d][p] = <<>>
    <2>1. PICK a \in Nat, q \in Nat, r \in Nat, n \in Nat :
            /\ a = Len(chan[s][p]) /\ q = sptr[s] /\ r = rest[p] /\ n = Length
            /\ q <= n /\ r <= n
      BY <1>1, CountersTyped
    <2>2. ~HeadOnWay(s)
      BY <1>1, <1>3 DEF HeadOnWay, BeforeHead
    <2>3. a + n = q + r + 0
      BY <1>1, <2>1, <2>2 DEF Counted, Headers
    <2>4. Waiting(p) = a + 0
      BY <1>1, <1>3, <2>1 DEF Waiting, Control
    <2>5. a >= room /\ a <= n
      <3>1. a + 0 >= room
        BY <2>4 DEF KeptOut, Cong
      <3> QED
        BY <1>1, <2>1, <2>3, <3>1
    <2> QED
      BY <1>1, <2>1, <2>5
  <1> QED
    BY <1>2, <1>3 DEF KeptOut

\* Once nobody is before the data any more, all channels to Dest hold data only.
LEMMA DataOnly ==
  ASSUME ReplaceAssumption, Inv, Balance, NEW p \in Process,
         \A x \in Process : pc[x] \notin BeforeData
  PROVE  /\ Len(chan[p][Dest(p)]) + Length = sptr[p] + rest[Dest(p)]
         /\ Dest(p) \in Process
         /\ pc[p] \in {"send", "recv", "done"}
         /\ pc[p] = "done" => Dest(p) = p \/ (sptr[p] = Length /\ rest[p] = 0)
  <1>1. Counted(p) /\ Ended(p) /\ Dest(p) \in Process
    BY Parts DEF Balance
  <1>2. ~HeadOnWay(p)
    BY <1>1 DEF HeadOnWay, BeforeData, BeforeAck
  <1>3. Len(chan[p][Dest(p)]) + Length = sptr[p] + rest[Dest(p)]
    <2>1. PICK q \in Nat, r \in Nat : q = sptr[p] /\ r = rest[Dest(p)]
      BY CountersTyped
    <2>2. Len(chan[p][Dest(p)]) + Length = q + r + 0
      BY <1>1, <1>2, <2>1 DEF Counted, Headers
    <2> QED
      BY <2>1, <2>2
  <1>4. pc[p] \in Location
    BY DEF Inv, TypeOK
  <1>5. pc[p] \in {"send", "recv", "done"}
    BY <1>4 DEF Location, BeforeData, BeforeAck, BeforeHead
  <1> QED
    BY <1>1, <1>3, <1>5 DEF Ended

\* A process that cannot send waits for one that has sent less and cannot send
\* either: that one has received until its ring buffer was full.
LEMMA WaitsForSlower ==
  ASSUME ReplaceAssumption, Inv, Balance, NEW p \in Process,
         \A x \in Process : pc[x] \notin BeforeData /\ ~GoesOn(x),
         pc[p] \in {"send", "recv"}, sptr[p] < Length
  PROVE  /\ Dest(p) \in Process /\ pc[Dest(p)] \in {"send", "recv"}
         /\ sptr[Dest(p)] < Length /\ sptr[Dest(p)] < sptr[p]
  <1> PICK d \in Process : d = Dest(p)
    BY Parts
  <1>1. PICK a \in Nat, q \in Nat, r \in Nat, u \in Nat, m \in Nat, n \in Nat :
          /\ a = Len(chan[p][d]) /\ q = sptr[p] /\ r = rest[d] /\ u = sptr[d]
          /\ m = Len(ringbuf[d]) /\ n = Length /\ u <= n
    BY CountersTyped
  <1>2. a >= 1 /\ chan[p][d] # <<>>
    <2>1. Cong(d) /\ Source(d) = p
      BY Parts DEF GoesOn
    <2>2. chan[p][d] # <<>>
      BY <2>1, FullHolds, AckSent
    <2>3. chan[p][d] \in Seq(Flit)
      BY Parts
    <2>4. a # 0
      BY <1>1, <2>2, <2>3, EmptySeq
    <2> QED
      BY <1>1, <2>2, <2>4
  <1>3. a + n = q + r /\ q < n
    BY <1>1, DataOnly
  <1>4. r >= 2
    BY <1>2, <1>3
  <1>5. pc[d] \in {"send", "recv"}
    <2>1. Dest(d) # d
      <3>1. Dest(p) # p
        BY DEF Balance, Ended
      <3> QED
        BY <3>1, Parts
    <2>2. rest[d] # 0
      BY <1>1, <1>4
    <2> QED
      BY <2>1, <2>2, DataOnly
  <1>6. chan[Source(d)][d] # <<>>
    BY <1>2, Parts
  <1>7. u < n /\ ~Takes(d)
    <2>1. ~GoesOn(d)
      OBVIOUS
    <2>2. sptr[d] # Length
      BY <1>5, <1>6, <2>1 DEF GoesOn
    <2>3. sptr[d] < Length
      BY <1>1, <2>2
    <2> QED
      BY <1>1, <1>5, <2>1, <2>3 DEF GoesOn
  <1>8. WholeFlitLeft(d)
    BY <1>1, <1>4 DEF WholeFlitLeft
  <1>9. m >= 1 /\ ringbuf[d] # <<>>
    <2>1. MaxRingbuf \in Nat /\ MaxRingbuf >= 1
      BY DEF ReplaceAssumption
    <2>2. ~(m < MaxRingbuf)
      BY <1>1, <1>6, <1>7, <1>8 DEF Takes
    <2>3. m >= 1
      BY <2>1, <2>2
    <2> QED
      BY <1>1, <2>3, EmptySeq
  <1>10. u + m + r <= n
    BY <1>1, <1>9 DEF Balance, Ahead
  <1>11. u < q
    BY <1>2, <1>3, <1>9, <1>10
  <1> QED
    BY <1>1, <1>5, <1>7, <1>11

\* Thus the process that has sent the least of all that cannot send would wait for
\* one that has sent still less.
LEMMA NotEverybodyWaits ==
  ASSUME ReplaceAssumption, Inv, Balance
  PROVE  SomebodyGoesOn
  <1>1. SUFFICES ASSUME NEW p \in Process, pc[p] # "done", \A x \in Process : ~GoesOn(x),
                        ~SomebodyKeptOut
                 PROVE  FALSE
    BY DEF SomebodyGoesOn
  <1>2. \A x \in Process : pc[x] \notin BeforeData
    <2>1. \A x \in Process : ~KeptOut(x)
      BY <1>1, RoomForBoth DEF SomebodyKeptOut
    <2> QED
      BY <1>1, <2>1, HandshakeGoesOn
  <1> DEFINE W == {x \in Process : pc[x] \in {"send", "recv"} /\ sptr[x] < Length}
  <1>3. W # {}
    <2>1. CASE sptr[p] < Length
      BY <1>1, <1>2, <2>1, DataOnly
    <2>2. CASE ~(sptr[p] < Length)
      <3> PICK s \in Process : s = Source(p)
        BY Parts
      <3>1. pc[p] \in {"send", "recv"} /\ sptr[p] = Length
        BY <1>1, <1>2, <2>2, DataOnly, CountersTyped
      <3>2. rest[p] # 0 /\ chan[s][p] = <<>>
        BY <1>1, <3>1 DEF GoesOn
      <3>3. Dest(s) = p
        BY Parts
      <3>4. PICK q \in Nat, r \in Nat, n \in Nat : q = sptr[s] /\ r = rest[p] /\ n = Length
        BY CountersTyped
      <3>5. Len(chan[s][p]) + n = q + r
        BY <1>2, <3>3, <3>4, DataOnly
      <3>6. 0 + n = q + r /\ r # 0
        BY <3>2, <3>4, <3>5, EmptySeq
      <3>7. sptr[s] < Length
        BY <3>4, <3>6
      <3>8. pc[s] \in {"send", "recv"}
        <4>1. sptr[s] # Length
          BY SMTT(40), <3>4, <3>7
        <4>2. Dest(s) = s => s = p
          BY <3>3
        <4> QED
          BY <1>2, <3>1, <4>1, <4>2, DataOnly
      <3> QED
        BY <3>7, <3>8
    <2> QED
      BY <2>1, <2>2
  <1>4. PICK m \in W : \A x \in W : sptr[m] <= sptr[x]
    BY <1>3, LeastSent
  <1>5. Dest(m) \in W /\ sptr[Dest(m)] < sptr[m]
    BY <1>1, <1>2, WaitsForSlower
  <1>6. sptr[m] \in Nat /\ sptr[Dest(m)] \in Nat
    BY <1>5, CountersTyped
  <1> QED
    BY <1>4, <1>5, <1>6

\* In an exchange in place not all processes wait for one another, for all
\* permutations, lengths and sizes of the ring buffer, except when there is less
\* room than for a message and an acknowledgement and the one keeps the other out.
\* LoopSend and LoopRecv alternate, so that whoever cannot send still receives.
THEOREM NeverStuck ==
  ASSUME ReplaceAssumption
  PROVE  Spec => []SomebodyGoesOn
  <1>1. Init => Inv /\ Balance
    BY Initially, BalanceInitially
  <1>2. Inv /\ Balance /\ [Next]_vars => Inv' /\ Balance'
    BY StepKeeps, StutterKeeps, BalanceStep, BalanceStutters DEF Next
  <1>3. Inv /\ Balance => SomebodyGoesOn
    BY NotEverybodyWaits
  <1> QED
    BY <1>1, <1>2, <1>3, PTL DEF Spec

\* With room for a message and an acknowledgement no process is ever kept from the
\* flit that it waits for, and thus somebody can go on until all have returned: the
\* data that the process before it sends while it waits leave a place free.
THEOREM RoomSuffices ==
  ASSUME ReplaceAssumption
  PROVE  Spec => [](room > Length =>
                      /\ \A p \in Process : ~KeptOut(p)
                      /\ (\E p \in Process : pc[p] # "done") => \E p \in Process : GoesOn(p))
  <1>1. Init => Inv /\ Balance
    BY Initially, BalanceInitially
  <1>2. Inv /\ Balance /\ [Next]_vars => Inv' /\ Balance'
    BY StepKeeps, StutterKeeps, BalanceStep, BalanceStutters DEF Next
  <1>3. ASSUME Inv, Balance, room > Length
        PROVE  /\ \A p \in Process : ~KeptOut(p)
               /\ (\E p \in Process : pc[p] # "done") => \E p \in Process : GoesOn(p)
    <2>1. room \in Nat /\ Length \in Nat /\ ~(room <= Length)
      BY <1>3 DEF Inv, TypeOK, ReplaceAssumption
    <2> QED
      BY <1>3, <2>1, RoomForBoth, NotEverybodyWaits DEF SomebodyGoesOn, SomebodyKeptOut
  <1> QED
    BY <1>1, <1>2, <1>3, PTL DEF Spec
=============================================================================
