---------------------------- MODULE FlitFifoProofs ----------------------------
(***************************************************************************)
(* The ring buffer of flitfifo.h is a queue, for every buffer size (0      *)
(* included), every set of senders and every set of flits.                 *)
(***************************************************************************)
EXTENDS FlitFifo, SequenceTheorems, TLAPS

\* The slot of the k-th oldest flit, without the modulus.
LEMMA SlotIs ==
  ASSUME TypeOK, NEW k \in Nat, k < Size
  PROVE  /\ Slot(k) = IF first + k < Size THEN first + k ELSE first + k - Size
         /\ Slot(k) \in Index
  <1>1. Size \in Nat /\ first \in 0 .. Size - 1 /\ first + k \in 0 .. 2 * Size - 1
    BY SizeAssumption DEF TypeOK
  <1>2. (first + k) % Size = IF first + k < Size THEN first + k ELSE first + k - Size
    BY <1>1
  <1> QED
    BY <1>1, <1>2 DEF Slot, Index

\* flitfifo_t stays in range (the invariant TypeOK of the run).
THEOREM TypeCorrect == Spec => []TypeOK
  <1>1. Init => TypeOK
    BY SizeAssumption DEF Init, TypeOK, Failed, Result
  <1>2. TypeOK /\ [Next]_vars => TypeOK'
    <2> SUFFICES ASSUME TypeOK, [Next]_vars PROVE TypeOK'
      OBVIOUS
    <2> USE SizeAssumption
    <2>1. ASSUME NEW fc \in Entry, Insert(fc) PROVE TypeOK'
      <3>1. CASE count >= Size
        <4>1. UNCHANGED <<buf, first, count>> /\ ret' = Failed
          BY <2>1, <3>1 DEF Insert
        <4> QED
          BY <4>1 DEF TypeOK, Failed, Result
      <3>2. CASE ~(count >= Size)
        <4>1. Slot(count) \in Index
          BY <3>2, SlotIs DEF TypeOK
        <4>2. /\ buf' = [buf EXCEPT ![Slot(count)] = fc]
              /\ count' = count + 1
              /\ ret' = Result(TRUE, Nothing)
              /\ first' = first
          BY <2>1, <3>2 DEF Insert
        <4>3. buf' \in [Index -> Entry]
          BY <4>1, <4>2 DEF TypeOK
        <4> QED
          BY <3>2, <4>2, <4>3 DEF TypeOK, Result
      <3> QED
        BY <3>1, <3>2
    <2>2. CASE Remove
      <3>1. CASE count = 0
        <4>1. UNCHANGED <<buf, first, count>> /\ ret' = Failed
          BY <2>2, <3>1 DEF Remove
        <4> QED
          BY <4>1 DEF TypeOK, Failed, Result
      <3>2. CASE count # 0
        <4>1. /\ buf' = buf
              /\ count' = count - 1
              /\ first' = After(first)
              /\ ret' = Result(TRUE, buf[first])
          BY <2>2, <3>2 DEF Remove
        <4>2. count - 1 \in 0 .. Size /\ buf[first] \in Entry
          BY <3>2 DEF TypeOK, Index
        <4>3. After(first) \in Nat /\ (After(first) < Size \/ After(first) = 0)
          BY <3>2 DEF TypeOK, After
        <4> QED
          BY <4>1, <4>2, <4>3 DEF TypeOK, Result
      <3> QED
        BY <3>1, <3>2
    <2>3. ASSUME NEW src \in Rank, RemoveByRank(src) PROVE TypeOK'
      <3>1. ASSUME NEW k \in 0 .. count - 1, Found(src, k),
                   IF Slot(k) >= first
                   THEN buf' = MovedUp(Slot(k)) /\ first' = After(first)
                   ELSE buf' = MovedDown(Slot(k), count - k) /\ UNCHANGED first,
                   count' = count - 1,
                   ret' = Result(TRUE, buf[Slot(k)])
            PROVE TypeOK'
        <4>1. Slot(k) \in Index
          BY SlotIs DEF TypeOK
        <4>2. buf' \in [Index -> Entry]
          <5>1. CASE Slot(k) >= first
            <6>1. buf' = MovedUp(Slot(k))
              BY <3>1, <5>1
            <6>2. first \in Nat
              BY DEF TypeOK
            <6>3. \A j \in Index : j \in first + 1 .. Slot(k) => j - 1 \in Index
              BY <6>2 DEF Index
            <6> QED
              BY <6>1, <6>3 DEF MovedUp, TypeOK
          <5>2. CASE ~(Slot(k) >= first)
            <6>1. buf' = MovedDown(Slot(k), count - k)
              BY <3>1, <5>2
            <6>2. Slot(k) + (count - k) <= Size
              BY <5>2, SlotIs DEF TypeOK
            <6>3. \A j \in Index :
                    Slot(k) <= j /\ j + 1 < Slot(k) + (count - k) => j + 1 \in Index
              BY <4>1, <6>2 DEF Index, TypeOK
            <6> QED
              BY <6>1, <6>3 DEF MovedDown, TypeOK
          <5> QED
            BY <5>1, <5>2
        <4>3. first' \in Nat /\ (first' < Size \/ first' = 0)
          BY <3>1 DEF TypeOK, After
        <4> QED
          BY <3>1, <4>1, <4>2, <4>3 DEF TypeOK, Result
      <3>2. CASE Absent(src) /\ ret' = Failed /\ UNCHANGED <<buf, first, count>>
        BY <3>2 DEF TypeOK, Failed, Result
      <3> QED
        BY <2>3, <3>1, <3>2 DEF RemoveByRank
    <2>4. ASSUME NEW src \in Rank, FindRank(src) PROVE TypeOK'
      BY <2>4 DEF TypeOK, FindRank, Result
    <2>5. CASE FirstRank
      BY <2>5 DEF TypeOK, FirstRank, Failed, Result, Index, Entry
    <2>6. CASE UNCHANGED vars
      BY <2>6 DEF TypeOK, vars
    <2> QED
      BY <2>1, <2>2, <2>3, <2>4, <2>5, <2>6 DEF Next
  <1> QED
    BY <1>1, <1>2, PTL DEF Spec

-----------------------------------------------------------------------------
\* The refinement.  Each operation of the ring buffer is the operation of the
\* queue on the contents, read from first on and around the end of buf.

\* The contents of the ring buffer are a sequence of count flits.
LEMMA ContentsIsSeq ==
  ASSUME TypeOK
  PROVE  Contents \in Seq(Entry) /\ Len(Contents) = count
  <1>1. \A k \in 1 .. count : buf[Slot(k - 1)] \in Entry
    <2> SUFFICES ASSUME NEW k \in 1 .. count PROVE buf[Slot(k - 1)] \in Entry
      OBVIOUS
    <2>1. k - 1 \in Nat /\ k - 1 < Size
      BY SizeAssumption DEF TypeOK
    <2> QED
      BY <2>1, SlotIs DEF TypeOK
  <1> QED
    BY <1>1 DEF Contents, TypeOK

\* Append, entry by entry.
LEMMA AppendIs ==
  ASSUME NEW S, NEW s \in Seq(S), NEW e \in S
  PROVE  Append(s, e) = [k \in 1 .. Len(s) + 1 |-> IF k <= Len(s) THEN s[k] ELSE e]
  <1> DEFINE t == [k \in 1 .. Len(s) + 1 |-> IF k <= Len(s) THEN s[k] ELSE e]
  <1>1. Len(s) \in Nat /\ \A k \in 1 .. Len(s) + 1 : t[k] \in S
    BY ElementOfSeq, LenProperties
  <1>2. t \in Seq(S) /\ Len(t) = Len(s) + 1
    BY <1>1
  <1>3. Append(s, e) \in Seq(S) /\ Len(Append(s, e)) = Len(s) + 1
    OBVIOUS
  <1>4. \A k \in 1 .. Len(s) + 1 : Append(s, e)[k] = t[k]
    BY <1>1
  <1> HIDE DEF t
  <1>5. Append(s, e) = t
    BY <1>1, <1>2, <1>3, <1>4, SeqEqual
  <1> QED
    BY <1>5 DEF t

\* flitfifo_insert puts its flit behind all others, or refuses when buf is full.
LEMMA InsertAppends ==
  ASSUME TypeOK, NEW fc \in Entry, Insert(fc)
  PROVE  Queue!Insert(fc)
  <1>1. CASE count >= Size
    <2>1. UNCHANGED <<buf, first, count>> /\ ret' = Failed
      BY <1>1 DEF Insert
    <2>2. Contents' = Contents
      BY <2>1 DEF Contents, Slot
    <2> QED
      BY <1>1, <2>1, <2>2, ContentsIsSeq, SizeAssumption
      DEF Queue!Insert, Queue!Result, Failed, Result, TypeOK
  <1>2. CASE ~(count >= Size)
    <2>1. /\ buf' = [buf EXCEPT ![Slot(count)] = fc]
          /\ count' = count + 1
          /\ ret' = Result(TRUE, Nothing)
          /\ first' = first
      BY <1>2 DEF Insert
    <2>2. Slot(count) \in Index
      BY <1>2, SlotIs, SizeAssumption DEF TypeOK
    <2>3. \A k \in 0 .. count - 1 : Slot(k) # Slot(count)
      BY <1>2, SlotIs, SizeAssumption DEF TypeOK
    <2>4. Contents' = Append(Contents, fc)
      <3>1. Contents' = [k \in 1 .. count + 1 |-> buf'[Slot(k - 1)]]
        BY <2>1 DEF Contents, Slot
      <3>2. buf'[Slot(count)] = fc
        BY <2>1, <2>2 DEF TypeOK
      <3>3. \A k \in 1 .. count : buf'[Slot(k - 1)] = buf[Slot(k - 1)]
        <4> SUFFICES ASSUME NEW k \in 1 .. count
                     PROVE  buf'[Slot(k - 1)] = buf[Slot(k - 1)]
          OBVIOUS
        <4>1. k - 1 \in 0 .. count - 1 /\ k - 1 \in Nat /\ k - 1 < Size
          BY SizeAssumption DEF TypeOK
        <4>2. Slot(k - 1) \in Index /\ Slot(k - 1) # Slot(count)
          BY <4>1, <2>3, SlotIs
        <4> QED
          BY <2>1, <4>2 DEF TypeOK
      <3>4. count \in Nat /\ Contents \in Seq(Entry) /\ Len(Contents) = count
        BY ContentsIsSeq DEF TypeOK
      <3>5. \A k \in 1 .. count : Contents[k] = buf[Slot(k - 1)]
        BY DEF Contents
      <3>6. ASSUME NEW k \in 1 .. count + 1
            PROVE  buf'[Slot(k - 1)] = IF k <= count THEN Contents[k] ELSE fc
        <4>1. CASE k <= count
          BY <3>3, <3>4, <3>5, <4>1
        <4>2. CASE ~(k <= count)
          <5>1. k - 1 = count
            BY <3>4, <4>2
          <5> QED
            BY <3>2, <4>2, <5>1
        <4> QED
          BY <4>1, <4>2
      <3>7. Contents' = [k \in 1 .. count + 1 |-> IF k <= count THEN Contents[k] ELSE fc]
        BY <3>1, <3>6
      <3> QED
        BY <3>4, <3>7, AppendIs
    <2> QED
      BY <1>2, <2>1, <2>4, ContentsIsSeq, SizeAssumption
      DEF Queue!Insert, Queue!Result, Result, TypeOK
  <1> QED
    BY <1>1, <1>2

\* flitfifo_remove gives up the oldest flit.
LEMMA RemoveTakesHead ==
  ASSUME TypeOK, Remove
  PROVE  Queue!Remove
  <1>1. CASE count = 0
    <2>1. UNCHANGED <<buf, first, count>> /\ ret' = Failed
      BY <1>1 DEF Remove
    <2>2. Contents' = Contents
      BY <2>1 DEF Contents, Slot
    <2>3. Contents = <<>>
      BY <1>1, ContentsIsSeq
    <2> QED
      BY <2>1, <2>2, <2>3 DEF Queue!Remove, Queue!Result, Failed, Result
  <1>2. CASE count # 0
    <2>1. /\ buf' = buf
          /\ count' = count - 1
          /\ first' = After(first)
          /\ ret' = Result(TRUE, buf[first])
      BY <1>2 DEF Remove
    <2>2. first \in 0 .. Size - 1 /\ count \in 1 .. Size
      BY <1>2, SizeAssumption DEF TypeOK
    <2>3. \A k \in 0 .. count - 2 : (first' + k) % Size = Slot(k + 1)
      BY <2>1, <2>2, SizeAssumption DEF After, Slot
    <2>4. Contents' = Tail(Contents)
      BY <2>1, <2>2, <2>3, ContentsIsSeq DEF Contents, Slot
    <2>5. Contents # <<>> /\ Head(Contents) = buf[first]
      <3>1. Slot(0) = first
        BY <2>2, SlotIs, SizeAssumption
      <3>2. Contents[1] = buf[Slot(0)]
        BY <2>2 DEF Contents
      <3> QED
        BY <2>2, <3>1, <3>2, ContentsIsSeq
    <2> QED
      BY <2>1, <2>4, <2>5 DEF Queue!Remove, Queue!Result, Result
  <1> QED
    BY <1>1, <1>2

\* The entry found at offset k of the contents is at position k + 1 of the queue.
LEMMA FoundIsOldest ==
  ASSUME TypeOK, NEW src \in Rank, NEW k \in 0 .. count - 1, Found(src, k)
  PROVE  /\ k + 1 \in 1 .. Len(Contents)
         /\ Queue!Oldest(src, k + 1)
         /\ Contents[k + 1] = buf[Slot(k)]
  <1>1. count \in Nat /\ Len(Contents) = count
    BY ContentsIsSeq, SizeAssumption DEF TypeOK
  <1>2. \A j \in 1 .. count : Contents[j] = buf[Slot(j - 1)]
    BY DEF Contents
  <1>3. (k + 1) - 1 = k /\ k + 1 \in 1 .. count
    BY <1>1
  <1>4. Contents[k + 1] = buf[Slot(k)]
    BY <1>2, <1>3
  <1>5. k + 1 \in Queue!From(src)
    BY <1>1, <1>3, <1>4 DEF Found, Queue!From
  <1>6. ASSUME NEW j \in Queue!From(src), j < k + 1 PROVE FALSE
    <2>1. j \in 1 .. count /\ Contents[j].src = src
      BY <1>1 DEF Queue!From
    <2>2. j - 1 \in 0 .. k - 1 /\ buf[Slot(j - 1)].src = src
      BY <1>1, <1>2, <1>6, <2>1
    <2> QED
      BY <2>2 DEF Found
  <1>7. \A j \in Queue!From(src) : k + 1 <= j
    BY <1>1, <1>6 DEF Queue!From
  <1> QED
    BY <1>1, <1>3, <1>4, <1>5, <1>7 DEF Queue!Oldest

\* The search gives up exactly when the queue holds no flit of src.
LEMMA AbsentIsEmpty ==
  ASSUME TypeOK, NEW src \in Rank
  PROVE  Absent(src) <=> Queue!From(src) = {}
  <1>1. count \in Nat /\ Len(Contents) = count
    BY ContentsIsSeq, SizeAssumption DEF TypeOK
  <1>2. \A j \in 1 .. count : Contents[j] = buf[Slot(j - 1)]
    BY DEF Contents
  <1>3. ASSUME Absent(src) PROVE Queue!From(src) = {}
    <2> SUFFICES ASSUME NEW j \in 1 .. count, Contents[j].src = src PROVE FALSE
      BY <1>1 DEF Queue!From
    <2>1. j - 1 \in 0 .. count - 1
      BY <1>1
    <2> QED
      BY <1>2, <1>3, <2>1 DEF Absent
  <1>4. ASSUME Queue!From(src) = {} PROVE Absent(src)
    <2> SUFFICES ASSUME NEW k \in 0 .. count - 1, buf[Slot(k)].src = src PROVE FALSE
      BY DEF Absent
    <2>1. k + 1 \in 1 .. count /\ (k + 1) - 1 = k
      BY <1>1
    <2>2. Contents[k + 1].src = src
      BY <1>2, <2>1
    <2> QED
      BY <1>1, <1>4, <2>1, <2>2 DEF Queue!From
  <1> QED
    BY <1>3, <1>4

\* After the memmove the flit at offset m is the one that was there before, or
\* the next one from the removed entry on.
LEMMA MovedContents ==
  ASSUME TypeOK, NEW src \in Rank, NEW k \in 0 .. count - 1,
         IF Slot(k) >= first
         THEN buf' = MovedUp(Slot(k)) /\ first' = After(first)
         ELSE buf' = MovedDown(Slot(k), count - k) /\ UNCHANGED first,
         NEW m \in 0 .. count - 2
  PROVE  buf'[(first' + m) % Size] = buf[Slot(IF m < k THEN m ELSE m + 1)]
  <1>1. /\ Size \in Nat /\ count \in 1 .. Size /\ first \in 0 .. Size - 1
        /\ k \in Nat /\ k < Size /\ m \in Nat /\ m + 1 \in Nat /\ m + 1 < Size /\ m < Size
    BY SizeAssumption DEF TypeOK
  <1>2. /\ Slot(k) = IF first + k < Size THEN first + k ELSE first + k - Size
        /\ Slot(m) = IF first + m < Size THEN first + m ELSE first + m - Size
        /\ Slot(m + 1) = IF first + (m + 1) < Size THEN first + (m + 1)
                         ELSE first + (m + 1) - Size
    BY <1>1, SlotIs
  <1>3. Slot(m) \in Index /\ Slot(m + 1) \in Index
    BY <1>1, SlotIs
  <1>4. CASE Slot(k) >= first
    <2>1. buf' = MovedUp(Slot(k)) /\ first' = After(first)
      BY <1>4
    <2>2. Slot(k) = first + k
      BY <1>1, <1>2, <1>4
    <2>3. (first' + m) % Size = Slot(m + 1)
      BY <1>1, <2>1 DEF After, Slot
    <2>4. CASE m < k
      <3>1. Slot(m + 1) \in first + 1 .. Slot(k) /\ Slot(m + 1) - 1 = Slot(m)
        BY <1>1, <1>2, <2>2, <2>4
      <3> QED
        BY <1>3, <2>1, <2>3, <2>4, <3>1 DEF MovedUp
    <2>5. CASE ~(m < k)
      <3>1. Slot(m + 1) \notin first + 1 .. Slot(k)
        BY <1>1, <1>2, <2>2, <2>5
      <3> QED
        BY <1>3, <2>1, <2>3, <2>5, <3>1 DEF MovedUp
    <2> QED
      BY <2>4, <2>5
  <1>5. CASE ~(Slot(k) >= first)
    <2>1. buf' = MovedDown(Slot(k), count - k) /\ first' = first
      BY <1>5
    <2>2. Slot(k) = first + k - Size /\ first + k >= Size
      BY <1>1, <1>2, <1>5
    <2>3. (first' + m) % Size = Slot(m)
      BY <2>1 DEF Slot
    <2>4. CASE m < k
      <3>1. ~(Slot(k) <= Slot(m) /\ Slot(m) + 1 < Slot(k) + (count - k))
        BY <1>1, <1>2, <2>2, <2>4
      <3> QED
        BY <1>3, <2>1, <2>3, <2>4, <3>1 DEF MovedDown
    <2>5. CASE ~(m < k)
      <3>1. /\ Slot(k) <= Slot(m) /\ Slot(m) + 1 < Slot(k) + (count - k)
            /\ Slot(m) + 1 = Slot(m + 1)
        BY <1>1, <1>2, <2>2, <2>5
      <3> QED
        BY <1>3, <2>1, <2>3, <2>5, <3>1 DEF MovedDown
    <2> QED
      BY <2>4, <2>5
  <1> QED
    BY <1>4, <1>5

\* flitfifo_remove_by_rank gives up the oldest flit of the sender, whichever of
\* its two memmoves closes the gap.
LEMMA RemoveByRankTakesOldest ==
  ASSUME TypeOK, NEW src \in Rank, RemoveByRank(src)
  PROVE  Queue!RemoveByRank(src)
  <1>1. ASSUME NEW k \in 0 .. count - 1, Found(src, k),
               IF Slot(k) >= first
               THEN buf' = MovedUp(Slot(k)) /\ first' = After(first)
               ELSE buf' = MovedDown(Slot(k), count - k) /\ UNCHANGED first,
               count' = count - 1,
               ret' = Result(TRUE, buf[Slot(k)])
        PROVE  Queue!RemoveByRank(src)
    <2>1. /\ k + 1 \in 1 .. Len(Contents)
          /\ Queue!Oldest(src, k + 1)
          /\ Contents[k + 1] = buf[Slot(k)]
      BY <1>1, FoundIsOldest
    <2>2. count \in Nat /\ Len(Contents) = count
      BY ContentsIsSeq, SizeAssumption DEF TypeOK
    <2>3. Contents' = [j \in 1 .. count - 1 |-> buf'[(first' + (j - 1)) % Size]]
      BY <1>1 DEF Contents, Slot
    <2>4. ASSUME NEW j \in 1 .. count - 1
          PROVE  buf'[(first' + (j - 1)) % Size]
                   = IF j < k + 1 THEN Contents[j] ELSE Contents[j + 1]
      <3>1. j - 1 \in 0 .. count - 2
        BY <2>2
      <3>2. buf'[(first' + (j - 1)) % Size]
              = buf[Slot(IF j - 1 < k THEN j - 1 ELSE (j - 1) + 1)]
        BY <1>1, <3>1, MovedContents
      <3>3. \A i \in 1 .. count : Contents[i] = buf[Slot(i - 1)]
        BY DEF Contents
      <3>4. CASE j < k + 1
        BY <2>2, <3>2, <3>3, <3>4
      <3>5. CASE ~(j < k + 1)
        <4>1. (j - 1) + 1 = (j + 1) - 1 /\ ~(j - 1 < k) /\ j + 1 \in 1 .. count
          BY <2>2, <3>5
        <4> QED
          BY <3>2, <3>3, <3>5, <4>1
      <3> QED
        BY <3>4, <3>5
    <2>5. Contents' = Queue!Without(Contents, k + 1)
      BY <2>2, <2>3, <2>4 DEF Queue!Without
    <2>6. ret' = Queue!Result(TRUE, Contents[k + 1])
      BY <1>1, <2>1 DEF Result, Queue!Result
    <2> QED
      BY <2>1, <2>5, <2>6 DEF Queue!RemoveByRank
  <1>2. CASE Absent(src) /\ ret' = Failed /\ UNCHANGED <<buf, first, count>>
    <2>1. Contents' = Contents
      BY <1>2 DEF Contents, Slot
    <2> QED
      BY <1>2, <2>1, AbsentIsEmpty DEF Queue!RemoveByRank, Queue!Result, Failed, Result
  <1> QED
    BY <1>1, <1>2 DEF RemoveByRank

\* flitfifo_find_rank tells whether a flit of the sender is in the buffer.
LEMMA FindRankAnswers ==
  ASSUME TypeOK, NEW src \in Rank, FindRank(src)
  PROVE  Queue!FindRank(src)
  <1>1. Contents' = Contents
    BY DEF FindRank, Contents, Slot
  <1> QED
    BY <1>1, AbsentIsEmpty DEF FindRank, Queue!FindRank, Result, Queue!Result

\* flitfifo_first_rank tells the sender of the oldest flit.
LEMMA FirstRankAnswers ==
  ASSUME TypeOK, FirstRank
  PROVE  Queue!FirstRank
  <1>1. Contents' = Contents
    BY DEF FirstRank, Contents, Slot
  <1>2. count \in Nat /\ Len(Contents) = count /\ Contents \in Seq(Entry)
    BY ContentsIsSeq, SizeAssumption DEF TypeOK
  <1>3. CASE count = 0
    <2>1. Contents = <<>>
      BY <1>2, <1>3
    <2> QED
      BY <1>1, <1>3, <2>1
      DEF FirstRank, Queue!FirstRank, Failed, Result, Queue!Result
  <1>4. CASE count # 0
    <2>1. Contents # <<>>
      BY <1>2, <1>4
    <2>2. Slot(0) = first
      BY <1>2, <1>4, SlotIs, SizeAssumption DEF TypeOK
    <2>3. Contents[1] = buf[Slot(0)]
      BY <1>2, <1>4 DEF Contents
    <2> QED
      BY <1>1, <1>4, <2>1, <2>2, <2>3 DEF FirstRank, Queue!FirstRank, Result, Queue!Result
  <1> QED
    BY <1>3, <1>4

\* The ring buffer implements the queue (the property QueueSpec of the run):
\* flitfifo_insert, _remove, _remove_by_rank, _find_rank and _first_rank answer
\* what a bounded queue would, for every sequence of calls.
THEOREM FifoIsQueue == Spec => QueueSpec
  <1>1. Init => Queue!Init
    BY DEF Init, Queue!Init, Contents, Failed, Result, Queue!Result
  <1>2. TypeOK /\ [Next]_vars => [Queue!Next]_(Queue!vars)
    <2> SUFFICES ASSUME TypeOK, [Next]_vars PROVE [Queue!Next]_(Queue!vars)
      OBVIOUS
    <2>1. ASSUME NEW fc \in Entry, Insert(fc) PROVE Queue!Next
      BY <2>1, InsertAppends DEF Queue!Next, Queue!Entry, Entry
    <2>2. CASE Remove
      BY <2>2, RemoveTakesHead DEF Queue!Next
    <2>3. ASSUME NEW src \in Rank, RemoveByRank(src) PROVE Queue!Next
      BY <2>3, RemoveByRankTakesOldest DEF Queue!Next
    <2>4. ASSUME NEW src \in Rank, FindRank(src) PROVE Queue!Next
      BY <2>4, FindRankAnswers DEF Queue!Next
    <2>5. CASE FirstRank
      BY <2>5, FirstRankAnswers DEF Queue!Next
    <2>6. CASE UNCHANGED vars
      BY <2>6 DEF vars, Queue!vars, Contents, Slot
    <2> QED
      BY <2>1, <2>2, <2>3, <2>4, <2>5, <2>6 DEF Next
  <1> QED
    BY <1>1, <1>2, TypeCorrect, PTL DEF Spec, QueueSpec, Queue!Spec
=============================================================================
