-------------------------- MODULE NocInterfaceProofs --------------------------
(***************************************************************************)
(* The abstract networks keep the promise of Noc, for every torus, every   *)
(* latency, every size of the queues and every number of flits: the flits  *)
(* of one sender to one receiver come out complete, once and in order.     *)
(*                                                                         *)
(* The flits to one receiver form a line of queues: queue 0 is what can be *)
(* received, higher queues are closer to the senders.  The line carries a  *)
(* sender's flits lo + 1 to hi when each of them is in it, in this order.  *)
(* The first part is about lines of any length, the second one gives each  *)
(* network its line.                                                       *)
(***************************************************************************)
EXTENDS NocInterface, SequenceTheorems, WellFoundedInduction, TLAPS

\* Place j of queue r is behind place i of queue p.
Behind(p, i, r, j) == p < r \/ (p = r /\ i < j)

IsLine(L, K) ==
  \A p \in 0 .. K : Len(L[p]) \in Nat /\ \A i \in 1 .. Len(L[p]) : L[p][i].seq \in Nat

Carries(L, K, s, lo, hi) ==
  /\ \A p \in 0 .. K : \A i \in 1 .. Len(L[p]) :
       L[p][i].src = s => lo < L[p][i].seq /\ L[p][i].seq <= hi
  /\ \A p, r \in 0 .. K : \A i \in 1 .. Len(L[p]), j \in 1 .. Len(L[r]) :
       L[p][i].src = s /\ L[r][j].src = s /\ Behind(p, i, r, j) => L[p][i].seq < L[r][j].seq
  /\ \A k \in lo + 1 .. hi : \E p \in 0 .. K : \E i \in 1 .. Len(L[p]) :
       L[p][i].src = s /\ L[p][i].seq = k

\* The queue v is the queue q with e behind it, and without its place k.
IsAppended(v, q, e) ==
  /\ Len(v) = Len(q) + 1
  /\ \A i \in 1 .. Len(q) : v[i] = q[i]
  /\ v[Len(q) + 1].src = e.src /\ v[Len(q) + 1].seq = e.seq
IsWithout(v, q, k) ==
  /\ k \in 1 .. Len(q) /\ Len(v) = Len(q) - 1
  /\ \A i \in 1 .. Len(q) - 1 :
       /\ i < k => v[i].src = q[i].src /\ v[i].seq = q[i].seq
       /\ i >= k => v[i].src = q[i + 1].src /\ v[i].seq = q[i + 1].seq

\* The line V is the line L after all queues have moved up, queue 1 to the end
\* of queue 0.
IsShifted(V, L, K) ==
  /\ Len(V[0]) = Len(L[0]) + Len(L[1])
  /\ \A i \in 1 .. Len(L[0]) : V[0][i] = L[0][i]
  /\ \A i \in 1 .. Len(L[1]) : V[0][Len(L[0]) + i] = L[1][i]
  /\ \A p \in 1 .. K - 1 : V[p] = L[p + 1]
  /\ Len(V[K]) = 0

\* A line without flits carries none.
LEMMA EmptyCarries ==
  ASSUME NEW K \in Nat, NEW L, NEW s, \A p \in 0 .. K : L[p] = <<>>
  PROVE  IsLine(L, K) /\ Carries(L, K, s, 0, 0)
  <1>1. \A p \in 0 .. K : Len(L[p]) = 0
    OBVIOUS
  <1> QED
    BY <1>1 DEF IsLine, Carries

\* Only the contents of the queues matter, and only the senders and the numbers
\* of the flits.
LEMMA SameCarries ==
  ASSUME NEW K \in Nat, NEW L, NEW V, NEW s, NEW lo, NEW hi,
         Carries(L, K, s, lo, hi), \A p \in 0 .. K : V[p] = L[p]
  PROVE  Carries(V, K, s, lo, hi)
  BY SMTT(40) DEF Carries

LEMMA SameFlitsCarries ==
  ASSUME NEW K \in Nat, NEW L, NEW V, NEW s, NEW lo, NEW hi,
         Carries(L, K, s, lo, hi),
         \A p \in 0 .. K : Len(V[p]) = Len(L[p]),
         \A p \in 0 .. K : \A i \in 1 .. Len(L[p]) :
           V[p][i].src = L[p][i].src /\ V[p][i].seq = L[p][i].seq
  PROVE  Carries(V, K, s, lo, hi)
  <1>1. ASSUME NEW p \in 0 .. K, NEW i \in 1 .. Len(V[p]), V[p][i].src = s
        PROVE  lo < V[p][i].seq /\ V[p][i].seq <= hi
    BY ZenonT(60), <1>1 DEF Carries
  <1>2. ASSUME NEW p \in 0 .. K, NEW r \in 0 .. K,
               NEW i \in 1 .. Len(V[p]), NEW j \in 1 .. Len(V[r]),
               V[p][i].src = s, V[r][j].src = s, Behind(p, i, r, j)
        PROVE  V[p][i].seq < V[r][j].seq
    <2>1. i \in 1 .. Len(L[p]) /\ j \in 1 .. Len(L[r])
      OBVIOUS
    <2>2. L[p][i].src = s /\ L[r][j].src = s
      BY <1>2, <2>1
    <2>3. L[p][i].seq < L[r][j].seq
      BY <1>2, <2>1, <2>2 DEF Carries
    <2> QED
      BY <2>1, <2>3
  <1>3. ASSUME NEW k \in lo + 1 .. hi
        PROVE  \E p \in 0 .. K : \E i \in 1 .. Len(V[p]) : V[p][i].src = s /\ V[p][i].seq = k
    <2>1. PICK p \in 0 .. K : \E i \in 1 .. Len(L[p]) : L[p][i].src = s /\ L[p][i].seq = k
      BY DEF Carries
    <2>2. PICK i \in 1 .. Len(L[p]) : L[p][i].src = s /\ L[p][i].seq = k
      BY <2>1
    <2>3. i \in 1 .. Len(V[p]) /\ V[p][i].src = s /\ V[p][i].seq = k
      BY <2>2
    <2> QED
      BY <2>3
  <1> QED
    BY <1>1, <1>2, <1>3 DEF Carries

\* A flit that is sent joins the line at its end, with the next number.
LEMMA SentCarries ==
  ASSUME NEW K \in Nat, NEW L, NEW V, NEW s, NEW e, NEW lo \in Nat, NEW hi \in Nat, lo <= hi,
         IsLine(L, K), Carries(L, K, s, lo, hi),
         \A p \in 0 .. K - 1 : V[p] = L[p], IsAppended(V[K], L[K], e),
         e.src = s => e.seq = hi + 1
  PROVE  Carries(V, K, s, lo, IF e.src = s THEN hi + 1 ELSE hi)
  <1> DEFINE top == IF e.src = s THEN hi + 1 ELSE hi
             last == Len(L[K]) + 1
             Old(p, i) == p \in 0 .. K /\ i \in 1 .. Len(L[p])
             Flit(p, i) == p \in 0 .. K /\ i \in 1 .. Len(V[p])
  <1>1. Len(L[K]) \in Nat /\ Len(V[K]) = last
    BY DEF IsLine, IsAppended
  <1>2. ASSUME NEW p, NEW i, Flit(p, i)
        PROVE  \/ Old(p, i) /\ V[p][i] = L[p][i]
               \/ p = K /\ i = last /\ V[p][i].src = e.src /\ V[p][i].seq = e.seq
    <2>1. CASE p = K
      BY <1>1, <1>2, <2>1 DEF IsAppended
    <2>2. CASE p # K
      BY <1>2, <2>2
    <2> QED
      BY <2>1, <2>2
  <1>3. ASSUME NEW p, NEW i, Old(p, i)
        PROVE  Flit(p, i) /\ V[p][i] = L[p][i]
    <2>1. CASE p = K
      BY <1>1, <1>3, <2>1 DEF IsAppended
    <2>2. CASE p # K
      BY <1>3, <2>2
    <2> QED
      BY <2>1, <2>2
  <1>4. Flit(K, last) /\ V[K][last].src = e.src /\ V[K][last].seq = e.seq
    BY <1>1 DEF IsAppended
  <1>5. \A p, i : Old(p, i) /\ L[p][i].src = s => lo < L[p][i].seq /\ L[p][i].seq <= hi
    BY DEF Carries
  <1>6. \A p, i : Old(p, i) => L[p][i].seq \in Nat /\ i \in Nat
    BY DEF IsLine
  <1>7. ASSUME NEW p \in 0 .. K, NEW i \in 1 .. Len(V[p]), V[p][i].src = s
        PROVE  lo < V[p][i].seq /\ V[p][i].seq <= top
    <2>1. CASE Old(p, i) /\ V[p][i] = L[p][i]
      BY <1>5, <1>6, <1>7, <2>1
    <2>2. CASE p = K /\ i = last /\ V[p][i].src = e.src /\ V[p][i].seq = e.seq
      BY <1>7, <2>2
    <2> QED
      BY <1>2, <2>1, <2>2
  <1>8. ASSUME NEW p \in 0 .. K, NEW r \in 0 .. K,
               NEW i \in 1 .. Len(V[p]), NEW j \in 1 .. Len(V[r]),
               V[p][i].src = s, V[r][j].src = s, Behind(p, i, r, j)
        PROVE  V[p][i].seq < V[r][j].seq
    <2>1. CASE Old(p, i) /\ V[p][i] = L[p][i]
      <3>1. CASE Old(r, j) /\ V[r][j] = L[r][j]
        BY <1>8, <2>1, <3>1 DEF Carries
      <3>2. CASE r = K /\ j = last /\ V[r][j].src = e.src /\ V[r][j].seq = e.seq
        <4>1. L[p][i].seq <= hi /\ L[p][i].seq \in Nat
          BY <1>5, <1>6, <1>8, <2>1
        <4>2. V[r][j].seq = hi + 1
          BY <1>8, <3>2
        <4> QED
          BY SMTT(40), <2>1, <4>1, <4>2
      <3> QED
        BY <1>2, <3>1, <3>2
    <2>2. CASE p = K /\ i = last
      <3>1. r = K /\ j > last
        BY <1>1, <1>8, <2>2 DEF Behind
      <3> QED
        BY <1>1, <3>1
    <2> QED
      BY <1>2, <2>1, <2>2
  <1>9. ASSUME NEW k \in lo + 1 .. top
        PROVE  \E p \in 0 .. K : \E i \in 1 .. Len(V[p]) : V[p][i].src = s /\ V[p][i].seq = k
    <2>1. CASE k <= hi
      <3>1. k \in lo + 1 .. hi
        BY <2>1
      <3>2. PICK p \in 0 .. K : \E i \in 1 .. Len(L[p]) : L[p][i].src = s /\ L[p][i].seq = k
        BY <3>1 DEF Carries
      <3> QED
        BY ZenonT(60), <1>3, <3>2
    <2>2. CASE k > hi
      <3>1. e.src = s /\ k = hi + 1
        BY <2>2
      <3> QED
        BY <1>4, <3>1
    <2> QED
      BY <2>1, <2>2
  <1> QED
    BY <1>7, <1>8, <1>9 DEF Carries

\* Receiving takes the first flit of a sender, which is the next one in order,
\* and leaves the other senders' flits as they are.
LEMMA ReceivedCarries ==
  ASSUME NEW K \in Nat, NEW L, NEW V, NEW s, NEW t, NEW k, NEW lo \in Nat, NEW hi \in Nat,
         IsLine(L, K), Carries(L, K, t, lo, hi),
         \A p \in 1 .. K : V[p] = L[p], IsWithout(V[0], L[0], k),
         L[0][k].src = s, \A j \in 1 .. Len(L[0]) : L[0][j].src = s => k <= j
  PROVE  /\ t = s => lo < hi /\ L[0][k].seq = lo + 1
         /\ Carries(V, K, t, IF t = s THEN lo + 1 ELSE lo, hi)
  <1> DEFINE bottom == IF t = s THEN lo + 1 ELSE lo
             O(p, i) == IF p = 0 /\ i >= k THEN i + 1 ELSE i
             Old(p, i) == p \in 0 .. K /\ i \in 1 .. Len(L[p])
             New(p, i) == p \in 0 .. K /\ i \in 1 .. Len(V[p])
  <1>1. /\ \A p \in 0 .. K : Len(L[p]) \in Nat
        /\ k \in 1 .. Len(L[0]) /\ Len(V[0]) = Len(L[0]) - 1
    BY DEF IsLine, IsWithout
  <1>2. ASSUME NEW p, NEW i, New(p, i)
        PROVE  /\ Old(p, O(p, i)) /\ (p = 0 => O(p, i) # k)
               /\ V[p][i].src = L[p][O(p, i)].src /\ V[p][i].seq = L[p][O(p, i)].seq
    <2>1. CASE p = 0
      <3>1. i \in 1 .. Len(L[0]) - 1
        BY <1>1, <1>2, <2>1
      <3>2. i < k => V[0][i].src = L[0][i].src /\ V[0][i].seq = L[0][i].seq
        BY <3>1 DEF IsWithout
      <3>3. i >= k => V[0][i].src = L[0][i + 1].src /\ V[0][i].seq = L[0][i + 1].seq
        BY <3>1 DEF IsWithout
      <3>4. Len(L[0]) \in Nat /\ 0 \in 0 .. K /\ k \in Nat
        BY <1>1
      <3>5. CASE i < k
        <4>1. O(p, i) = i /\ i \in 1 .. Len(L[0]) /\ i # k
          BY <2>1, <3>1, <3>4, <3>5
        <4> QED
          BY <2>1, <3>2, <3>4, <3>5, <4>1
      <3>6. CASE i >= k
        <4>1. O(p, i) = i + 1 /\ i + 1 \in 1 .. Len(L[0]) /\ i + 1 # k
          BY <2>1, <3>1, <3>4, <3>6
        <4> QED
          BY <2>1, <3>3, <3>4, <3>6, <4>1
      <3> QED
        BY <3>1, <3>4, <3>5, <3>6
    <2>2. CASE p # 0
      BY <1>2, <2>2
    <2> QED
      BY <2>1, <2>2
  <1>3. ASSUME NEW p, NEW i, NEW r, NEW j, New(p, i), New(r, j), Behind(p, i, r, j)
        PROVE  Behind(p, O(p, i), r, O(r, j))
    BY <1>1, <1>3 DEF Behind
  <1>4. ASSUME NEW p, NEW j, Old(p, j), ~(p = 0 /\ j = k)
        PROVE  \E i : New(p, i) /\ O(p, i) = j
    <2>1. CASE p = 0 /\ j > k
      <3>1. New(p, j - 1) /\ O(p, j - 1) = j
        BY <1>1, <1>4, <2>1
      <3> QED
        BY <3>1
    <2>2. CASE ~(p = 0 /\ j > k)
      <3>1. New(p, j) /\ O(p, j) = j
        BY <1>1, <1>4, <2>2
      <3> QED
        BY <3>1
    <2> QED
      BY <2>1, <2>2
  <1>5. \A p, i : Old(p, i) /\ L[p][i].src = t =>
                   /\ L[p][i].seq \in Nat
                   /\ lo < L[p][i].seq /\ L[p][i].seq <= hi
    BY DEF Carries, IsLine
  <1>6. \A p, i, r, j : /\ Old(p, i) /\ L[p][i].src = t
                        /\ Old(r, j) /\ L[r][j].src = t /\ Behind(p, i, r, j)
                        => L[p][i].seq < L[r][j].seq
    BY DEF Carries
  <1>7. ASSUME NEW n \in lo + 1 .. hi
        PROVE  \E p, i : Old(p, i) /\ L[p][i].src = t /\ L[p][i].seq = n
    BY ZenonT(60) DEF Carries
  <1>8. ASSUME t = s, NEW p, NEW i, Old(p, i), L[p][i].src = s, ~(p = 0 /\ i = k)
        PROVE  L[0][k].seq < L[p][i].seq
    <2>1. Behind(0, k, p, i)
      BY <1>1, <1>8 DEF Behind
    <2>2. Old(0, k)
      BY <1>1
    <2> QED
      BY <1>6, <1>8, <2>1, <2>2
  <1>9. ASSUME t = s
        PROVE  lo < hi /\ L[0][k].seq = lo + 1
    <2>1. Old(0, k) /\ L[0][k].src = t
      BY <1>1, <1>9
    <2>2. L[0][k].seq \in Nat /\ lo < L[0][k].seq /\ L[0][k].seq <= hi
      BY <1>5, <2>1
    <2>3. lo + 1 \in lo + 1 .. hi
      BY <2>2
    <2>4. PICK p, i : Old(p, i) /\ L[p][i].src = t /\ L[p][i].seq = lo + 1
      BY <1>7, <2>3
    <2> QED
      BY SMTT(40), <1>8, <1>9, <2>2, <2>4
  <1>10. ASSUME NEW p \in 0 .. K, NEW i \in 1 .. Len(V[p]), V[p][i].src = t
         PROVE  bottom < V[p][i].seq /\ V[p][i].seq <= hi
    <2>1. PICK o : o = O(p, i)
      OBVIOUS
    <2>2. /\ Old(p, o) /\ ~(p = 0 /\ o = k) /\ L[p][o].src = t
          /\ V[p][i].seq = L[p][o].seq
      <3>1. New(p, i)
        BY <1>10
      <3> QED
        BY ZenonT(60), <1>2, <1>10, <2>1, <3>1
    <2> HIDE DEF Old, O
    <2>3. L[p][o].seq \in Nat /\ lo < L[p][o].seq /\ L[p][o].seq <= hi
      BY <1>5, <2>2
    <2>4. CASE t = s
      <3>1. L[0][k].seq = lo + 1
        BY <1>9, <2>4
      <3>2. L[p][o].src = s
        BY <2>2, <2>4
      <3>3. L[0][k].seq < L[p][o].seq
        BY <1>8, <2>2, <2>4, <3>2
      <3> QED
        BY <2>2, <2>3, <2>4, <3>1, <3>3
    <2>5. CASE t # s
      BY <2>2, <2>3, <2>5
    <2> QED
      BY <2>4, <2>5
  <1>11. ASSUME NEW p \in 0 .. K, NEW r \in 0 .. K,
                NEW i \in 1 .. Len(V[p]), NEW j \in 1 .. Len(V[r]),
                V[p][i].src = t, V[r][j].src = t, Behind(p, i, r, j)
         PROVE  V[p][i].seq < V[r][j].seq
    <2>1. New(p, i) /\ New(r, j) /\ Behind(p, O(p, i), r, O(r, j))
      BY <1>3, <1>11
    <2> HIDE DEF O
    <2>2. /\ Old(p, O(p, i)) /\ L[p][O(p, i)].src = t
          /\ Old(r, O(r, j)) /\ L[r][O(r, j)].src = t
      BY <1>2, <1>11, <2>1
    <2>3. L[p][O(p, i)].seq < L[r][O(r, j)].seq
      BY <1>6, <2>1, <2>2
    <2> QED
      BY <1>2, <2>1, <2>3
  <1>12. ASSUME NEW n \in bottom + 1 .. hi
         PROVE  \E p \in 0 .. K : \E i \in 1 .. Len(V[p]) : V[p][i].src = t /\ V[p][i].seq = n
    <2>1. n \in lo + 1 .. hi
      OBVIOUS
    <2>2. PICK p, j : Old(p, j) /\ L[p][j].src = t /\ L[p][j].seq = n
      BY <1>7, <2>1
    <2>3. ~(p = 0 /\ j = k)
      BY <1>9, <2>2
    <2> HIDE DEF O
    <2>4. PICK i : New(p, i) /\ O(p, i) = j
      BY <1>4, <2>2, <2>3
    <2> QED
      BY ZenonT(60), <1>2, <2>2, <2>4
  <1> QED
    BY <1>9, <1>10, <1>11, <1>12 DEF Carries

\* The first flit of a sender may move from queue 1 to the end of queue 0.
LEMMA MovedCarries ==
  ASSUME NEW L, NEW V, NEW s, NEW k, NEW lo \in Nat, NEW hi \in Nat,
         IsLine(L, 1), Carries(L, 1, s, lo, hi),
         IsAppended(V[0], L[0], L[1][k]), IsWithout(V[1], L[1], k),
         \A j \in 1 .. Len(L[1]) : L[1][j].src = L[1][k].src => k <= j
  PROVE  Carries(V, 1, s, lo, hi)
  <1> DEFINE last == Len(L[0]) + 1
             Q(p, i) == IF p = 0 /\ i = last THEN 1 ELSE p
             O(p, i) == IF p = 0 /\ i = last THEN k ELSE IF p = 1 /\ i >= k THEN i + 1 ELSE i
             Old(p, i) == p \in 0 .. 1 /\ i \in 1 .. Len(L[p])
             New(p, i) == p \in 0 .. 1 /\ i \in 1 .. Len(V[p])
  <1>1. /\ Len(L[0]) \in Nat /\ Len(L[1]) \in Nat
        /\ Len(V[0]) = last
        /\ k \in 1 .. Len(L[1]) /\ Len(V[1]) = Len(L[1]) - 1
    BY DEF IsLine, IsWithout, IsAppended
  <1>2. ASSUME NEW p, NEW i, New(p, i)
        PROVE  /\ Old(Q(p, i), O(p, i))
               /\ V[p][i].src = L[Q(p, i)][O(p, i)].src
               /\ V[p][i].seq = L[Q(p, i)][O(p, i)].seq
    <2>1. CASE p = 0 /\ i # last
      <3>1. i \in 1 .. Len(L[0])
        BY <1>1, <1>2, <2>1
      <3> QED
        BY SMTT(40), <1>1, <2>1, <3>1 DEF IsAppended
    <2>2. CASE p = 0 /\ i = last
      BY <1>1, <2>2 DEF IsAppended
    <2>3. CASE p = 1
      BY SMTT(40), <1>1, <1>2, <2>3 DEF IsWithout
    <2> QED
      BY <1>2, <2>1, <2>2, <2>3
  <1>3. ASSUME NEW p, NEW i, NEW r, NEW j, New(p, i), New(r, j), Behind(p, i, r, j),
               V[p][i].src = V[r][j].src
        PROVE  Behind(Q(p, i), O(p, i), Q(r, j), O(r, j))
    <2>1. CASE p = 0 /\ i = last
      <3>1. r = 1
        BY <1>1, <1>3, <2>1 DEF Behind
      <3>2. Q(p, i) = 1 /\ O(p, i) = k /\ Q(r, j) = 1 /\ O(r, j) # k
        BY <1>1, <1>3, <2>1, <3>1
      <3> HIDE DEF O, Q
      <3>3. Old(1, O(r, j)) /\ L[1][O(r, j)].src = L[1][k].src
        <4>1. Old(Q(r, j), O(r, j)) /\ V[r][j].src = L[Q(r, j)][O(r, j)].src
          BY <1>2, <1>3
        <4>2. V[p][i].src = L[Q(p, i)][O(p, i)].src
          BY <1>2, <1>3
        <4> QED
          BY <1>3, <3>2, <4>1, <4>2
      <3>4. k < O(r, j)
        BY <1>1, <3>2, <3>3
      <3> QED
        BY <3>2, <3>4 DEF Behind
    <2>2. CASE ~(p = 0 /\ i = last)
      BY <1>1, <1>3, <2>2 DEF Behind
    <2> QED
      BY <2>1, <2>2
  <1>4. ASSUME NEW q, NEW j, Old(q, j)
        PROVE  \E p, i : New(p, i) /\ Q(p, i) = q /\ O(p, i) = j
    <2>1. CASE q = 0
      <3>1. New(0, j) /\ Q(0, j) = q /\ O(0, j) = j
        BY <1>1, <1>4, <2>1
      <3> QED
        BY <3>1
    <2>2. CASE q = 1 /\ j = k
      <3>1. New(0, last) /\ Q(0, last) = q /\ O(0, last) = j
        BY <1>1, <2>2
      <3> QED
        BY <3>1
    <2>3. CASE q = 1 /\ j < k
      <3>1. New(1, j) /\ Q(1, j) = q /\ O(1, j) = j
        BY <1>1, <1>4, <2>3
      <3> QED
        BY <3>1
    <2>4. CASE q = 1 /\ j > k
      <3>1. New(1, j - 1) /\ Q(1, j - 1) = q /\ O(1, j - 1) = j
        BY <1>1, <1>4, <2>4
      <3> QED
        BY <3>1
    <2> QED
      BY <1>1, <1>4, <2>1, <2>2, <2>3, <2>4
  <1> HIDE DEF O, Q, last
  <1>5. ASSUME NEW p \in 0 .. 1, NEW i \in 1 .. Len(V[p]), V[p][i].src = s
        PROVE  lo < V[p][i].seq /\ V[p][i].seq <= hi
    <2>1. New(p, i)
      BY <1>5
    <2>2. Old(Q(p, i), O(p, i)) /\ L[Q(p, i)][O(p, i)].src = s
      BY <1>2, <1>5, <2>1
    <2> QED
      BY SMTT(40), <1>2, <2>1, <2>2 DEF Carries
  <1>6. ASSUME NEW p \in 0 .. 1, NEW r \in 0 .. 1,
               NEW i \in 1 .. Len(V[p]), NEW j \in 1 .. Len(V[r]),
               V[p][i].src = s, V[r][j].src = s, Behind(p, i, r, j)
        PROVE  V[p][i].seq < V[r][j].seq
    <2>1. /\ New(p, i) /\ New(r, j) /\ Behind(Q(p, i), O(p, i), Q(r, j), O(r, j))
      BY <1>3, <1>6
    <2>2. /\ Old(Q(p, i), O(p, i)) /\ L[Q(p, i)][O(p, i)].src = s
          /\ Old(Q(r, j), O(r, j)) /\ L[Q(r, j)][O(r, j)].src = s
      BY <1>2, <1>6, <2>1
    <2>3. L[Q(p, i)][O(p, i)].seq < L[Q(r, j)][O(r, j)].seq
      BY <2>1, <2>2 DEF Carries
    <2> QED
      BY <1>2, <2>1, <2>3
  <1>7. ASSUME NEW n \in lo + 1 .. hi
        PROVE  \E p \in 0 .. 1 : \E i \in 1 .. Len(V[p]) : V[p][i].src = s /\ V[p][i].seq = n
    <2>1. PICK q, j : Old(q, j) /\ L[q][j].src = s /\ L[q][j].seq = n
      BY ZenonT(60) DEF Carries
    <2>2. PICK p, i : New(p, i) /\ Q(p, i) = q /\ O(p, i) = j
      BY <1>4, <2>1
    <2> QED
      BY <1>2, <2>1, <2>2
  <1> QED
    BY <1>5, <1>6, <1>7 DEF Carries

\* The flits of a sender stay in order when all queues move up.
LEMMA ShiftedCarries ==
  ASSUME NEW K \in Nat, K >= 1, NEW L, NEW V, NEW s, NEW lo \in Nat, NEW hi \in Nat,
         IsLine(L, K), Carries(L, K, s, lo, hi),
         IsShifted(V, L, K)
  PROVE  Carries(V, K, s, lo, hi)
  <1> DEFINE len == Len(L[0])
             add == Len(L[1])
             all == Len(V[0])
             Q(p, i) == IF p = 0 /\ i <= len THEN 0 ELSE p + 1
             O(p, i) == IF p = 0 /\ i > len THEN i - len ELSE i
             Old(p, i) == p \in 0 .. K /\ i \in 1 .. Len(L[p])
             New(p, i) == p \in 0 .. K /\ i \in 1 .. Len(V[p])
  <1>1. /\ Len(L[0]) = len /\ Len(L[1]) = add /\ Len(V[0]) = all
        /\ len \in Nat /\ add \in Nat /\ all = len + add /\ Len(V[K]) = 0
    BY DEF IsLine, IsShifted
  <1> HIDE DEF len, add, all
  <1>2. ASSUME NEW p, NEW i, New(p, i)
        PROVE  Old(Q(p, i), O(p, i)) /\ V[p][i] = L[Q(p, i)][O(p, i)]
    <2>1. CASE p = 0 /\ i <= len
      <3>1. i \in 1 .. Len(L[0])
        BY <1>1, <1>2, <2>1
      <3>2. V[0][i] = L[0][i]
        BY <3>1 DEF IsShifted
      <3> QED
        BY <1>1, <2>1, <3>1, <3>2
    <2>2. CASE p = 0 /\ i > len
      <3>1. i \in 1 .. Len(V[0])
        BY <1>2, <2>2
      <3>2. i - len \in 1 .. Len(L[1])
        BY <1>1, <2>2, <3>1
      <3>3. len + (i - len) = i
        BY <1>1, <3>1
      <3> QED
        BY <1>1, <2>2, <3>2, <3>3 DEF IsShifted
    <2>3. CASE p # 0
      <3>1. p \in 1 .. K - 1
        BY <1>1, <1>2, <2>3
      <3> QED
        BY <1>2, <2>3, <3>1 DEF IsShifted
    <2> QED
      BY <1>1, <1>2, <2>1, <2>2, <2>3
  <1>3. ASSUME NEW p, NEW i, NEW r, NEW j, New(p, i), New(r, j), Behind(p, i, r, j)
        PROVE  Behind(Q(p, i), O(p, i), Q(r, j), O(r, j))
    BY <1>1, <1>3 DEF Behind
  <1>4. ASSUME NEW q, NEW j, Old(q, j)
        PROVE  \E p, i : New(p, i) /\ Q(p, i) = q /\ O(p, i) = j
    <2>1. CASE q = 0
      <3>1. New(0, j) /\ Q(0, j) = q /\ O(0, j) = j
        BY <1>1, <1>4, <2>1
      <3> QED
        BY <3>1
    <2>2. CASE q = 1
      <3>1. New(0, len + j) /\ Q(0, len + j) = q /\ O(0, len + j) = j
        BY <1>1, <1>4, <2>2
      <3> QED
        BY <3>1
    <2>3. CASE q > 1
      <3>1. New(q - 1, j) /\ Q(q - 1, j) = q /\ O(q - 1, j) = j
        BY <1>1, <1>4, <2>3 DEF IsShifted
      <3> QED
        BY <3>1
    <2> QED
      BY <1>4, <2>1, <2>2, <2>3
  <1> HIDE DEF O, Q
  <1>5. ASSUME NEW p \in 0 .. K, NEW i \in 1 .. Len(V[p]), V[p][i].src = s
        PROVE  lo < V[p][i].seq /\ V[p][i].seq <= hi
    <2>1. New(p, i)
      BY <1>5
    <2>2. Old(Q(p, i), O(p, i)) /\ L[Q(p, i)][O(p, i)].src = s
      BY <1>2, <1>5, <2>1
    <2> QED
      BY SMTT(40), <1>2, <2>1, <2>2 DEF Carries
  <1>6. ASSUME NEW p \in 0 .. K, NEW r \in 0 .. K,
               NEW i \in 1 .. Len(V[p]), NEW j \in 1 .. Len(V[r]),
               V[p][i].src = s, V[r][j].src = s, Behind(p, i, r, j)
        PROVE  V[p][i].seq < V[r][j].seq
    <2>1. /\ New(p, i) /\ New(r, j) /\ Behind(Q(p, i), O(p, i), Q(r, j), O(r, j))
      BY <1>3, <1>6
    <2>2. /\ Old(Q(p, i), O(p, i)) /\ L[Q(p, i)][O(p, i)].src = s
          /\ Old(Q(r, j), O(r, j)) /\ L[Q(r, j)][O(r, j)].src = s
      BY <1>2, <1>6, <2>1
    <2>3. L[Q(p, i)][O(p, i)].seq < L[Q(r, j)][O(r, j)].seq
      BY <2>1, <2>2 DEF Carries
    <2> QED
      BY <1>2, <2>1, <2>3
  <1>7. ASSUME NEW n \in lo + 1 .. hi
        PROVE  \E p \in 0 .. K : \E i \in 1 .. Len(V[p]) : V[p][i].src = s /\ V[p][i].seq = n
    <2>1. PICK q, j : Old(q, j) /\ L[q][j].src = s /\ L[q][j].seq = n
      BY DEF Carries
    <2>2. PICK p, i : New(p, i) /\ Q(p, i) = q /\ O(p, i) = j
      BY <1>4, <2>1
    <2> QED
      BY <1>2, <2>1, <2>2
  <1> QED
    BY <1>5, <1>6, <1>7 DEF Carries

-----------------------------------------------------------------------------
\* Some position is the first one of a kind.
LEMMA FirstExists ==
  ASSUME NEW T, T \subseteq Nat, T # {}
  PROVE  \E x \in T : \A y \in T : x <= y
  <1> DEFINE R == OpToRel(<, Nat)
  <1>1. \A x, y \in Nat : y < x => <<y, x>> \in R
    <2>1. \A x, y \in Nat : <<y, x>>[1] = y /\ <<y, x>>[2] = x
      OBVIOUS
    <2> QED
      BY <2>1 DEF OpToRel
  <1>2. IsWellFoundedOn(R, Nat)
    BY NatLessThanWellFounded
  <1> HIDE DEF R
  <1>3. PICK x \in T : \A y \in T : ~(<<y, x>> \in R)
    BY <1>2, WFMin
  <1>4. ASSUME NEW y \in T
        PROVE  x <= y
    <2>1. x \in Nat /\ y \in Nat /\ ~(y < x)
      BY <1>1, <1>3
    <2> QED
      BY <2>1
  <1> QED
    BY <1>4

\* A function over 1 to n is a queue of n entries.
LEMMA FunctionIsQueue ==
  ASSUME NEW S, NEW n \in Nat, NEW v \in [1 .. n -> S]
  PROVE  v \in Seq(S) /\ Len(v) = n
  <1>1. v \in Seq(S)
    BY SeqDef
  <1>2. Len(v) \in Nat /\ DOMAIN v = 1 .. Len(v)
    BY <1>1, LenProperties
  <1>3. 1 .. Len(v) = 1 .. n
    BY <1>2
  <1> QED
    BY <1>1, <1>2, <1>3

\* Append and the removals of msgqueue.c and flitqueue.c do what their names say.
LEMMA AppendAppends ==
  ASSUME NEW S, NEW q \in Seq(S), NEW e \in S
  PROVE  Append(q, e) \in Seq(S) /\ IsAppended(Append(q, e), q, e)
  BY AppendProperties DEF IsAppended

LEMMA CutRemoves ==
  ASSUME NEW S, NEW q \in Seq(S), NEW k \in 1 .. Len(q)
  PROVE  LET v == SubSeq(q, 1, k - 1) \o SubSeq(q, k + 1, Len(q))
         IN v \in Seq(S) /\ IsWithout(v, q, k)
  <1> DEFINE a == SubSeq(q, 1, k - 1)
             b == SubSeq(q, k + 1, Len(q))
  <1>1. Len(q) \in Nat /\ \A i \in 1 .. Len(q) : q[i] \in S
    BY LenProperties, ElementOfSeq
  <1>2. /\ a \in Seq(S) /\ Len(a) = k - 1
        /\ \A i \in 1 .. k - 1 : a[i] = q[i]
    <2>1. \A i \in 1 .. k - 1 : q[i] \in S
      BY <1>1
    <2>2. /\ a \in Seq(S) /\ Len(a) = (IF 1 <= k - 1 THEN (k - 1) - 1 + 1 ELSE 0)
          /\ \A i \in 1 .. (k - 1) - 1 + 1 : a[i] = q[1 + i - 1]
      BY <1>1, <2>1, SubSeqProperties
    <2> QED
      BY <1>1, <2>2
  <1>3. /\ b \in Seq(S) /\ Len(b) = Len(q) - k
        /\ \A i \in 1 .. Len(q) - k : b[i] = q[k + i]
    <2>1. \A i \in k + 1 .. Len(q) : q[i] \in S
      BY <1>1
    <2>2. /\ b \in Seq(S)
          /\ Len(b) = (IF k + 1 <= Len(q) THEN Len(q) - (k + 1) + 1 ELSE 0)
          /\ \A i \in 1 .. Len(q) - (k + 1) + 1 : b[i] = q[(k + 1) + i - 1]
      BY <1>1, <2>1, SubSeqProperties
    <2> QED
      BY <1>1, <2>2
  <1> HIDE DEF a, b
  <1>4. /\ a \o b \in Seq(S) /\ Len(a \o b) = Len(a) + Len(b)
        /\ \A i \in 1 .. Len(a) + Len(b) :
             (a \o b)[i] = IF i <= Len(a) THEN a[i] ELSE b[i - Len(a)]
    BY <1>2, <1>3, ConcatProperties
  <1>5. Len(a \o b) = Len(q) - 1
    BY <1>1, <1>2, <1>3, <1>4
  <1>6. ASSUME NEW i \in 1 .. Len(q) - 1
        PROVE  (a \o b)[i] = IF i < k THEN q[i] ELSE q[i + 1]
    <2>1. i \in 1 .. Len(a) + Len(b)
      BY <1>1, <1>2, <1>3
    <2>2. CASE i < k
      BY <1>1, <1>2, <1>4, <2>1, <2>2
    <2>3. CASE ~(i < k)
      <3>1. i - (k - 1) \in 1 .. Len(q) - k /\ k + (i - (k - 1)) = i + 1
        BY <1>1, <2>3
      <3>2. (a \o b)[i] = b[i - (k - 1)]
        BY <1>1, <1>2, <1>4, <2>1, <2>3
      <3> QED
        BY <1>3, <2>3, <3>1, <3>2
    <2> QED
      BY <2>2, <2>3
  <1>7. k \in 1 .. Len(q) /\ a \o b \in Seq(S)
    BY <1>4
  <1>8. IsWithout(a \o b, q, k)
    BY <1>5, <1>6, <1>7 DEF IsWithout
  <1> QED
    BY <1>7, <1>8 DEF a, b

-----------------------------------------------------------------------------
(***************************************************************************)
(* All flows of a network: the lines L of the nodes, from queue 0 to queue *)
(* K, carry what has been sent (S) and not been received (G).              *)
(***************************************************************************)
Counters(S, G) ==
  /\ S \in [Flows -> Nat] /\ G \in [Flows -> Nat]
  /\ \A f \in Flows : G[f] <= S[f]

AreLines(L, K) == \A n \in Node : IsLine(L[n], K)

InOrder(L, K, S, G) == \A f \in Flows : Carries(L[f[2]], K, f[1], G[f], S[f])

\* The lines V are the lines L with flit e at the end of the line to node m,
\* and without the first flit of s that m can receive, at place k.
LineGrows(L, V, K, m, e) ==
  /\ \A n \in Node : \A p \in 0 .. K : n # m \/ p # K => V[n][p] = L[n][p]
  /\ IsAppended(V[m][K], L[m][K], e)
LineShrinks(L, V, K, m, s, k) ==
  /\ \A n \in Node : \A p \in 0 .. K : n # m \/ p # 0 => V[n][p] = L[n][p]
  /\ IsWithout(V[m][0], L[m][0], k)
  /\ L[m][0][k].src = s
  /\ \A j \in 1 .. Len(L[m][0]) : L[m][0][j].src = s => k <= j

\* A flow is known by its sender and its receiver.
LEMMA FlowEnds ==
  ASSUME NocAssumption, NEW f \in Flows
  PROVE  /\ f[1] \in Node /\ f[2] \in Node /\ f[1] # f[2]
         /\ \A g \in Flows : g[1] = f[1] /\ g[2] = f[2] => g = f
  <1>1. Flows \subseteq {g \in Node \X Node : g[1] # g[2]}
    BY DEF NocAssumption, M!ManhattanAssumption, M!Node, Node
  <1>2. \A g \in Flows : g \in Node \X Node /\ g[1] # g[2]
    BY <1>1
  <1> QED
    BY <1>2

\* A flit that is sent joins the line of its receiver.
LEMMA SentInOrder ==
  ASSUME NocAssumption, NEW K \in Nat, NEW L, NEW V, NEW S, NEW G, NEW f \in Flows,
         Counters(S, G), AreLines(L, K), InOrder(L, K, S, G),
         LineGrows(L, V, K, f[2], [src |-> f[1], seq |-> S[f] + 1])
  PROVE  /\ Counters([S EXCEPT ![f] = @ + 1], G)
         /\ InOrder(V, K, [S EXCEPT ![f] = @ + 1], G)
  <1> DEFINE T == [S EXCEPT ![f] = @ + 1]
             e == [src |-> f[1], seq |-> S[f] + 1]
  <1>1. T \in [Flows -> Nat] /\ \A g \in Flows : T[g] = IF g = f THEN S[g] + 1 ELSE S[g]
    BY DEF Counters
  <1>2. Counters(T, G)
    BY <1>1 DEF Counters
  <1> HIDE DEF T
  <1>3. ASSUME NEW g \in Flows
        PROVE  Carries(V[g[2]], K, g[1], G[g], T[g])
    <2>1. /\ g[2] \in Node /\ f[2] \in Node
          /\ g[1] = f[1] /\ g[2] = f[2] => g = f
      BY FlowEnds
    <2>2. IsLine(L[g[2]], K) /\ Carries(L[g[2]], K, g[1], G[g], S[g])
      BY <2>1 DEF AreLines, InOrder
    <2>3. G[g] \in Nat /\ S[g] \in Nat /\ G[g] <= S[g]
      BY DEF Counters
    <2>4. CASE g[2] # f[2]
      <3>1. T[g] = S[g]
        BY <1>1, <2>4
      <3>2. \A p \in 0 .. K : V[g[2]][p] = L[g[2]][p]
        BY <2>1, <2>4 DEF LineGrows
      <3> QED
        BY <2>2, <3>1, <3>2, SameCarries
    <2>5. CASE g[2] = f[2]
      <3>1. \A p \in 0 .. K - 1 : V[g[2]][p] = L[g[2]][p]
        BY <2>1 DEF LineGrows
      <3>2. IsAppended(V[g[2]][K], L[g[2]][K], e)
        BY <2>5 DEF LineGrows
      <3>3. e.src = g[1] => g = f
        BY <2>1, <2>5
      <3>4. e.src = g[1] => e.seq = S[g] + 1
        BY <3>3
      <3> HIDE DEF e
      <3>5. Carries(V[g[2]], K, g[1], G[g], IF e.src = g[1] THEN S[g] + 1 ELSE S[g])
        BY <2>2, <2>3, <3>1, <3>2, <3>4, SentCarries
      <3>6. T[g] = IF e.src = g[1] THEN S[g] + 1 ELSE S[g]
        BY <1>1, <3>3 DEF e
      <3> QED
        BY <3>5, <3>6
    <2> QED
      BY <2>4, <2>5
  <1> QED
    BY <1>2, <1>3 DEF InOrder, T

\* What is received is the next flit of its flow.
LEMMA ReceivedInOrder ==
  ASSUME NocAssumption, NEW K \in Nat, NEW L, NEW V, NEW S, NEW G, NEW f \in Flows, NEW k,
         Counters(S, G), AreLines(L, K), InOrder(L, K, S, G),
         LineShrinks(L, V, K, f[2], f[1], k)
  PROVE  /\ G[f] < S[f] /\ L[f[2]][0][k].seq = G[f] + 1
         /\ Counters(S, [G EXCEPT ![f] = @ + 1])
         /\ InOrder(V, K, S, [G EXCEPT ![f] = @ + 1])
  <1> DEFINE H == [G EXCEPT ![f] = @ + 1]
  <1>1. ASSUME NEW g \in Flows, g[2] = f[2]
        PROVE  /\ g[1] = f[1] => G[g] < S[g] /\ L[f[2]][0][k].seq = G[g] + 1
               /\ Carries(V[g[2]], K, g[1], IF g[1] = f[1] THEN G[g] + 1 ELSE G[g], S[g])
    <2>1. g[2] \in Node
      BY FlowEnds
    <2>2. IsLine(L[g[2]], K) /\ Carries(L[g[2]], K, g[1], G[g], S[g])
      BY <2>1 DEF AreLines, InOrder
    <2>3. G[g] \in Nat /\ S[g] \in Nat
      BY DEF Counters
    <2>4. \A p \in 1 .. K : V[g[2]][p] = L[g[2]][p]
      BY <2>1 DEF LineShrinks
    <2>5. /\ IsWithout(V[g[2]][0], L[g[2]][0], k) /\ L[g[2]][0][k].src = f[1]
          /\ \A j \in 1 .. Len(L[g[2]][0]) : L[g[2]][0][j].src = f[1] => k <= j
      BY <1>1 DEF LineShrinks
    <2> DEFINE l == L[g[2]]
               v == V[g[2]]
    <2>6. /\ IsLine(l, K) /\ Carries(l, K, g[1], G[g], S[g])
          /\ \A p \in 1 .. K : v[p] = l[p]
          /\ IsWithout(v[0], l[0], k) /\ l[0][k].src = f[1]
          /\ \A j \in 1 .. Len(l[0]) : l[0][j].src = f[1] => k <= j
      BY <2>2, <2>4, <2>5
    <2> HIDE DEF l, v
    <2>7. /\ g[1] = f[1] => G[g] < S[g] /\ l[0][k].seq = G[g] + 1
          /\ Carries(v, K, g[1], IF g[1] = f[1] THEN G[g] + 1 ELSE G[g], S[g])
      BY <2>3, <2>6, ReceivedCarries
    <2> QED
      BY <1>1, <2>7 DEF l, v
  <1>2. G[f] < S[f] /\ L[f[2]][0][k].seq = G[f] + 1
    BY <1>1
  <1>3. H \in [Flows -> Nat] /\ \A g \in Flows : H[g] = IF g = f THEN G[g] + 1 ELSE G[g]
    BY DEF Counters
  <1>4. Counters(S, H)
    BY <1>2, <1>3 DEF Counters
  <1> HIDE DEF H
  <1>5. ASSUME NEW g \in Flows
        PROVE  Carries(V[g[2]], K, g[1], H[g], S[g])
    <2>1. g[2] \in Node /\ (g[1] = f[1] /\ g[2] = f[2] => g = f)
      BY FlowEnds
    <2>2. CASE g[2] # f[2]
      <3>1. H[g] = G[g] /\ \A p \in 0 .. K : V[g[2]][p] = L[g[2]][p]
        BY <1>3, <2>1, <2>2 DEF LineShrinks
      <3>2. Carries(L[g[2]], K, g[1], G[g], S[g])
        BY DEF InOrder
      <3>3. Carries(V[g[2]], K, g[1], G[g], S[g])
        BY <3>1, <3>2, SameCarries
      <3> QED
        BY <3>1, <3>3
    <2>3. CASE g[2] = f[2]
      <3>1. H[g] = IF g[1] = f[1] THEN G[g] + 1 ELSE G[g]
        BY <1>3, <2>1, <2>3
      <3> QED
        BY <1>1, <2>3, <3>1
    <2> QED
      BY <2>2, <2>3
  <1> QED
    BY <1>2, <1>4, <1>5 DEF InOrder, H

-----------------------------------------------------------------------------
\* What is sent and received, and the promise about it.
Channels == INSTANCE Noc

Entry == [src : Node, seq : Nat]

\* Well-typed queues make lines.
LEMMA QueueIsLine ==
  ASSUME NEW q \in Seq(Entry)
  PROVE  Len(q) \in Nat /\ \A i \in 1 .. Len(q) : q[i].seq \in Nat
  <1>1. Len(q) \in Nat /\ \A i \in 1 .. Len(q) : q[i] \in Entry
    BY LenProperties, ElementOfSeq
  <1> QED
    BY <1>1 DEF Entry

(***************************************************************************)
(* The perfect network has one queue per node.                             *)
(***************************************************************************)
PerfectLines == [n \in Node |-> [p \in 0 .. 0 |-> arrived[n]]]

PerfectInv ==
  /\ arrived \in [Node -> Seq(Entry)]
  /\ InOrder(PerfectLines, 0, sent, got)

LEMMA PerfectAreLines ==
  ASSUME arrived \in [Node -> Seq(Entry)]
  PROVE  AreLines(PerfectLines, 0)
  BY QueueIsLine DEF AreLines, IsLine, PerfectLines

LEMMA PerfectStarts ==
  ASSUME NocAssumption, P!Init
  PROVE  Counters(sent, got) /\ PerfectInv
  <1>1. /\ arrived = [n \in Node |-> <<>>]
        /\ sent = [f \in Flows |-> 0] /\ got = [f \in Flows |-> 0]
    BY DEF P!Init, P!Node, Node
  <1>2. Counters(sent, got)
    BY <1>1 DEF Counters
  <1>3. arrived \in [Node -> Seq(Entry)]
    BY <1>1
  <1>4. ASSUME NEW f \in Flows
        PROVE  Carries(PerfectLines[f[2]], 0, f[1], got[f], sent[f])
    <2>1. \A p \in 0 .. 0 : PerfectLines[f[2]][p] = <<>>
      BY <1>1, FlowEnds DEF PerfectLines
    <2> QED
      BY <1>1, <2>1, EmptyCarries
  <1> QED
    BY <1>2, <1>3, <1>4 DEF PerfectInv, InOrder

LEMMA PerfectSends ==
  ASSUME NocAssumption, Counters(sent, got), PerfectInv, NEW f \in Flows, P!Send(f)
  PROVE  Counters(sent, got)' /\ PerfectInv' /\ Channels!Send(f)
  <1> DEFINE e == [src |-> f[1], seq |-> sent[f] + 1]
             q == arrived[f[2]]
  <1>1. /\ sent[f] < MaxFlits /\ got' = got /\ sent' = [sent EXCEPT ![f] = @ + 1]
        /\ arrived' = [arrived EXCEPT ![f[2]] = Append(q, e)]
    BY DEF P!Send
  <1>2. f[1] \in Node /\ f[2] \in Node
    BY FlowEnds
  <1>3. q \in Seq(Entry) /\ e \in Entry
    <2>1. q \in Seq(Entry)
      BY <1>2 DEF PerfectInv
    <2>2. e \in Entry
      BY <1>2 DEF Counters, Entry
    <2> QED
      BY <2>1, <2>2
  <1>4. Append(q, e) \in Seq(Entry) /\ IsAppended(Append(q, e), q, e)
    BY <1>3, AppendAppends
  <1>5. arrived' \in [Node -> Seq(Entry)]
    BY <1>1, <1>4 DEF PerfectInv
  <1>6. LineGrows(PerfectLines, PerfectLines', 0, f[2], e)
    BY <1>1, <1>2, <1>4 DEF PerfectLines, PerfectInv, LineGrows
  <1>7. AreLines(PerfectLines, 0) /\ InOrder(PerfectLines, 0, sent, got)
    BY PerfectAreLines DEF PerfectInv
  <1>8. Counters(sent', got) /\ InOrder(PerfectLines', 0, sent', got)
    BY <1>1, <1>6, <1>7, SentInOrder
  <1> QED
    BY <1>1, <1>5, <1>8 DEF PerfectInv, Channels!Send, Counters, InOrder

LEMMA PerfectReceives ==
  ASSUME NocAssumption, Counters(sent, got), PerfectInv, NEW f \in Flows, P!Recv(f)
  PROVE  Counters(sent, got)' /\ PerfectInv' /\ Channels!Recv(f)
  <1> DEFINE q == arrived[f[2]]
             v(k) == SubSeq(q, 1, k - 1) \o SubSeq(q, k + 1, Len(q))
  <1>1. PICK k \in 1 .. Len(q) :
          /\ q[k].src = f[1] /\ \A j \in 1 .. Len(q) : q[j].src = f[1] => k <= j
          /\ arrived' = [arrived EXCEPT ![f[2]] = v(k)]
          /\ got' = [got EXCEPT ![f] = q[k].seq] /\ sent' = sent
    BY DEF P!Recv, P!From
  <1>2. f[2] \in Node
    BY FlowEnds
  <1>3. v(k) \in Seq(Entry) /\ IsWithout(v(k), q, k)
    BY <1>2, CutRemoves DEF PerfectInv
  <1> HIDE DEF v
  <1>4. arrived' \in [Node -> Seq(Entry)]
    BY <1>1, <1>3 DEF PerfectInv
  <1>5. /\ PerfectLines[f[2]][0] = q
        /\ LineShrinks(PerfectLines, PerfectLines', 0, f[2], f[1], k)
    BY <1>1, <1>2, <1>3 DEF PerfectLines, PerfectInv, LineShrinks
  <1>6. AreLines(PerfectLines, 0) /\ InOrder(PerfectLines, 0, sent, got)
    BY PerfectAreLines DEF PerfectInv
  <1>7. /\ got[f] < sent[f] /\ PerfectLines[f[2]][0][k].seq = got[f] + 1
        /\ Counters(sent, [got EXCEPT ![f] = @ + 1])
        /\ InOrder(PerfectLines', 0, sent, [got EXCEPT ![f] = @ + 1])
    BY <1>5, <1>6, ReceivedInOrder
  <1>8. got' = [got EXCEPT ![f] = @ + 1]
    BY <1>1, <1>5, <1>7
  <1> QED
    BY <1>1, <1>4, <1>7, <1>8 DEF PerfectInv, Channels!Recv, Counters, InOrder

-----------------------------------------------------------------------------
(***************************************************************************)
(* The network of manhattan.c has two queues per node.  The flits of one   *)
(* sender stay in order in the list of those on their way because their    *)
(* cycles left never decrease along the list: none of them is longer on    *)
(* its way than one that is sent later.                                    *)
(***************************************************************************)
ManhattanLines == [n \in Node |-> [p \in 0 .. 1 |-> IF p = 0 THEN arrived[n] ELSE intransit[n]]]

Travelling == [src : Node, seq : Nat, left : Nat]

Travels(q, n) ==
  /\ q \in Seq(Travelling)
  /\ \A i \in 1 .. Len(q) : 1 <= q[i].left /\ q[i].left <= M!Latency(q[i].src, n)
  /\ \A i, j \in 1 .. Len(q) : i < j /\ q[i].src = q[j].src => q[i].left <= q[j].left

ManhattanInv ==
  /\ arrived \in [Node -> Seq(Entry)]
  /\ intransit \in [Node -> Seq(Travelling)]
  /\ \A n \in Node : Travels(intransit[n], n)
  /\ InOrder(ManhattanLines, 1, sent, got)

\* A list of flits with a shorter way has the same senders and numbers.
LEMMA TravellingFlits ==
  ASSUME NEW q \in Seq(Travelling)
  PROVE  /\ Len(q) \in Nat
         /\ \A i \in 1 .. Len(q) :
              q[i] \in Travelling /\ q[i].src \in Node /\ q[i].seq \in Nat /\ q[i].left \in Nat
  <1>1. Len(q) \in Nat /\ \A i \in 1 .. Len(q) : q[i] \in Travelling
    BY LenProperties, ElementOfSeq
  <1> QED
    BY <1>1 DEF Travelling

LEMMA ManhattanAreLines ==
  ASSUME arrived \in [Node -> Seq(Entry)], intransit \in [Node -> Seq(Travelling)]
  PROVE  AreLines(ManhattanLines, 1)
  BY QueueIsLine, TravellingFlits DEF AreLines, IsLine, ManhattanLines

\* A flit to another node is on its way for at least one cycle.
LEMMA LatencyPositive ==
  ASSUME NocAssumption, NEW s \in Node, NEW d \in Node
  PROVE  M!Latency(s, d) \in Nat /\ (s # d => M!Latency(s, d) >= 1)
  <1> DEFINE dx == M!Abs(M!X(s) - M!X(d))
             dy == M!Abs(M!Y(s) - M!Y(d))
  <1>1. Width \in Nat \ {0} /\ s \in Nat /\ d \in Nat
    BY TorusAssumption DEF Node
  <1>2. \A r \in Nat : M!X(r) \in Nat /\ M!Y(r) \in Nat /\ r = Width * M!Y(r) + M!X(r)
    BY <1>1 DEF M!X, M!Y
  <1>3. s # d => M!X(s) # M!X(d) \/ M!Y(s) # M!Y(d)
    BY <1>1, <1>2
  <1>4. dx \in Nat /\ dy \in Nat /\ dx + dy \in Nat /\ (s # d => dx + dy >= 1)
    <2>1. \A a, b \in Nat : M!Abs(a - b) \in Nat /\ (a # b => M!Abs(a - b) >= 1)
      BY DEF M!Abs
    <2>2. M!X(s) \in Nat /\ M!X(d) \in Nat /\ M!Y(s) \in Nat /\ M!Y(d) \in Nat
      BY <1>1, <1>2
    <2>3. dx \in Nat /\ dy \in Nat /\ (s # d => dx >= 1 \/ dy >= 1)
      BY <1>3, <2>1, <2>2
    <2> QED
      BY <2>3
  <1>5. CyclesPerHop \in Nat /\ CyclesPerHop >= 1
    BY DEF NocAssumption, M!ManhattanAssumption
  <1>6. \A k \in Nat : CyclesPerHop * k \in Nat /\ (k >= 1 => CyclesPerHop * k >= 1)
    BY <1>5
  <1> HIDE DEF dx, dy
  <1>7. CyclesPerHop * (dx + dy) \in Nat /\ (s # d => CyclesPerHop * (dx + dy) >= 1)
    BY <1>4, <1>6
  <1> QED
    BY <1>7 DEF M!Latency, dx, dy

LEMMA ManhattanStarts ==
  ASSUME NocAssumption, M!Init
  PROVE  Counters(sent, got) /\ ManhattanInv
  <1>1. /\ arrived = [n \in Node |-> <<>>] /\ intransit = [n \in Node |-> <<>>]
        /\ sent = [f \in Flows |-> 0] /\ got = [f \in Flows |-> 0]
    BY DEF M!Init, M!Node, Node
  <1>2. Counters(sent, got)
    BY <1>1 DEF Counters
  <1>3. /\ arrived \in [Node -> Seq(Entry)] /\ intransit \in [Node -> Seq(Travelling)]
        /\ \A n \in Node : Travels(intransit[n], n)
    BY <1>1 DEF Travels
  <1>4. ASSUME NEW f \in Flows
        PROVE  Carries(ManhattanLines[f[2]], 1, f[1], got[f], sent[f])
    <2>1. \A p \in 0 .. 1 : ManhattanLines[f[2]][p] = <<>>
      BY <1>1, FlowEnds DEF ManhattanLines
    <2> QED
      BY <1>1, <2>1, EmptyCarries
  <1> QED
    BY <1>2, <1>3, <1>4 DEF ManhattanInv, InOrder

LEMMA ManhattanSends ==
  ASSUME NocAssumption, Counters(sent, got), ManhattanInv, NEW f \in Flows, M!Send(f)
  PROVE  Counters(sent, got)' /\ ManhattanInv' /\ Channels!Send(f)
  <1> DEFINE e == [src |-> f[1], seq |-> sent[f] + 1, left |-> M!Latency(f[1], f[2])]
             q == intransit[f[2]]
  <1>1. /\ sent[f] < MaxFlits /\ got' = got /\ sent' = [sent EXCEPT ![f] = @ + 1]
        /\ intransit' = [intransit EXCEPT ![f[2]] = Append(q, e)] /\ arrived' = arrived
    BY DEF M!Send, M!Enqueued
  <1>2. f[1] \in Node /\ f[2] \in Node
    BY FlowEnds
  <1>3. q \in Seq(Travelling) /\ Travels(q, f[2])
    BY <1>2 DEF ManhattanInv
  <1>4. e \in Travelling
    BY <1>2, LatencyPositive, FlowEnds DEF Counters, Travelling
  <1>5. Append(q, e) \in Seq(Travelling) /\ IsAppended(Append(q, e), q, e)
    BY <1>3, <1>4, AppendAppends
  <1>6. Travels(Append(q, e), f[2])
    <2> DEFINE v == Append(q, e)
               new == Len(q) + 1
    <2>1. /\ Len(q) \in Nat /\ Len(v) = new /\ v[new] = e
          /\ \A i \in 1 .. Len(q) : v[i] = q[i] /\ q[i].left \in Nat
      BY <1>3, <1>4, AppendProperties, TravellingFlits
    <2>2. \A i \in 1 .. Len(q) : 1 <= q[i].left /\ q[i].left <= M!Latency(q[i].src, f[2])
      BY <1>3 DEF Travels
    <2>3. M!Latency(f[1], f[2]) >= 1 /\ M!Latency(f[1], f[2]) \in Nat
      BY <1>2, LatencyPositive, FlowEnds
    <2>4. e.src = f[1] /\ e.left = M!Latency(f[1], f[2])
      OBVIOUS
    <2> HIDE DEF v, e
    <2>5. ASSUME NEW i \in 1 .. Len(v)
          PROVE  1 <= v[i].left /\ v[i].left <= M!Latency(v[i].src, f[2])
      <3>1. CASE i = new
        BY <2>1, <2>3, <2>4, <3>1
      <3>2. CASE i # new
        <4>1. i \in 1 .. Len(q)
          BY <2>1, <3>2
        <4> QED
          BY <2>1, <2>2, <4>1
      <3> QED
        BY <3>1, <3>2
    <2>6. ASSUME NEW i \in 1 .. Len(v), NEW j \in 1 .. Len(v), i < j, v[i].src = v[j].src
          PROVE  v[i].left <= v[j].left
      <3>1. i \in 1 .. Len(q)
        BY <2>1, <2>6
      <3>2. CASE j = new
        BY ZenonT(60), <2>1, <2>2, <2>4, <2>6, <3>1, <3>2
      <3>3. CASE j # new
        <4>1. j \in 1 .. Len(q)
          BY <2>1, <3>3
        <4> QED
          BY <1>3, <2>1, <2>6, <3>1, <4>1 DEF Travels
      <3> QED
        BY <3>2, <3>3
    <2>7. v \in Seq(Travelling)
      BY <1>5 DEF v
    <2>8. Travels(v, f[2])
      BY <2>5, <2>6, <2>7 DEF Travels
    <2> QED
      BY <2>8 DEF v
  <1>7. LineGrows(ManhattanLines, ManhattanLines', 1, f[2], [src |-> f[1], seq |-> sent[f] + 1])
    <2>1. IsAppended(Append(q, e), q, [src |-> f[1], seq |-> sent[f] + 1])
      BY <1>5 DEF IsAppended
    <2> HIDE DEF e
    <2>2. /\ ManhattanLines[f[2]][1] = q /\ ManhattanLines'[f[2]][1] = Append(q, e)
          /\ \A n \in Node : \A p \in 0 .. 1 :
               n # f[2] \/ p # 1 => ManhattanLines'[n][p] = ManhattanLines[n][p]
      BY <1>1, <1>2 DEF ManhattanLines, ManhattanInv
    <2> QED
      BY <2>1, <2>2 DEF LineGrows
  <1>8. AreLines(ManhattanLines, 1) /\ InOrder(ManhattanLines, 1, sent, got)
    BY ManhattanAreLines DEF ManhattanInv
  <1>9. Counters(sent', got) /\ InOrder(ManhattanLines', 1, sent', got)
    BY <1>1, <1>7, <1>8, SentInOrder
  <1> HIDE DEF e
  <1>10. /\ arrived' \in [Node -> Seq(Entry)] /\ intransit' \in [Node -> Seq(Travelling)]
         /\ \A n \in Node : Travels(intransit'[n], n)
    BY <1>1, <1>5, <1>6 DEF ManhattanInv
  <1> QED
    BY <1>1, <1>9, <1>10 DEF ManhattanInv, Channels!Send, Counters, InOrder, Travels

LEMMA ManhattanReceives ==
  ASSUME NocAssumption, Counters(sent, got), ManhattanInv, NEW f \in Flows, M!Recv(f)
  PROVE  Counters(sent, got)' /\ ManhattanInv' /\ Channels!Recv(f)
  <1> DEFINE q == arrived[f[2]]
             k == M!FindSrc(q, f[1]) + 1
             v == [j \in 1 .. Len(q) - 1 |-> IF j <= k - 1 THEN q[j] ELSE q[j + 1]]
  <1>1. f[2] \in Node
    BY FlowEnds
  <1>2. q \in Seq(Entry) /\ Len(q) \in Nat /\ \A i \in 1 .. Len(q) : q[i] \in Entry
    <2>1. q \in Seq(Entry)
      BY <1>1 DEF ManhattanInv
    <2> QED
      BY <2>1, LenProperties, ElementOfSeq
  <1>3. /\ k \in 1 .. Len(q) /\ q[k].src = f[1]
        /\ \A j \in 1 .. Len(q) : q[j].src = f[1] => k <= j
        /\ M!FindSrc(q, f[1]) = k - 1
    <2> DEFINE from == M!From(q, f[1])
               first == CHOOSE i \in from : \A j \in from : i <= j
    <2>1. from # {} /\ from \subseteq Nat
      <3>1. M!FindSrc(q, f[1]) >= 0
        BY DEF M!Recv
      <3>2. from # {}
        BY <3>1 DEF M!FindSrc
      <3> QED
        BY <1>2, <3>2 DEF M!From
    <2>2. first \in from /\ \A j \in from : first <= j
      BY <2>1, FirstExists
    <2>3. M!FindSrc(q, f[1]) = first - 1
      BY <2>1 DEF M!FindSrc
    <2>4. first \in Nat /\ k = first /\ M!FindSrc(q, f[1]) = k - 1
      BY <2>1, <2>2, <2>3
    <2> HIDE DEF k, first
    <2> QED
      BY <2>2, <2>4 DEF M!From
  <1>4. /\ arrived' = [arrived EXCEPT ![f[2]] = v] /\ got' = [got EXCEPT ![f] = q[k].seq]
        /\ sent' = sent /\ intransit' = intransit
    BY <1>3 DEF M!Recv
  <1> HIDE DEF k
  <1>5. v \in Seq(Entry) /\ IsWithout(v, q, k)
    <2>1. \A j \in 1 .. Len(q) - 1 :
            v[j] = (IF j < k THEN q[j] ELSE q[j + 1]) /\ v[j] \in Entry
      BY <1>2, <1>3
    <2>2. v \in [1 .. Len(q) - 1 -> Entry] /\ Len(q) - 1 \in Nat
      BY <1>2, <1>3, <2>1
    <2>3. v \in Seq(Entry) /\ Len(v) = Len(q) - 1
      BY <2>2, FunctionIsQueue
    <2> HIDE DEF v
    <2>4. \A i \in 1 .. Len(q) - 1 :
            /\ i < k => v[i].src = q[i].src /\ v[i].seq = q[i].seq
            /\ i >= k => v[i].src = q[i + 1].src /\ v[i].seq = q[i + 1].seq
      BY SMTT(40), <1>2, <1>3, <2>1
    <2> QED
      BY <1>3, <2>3, <2>4 DEF IsWithout
  <1> HIDE DEF v
  <1>6. arrived' \in [Node -> Seq(Entry)]
    BY <1>4, <1>5 DEF ManhattanInv
  <1>7. /\ ManhattanLines[f[2]][0] = q
        /\ LineShrinks(ManhattanLines, ManhattanLines', 1, f[2], f[1], k)
    BY <1>1, <1>3, <1>4, <1>5 DEF ManhattanLines, ManhattanInv, LineShrinks
  <1>8. AreLines(ManhattanLines, 1) /\ InOrder(ManhattanLines, 1, sent, got)
    BY ManhattanAreLines DEF ManhattanInv
  <1>9. /\ got[f] < sent[f] /\ ManhattanLines[f[2]][0][k].seq = got[f] + 1
        /\ Counters(sent, [got EXCEPT ![f] = @ + 1])
        /\ InOrder(ManhattanLines', 1, sent, [got EXCEPT ![f] = @ + 1])
    BY <1>7, <1>8, ReceivedInOrder
  <1>10. got' = [got EXCEPT ![f] = @ + 1]
    BY <1>4, <1>7, <1>9
  <1> QED
    BY <1>4, <1>6, <1>9, <1>10 DEF ManhattanInv, Channels!Recv, Counters, InOrder, Travels

\* The flits of a list step on, and a flit may leave it that is not longer on
\* its way than the later ones of its sender.
LEMMA StepTravels ==
  ASSUME NEW e \in Travelling, e.left > 1
  PROVE  /\ M!Step(e) \in Travelling /\ M!Step(e).left = e.left - 1
         /\ M!Step(e).src = e.src /\ M!Step(e).seq = e.seq
  <1>1. e = [src |-> e.src, seq |-> e.seq, left |-> e.left]
    BY DEF Travelling
  <1>2. M!Step(e) = [src |-> e.src, seq |-> e.seq, left |-> e.left - 1]
    BY <1>1 DEF M!Step, Travelling
  <1>3. e.left - 1 \in Nat /\ e.src \in Node /\ e.seq \in Nat
    BY DEF Travelling
  <1> QED
    BY <1>2, <1>3 DEF Travelling

\* A cycle in which no flit of a list arrives.
LEMMA NoneArrives ==
  ASSUME NocAssumption, NEW n \in Node, NEW q, Travels(q, n), NEW a, M!First(q) = {}
  PROVE  /\ Travels(M!StillInTransit(q), n) /\ M!Arrived(q, a) = a
         /\ Len(M!StillInTransit(q)) = Len(q)
         /\ \A i \in 1 .. Len(q) : /\ M!StillInTransit(q)[i].src = q[i].src
                                  /\ M!StillInTransit(q)[i].seq = q[i].seq
  <1> DEFINE r == M!StillInTransit(q)
             len == Len(q)
  <1>1. /\ len \in Nat
        /\ \A i \in 1 .. len : /\ q[i] \in Travelling /\ q[i].left \in Nat /\ q[i].left >= 1
                              /\ q[i].left <= M!Latency(q[i].src, n)
    BY TravellingFlits DEF Travels
  <1>2. \A i \in 1 .. len : q[i].left # 1
    <2> DEFINE T == {i \in 1 .. len : q[i].left = 1}
    <2>1. SUFFICES ASSUME T # {} PROVE FALSE
      OBVIOUS
    <2>2. T \subseteq Nat
      BY <1>1
    <2> HIDE DEF T
    <2>3. PICK x \in T : \A y \in T : x <= y
      BY <2>1, <2>2, FirstExists
    <2> USE DEF T
    <2>4. x \in 1 .. len /\ q[x].left = 1
      OBVIOUS
    <2>5. \A j \in 1 .. x - 1 : q[j].left # 1
      BY <1>1, <2>3, <2>4
    <2> QED
      BY <2>4, <2>5 DEF M!First
  <1>3. r = [j \in 1 .. len |-> M!Step(q[j])]
    BY DEF M!StillInTransit
  <1>4. \A i \in 1 .. len : /\ r[i] \in Travelling /\ r[i].left = q[i].left - 1
                           /\ r[i].src = q[i].src /\ r[i].seq = q[i].seq
    BY <1>1, <1>2, <1>3, StepTravels
  <1>5. r \in Seq(Travelling) /\ Len(r) = len
    <2>1. r \in [1 .. len -> Travelling]
      BY <1>3, <1>4
    <2> QED
      BY <1>1, <2>1, FunctionIsQueue
  <1> HIDE DEF r
  <1>6. \A i \in 1 .. len : 1 <= r[i].left /\ r[i].left <= M!Latency(r[i].src, n)
    <2>1. \A i \in 1 .. len : M!Latency(q[i].src, n) \in Nat
      BY <1>1, LatencyPositive DEF Travelling
    <2>2. \A i \in 1 .. len : 1 <= q[i].left - 1 /\ q[i].left - 1 <= M!Latency(q[i].src, n)
      BY <1>1, <1>2, <2>1
    <2> QED
      BY <1>4, <2>2
  <1>7. \A i, j \in 1 .. len : i < j /\ r[i].src = r[j].src => r[i].left <= r[j].left
    <2>1. \A i, j \in 1 .. len : i < j /\ q[i].src = q[j].src => q[i].left <= q[j].left
      BY DEF Travels
    <2> QED
      BY <1>1, <1>4, <2>1
  <1>8. Travels(r, n)
    BY <1>5, <1>6, <1>7 DEF Travels
  <1>9. M!Arrived(q, a) = a
    BY DEF M!Arrived
  <1> QED
    BY <1>4, <1>5, <1>8, <1>9 DEF r

\* A cycle in which a flit arrives, the first one of its sender.
LEMMA OneArrives ==
  ASSUME NocAssumption, NEW n \in Node, NEW q, Travels(q, n), NEW a \in Seq(Entry), M!First(q) # {}
  PROVE  /\ Travels(M!StillInTransit(q), n) /\ M!Arrived(q, a) \in Seq(Entry)
         /\ \E k \in 1 .. Len(q) :
              /\ IsAppended(M!Arrived(q, a), a, q[k])
              /\ IsWithout(M!StillInTransit(q), q, k)
              /\ \A j \in 1 .. Len(q) : q[j].src = q[k].src => k <= j
  <1> DEFINE r == M!StillInTransit(q)
             len == Len(q)
             k == CHOOSE i \in M!First(q) : TRUE
             e == [src |-> q[k].src, seq |-> q[k].seq]
  <1>1. /\ len \in Nat /\ q \in Seq(Travelling)
        /\ \A i \in 1 .. len : /\ q[i] \in Travelling /\ q[i].left \in Nat /\ q[i].left >= 1
                              /\ q[i].src \in Node /\ q[i].seq \in Nat
                              /\ q[i].left <= M!Latency(q[i].src, n)
    BY TravellingFlits DEF Travels
  <1>2. k \in 1 .. len /\ q[k].left = 1 /\ \A j \in 1 .. k - 1 : q[j].left # 1
    <2>1. k \in M!First(q)
      OBVIOUS
    <2> HIDE DEF k
    <2> QED
      BY <2>1 DEF M!First
  <1>3. r = [j \in 1 .. len - 1 |-> IF j < k THEN M!Step(q[j]) ELSE q[j + 1]]
    BY DEF M!StillInTransit
  <1>4. M!Arrived(q, a) = Append(a, e)
    BY DEF M!Arrived, M!Enqueued
  <1> HIDE DEF k
  <1>5. e \in Entry /\ e.src = q[k].src /\ e.seq = q[k].seq
    BY <1>1, <1>2 DEF Entry
  <1> HIDE DEF e
  <1>6. Append(a, e) \in Seq(Entry) /\ IsAppended(Append(a, e), a, q[k])
    <2>1. Append(a, e) \in Seq(Entry) /\ IsAppended(Append(a, e), a, e)
      BY <1>5, AppendAppends
    <2> QED
      BY <1>5, <2>1 DEF IsAppended
  <1>7. ASSUME NEW i \in 1 .. len - 1
        PROVE  /\ r[i] \in Travelling
               /\ i < k => /\ r[i].src = q[i].src /\ r[i].seq = q[i].seq
                          /\ r[i].left = q[i].left - 1 /\ r[i].left >= 1
               /\ i >= k => r[i] = q[i + 1]
    <2>1. CASE i < k
      <3>1. r[i] = M!Step(q[i]) /\ i \in 1 .. len /\ q[i].left > 1
        BY <1>1, <1>2, <1>3, <2>1
      <3>2. M!Step(q[i]) \in Travelling /\ M!Step(q[i]).left = q[i].left - 1
            /\ M!Step(q[i]).src = q[i].src /\ M!Step(q[i]).seq = q[i].seq
        BY <1>1, <3>1, StepTravels
      <3>3. q[i].left - 1 >= 1
        BY <1>1, <3>1
      <3> QED
        BY <1>1, <1>2, <2>1, <3>1, <3>2, <3>3
    <2>2. CASE ~(i < k)
      <3>1. r[i] = q[i + 1] /\ i + 1 \in 1 .. len
        BY <1>1, <1>2, <1>3, <2>2
      <3> QED
        BY <1>1, <2>2, <3>1
    <2> QED
      BY <2>1, <2>2
  <1>8. r \in Seq(Travelling) /\ Len(r) = len - 1
    <2>1. r \in [1 .. len - 1 -> Travelling] /\ len - 1 \in Nat
      BY <1>1, <1>2, <1>3, <1>7
    <2> QED
      BY <2>1, FunctionIsQueue
  <1> HIDE DEF r
  <1>9. IsWithout(r, q, k)
    BY <1>2, <1>7, <1>8 DEF IsWithout
  <1>10. \A i, j \in 1 .. len : i < j /\ q[i].src = q[j].src => q[i].left <= q[j].left
    BY DEF Travels
  <1>11. ASSUME NEW j \in 1 .. len, q[j].src = q[k].src
         PROVE  k <= j
    BY <1>1, <1>2, <1>10, <1>11
  <1>12. ASSUME NEW i \in 1 .. len - 1
         PROVE  1 <= r[i].left /\ r[i].left <= M!Latency(r[i].src, n)
    <2>1. i \in 1 .. len /\ i + 1 \in 1 .. len
      BY <1>1
    <2>2. M!Latency(q[i].src, n) \in Nat
      BY <1>1, <2>1, LatencyPositive
    <2>3. CASE i < k
      <3>1. q[i].left - 1 <= M!Latency(q[i].src, n)
        BY <1>1, <2>1, <2>2
      <3> QED
        BY <1>7, <2>3, <3>1
    <2>4. CASE ~(i < k)
      <3>1. r[i] = q[i + 1]
        BY <1>1, <1>2, <1>7, <2>4
      <3> QED
        BY <1>1, <2>1, <3>1
    <2> QED
      BY <2>3, <2>4
  <1>13. ASSUME NEW i \in 1 .. len - 1, NEW j \in 1 .. len - 1, i < j, r[i].src = r[j].src
         PROVE  r[i].left <= r[j].left
    <2>1. /\ i \in 1 .. len /\ j \in 1 .. len /\ i + 1 \in 1 .. len /\ j + 1 \in 1 .. len
          /\ k \in Int /\ i \in Int /\ j \in Int
      BY <1>1, <1>2
    <2>2. CASE j < k
      <3>1. /\ r[i].src = q[i].src /\ r[i].left = q[i].left - 1
            /\ r[j].src = q[j].src /\ r[j].left = q[j].left - 1
        BY <1>7, <1>13, <2>1, <2>2
      <3>2. q[i].left <= q[j].left
        BY <1>10, <1>13, <2>1, <3>1
      <3> QED
        BY <1>1, <2>1, <3>1, <3>2
    <2>3. CASE i < k /\ j >= k
      <3>1. /\ r[i].src = q[i].src /\ r[i].left = q[i].left - 1
            /\ r[j] = q[j + 1] /\ i < j + 1
        BY <1>7, <1>13, <2>1, <2>3
      <3>2. q[i].left <= q[j + 1].left
        BY <1>10, <1>13, <2>1, <3>1
      <3> QED
        BY <1>1, <2>1, <3>1, <3>2
    <2>4. CASE i >= k
      <3>1. r[i] = q[i + 1] /\ r[j] = q[j + 1] /\ i + 1 < j + 1
        BY <1>7, <1>13, <2>1, <2>4
      <3> QED
        BY <1>10, <1>13, <2>1, <3>1
    <2> QED
      BY <1>13, <2>1, <2>2, <2>3, <2>4
  <1>14. Travels(r, n)
    BY <1>8, <1>12, <1>13 DEF Travels
  <1> QED
    BY <1>2, <1>4, <1>6, <1>9, <1>11, <1>14 DEF r

LEMMA ManhattanRoutes ==
  ASSUME NocAssumption, Counters(sent, got), ManhattanInv, M!RouteAll
  PROVE  Counters(sent, got)' /\ ManhattanInv' /\ UNCHANGED <<sent, got>>
  <1>1. /\ intransit' = [n \in Node |-> M!StillInTransit(intransit[n])]
        /\ arrived' = [n \in Node |-> M!Arrived(intransit[n], arrived[n])]
        /\ sent' = sent /\ got' = got
    BY DEF M!RouteAll, M!Node, Node
  <1>2. ASSUME NEW n \in Node
        PROVE  arrived[n] \in Seq(Entry) /\ Travels(intransit[n], n)
    BY DEF ManhattanInv
  <1>3. ASSUME NEW n \in Node
        PROVE  arrived'[n] \in Seq(Entry) /\ Travels(intransit'[n], n)
    BY <1>1, <1>2, NoneArrives, OneArrives
  <1>4. arrived' \in [Node -> Seq(Entry)] /\ intransit' \in [Node -> Seq(Travelling)]
    BY <1>1, <1>3 DEF Travels
  <1>5. ASSUME NEW f \in Flows
        PROVE  Carries(ManhattanLines'[f[2]], 1, f[1], got[f], sent[f])
    <2> DEFINE n == f[2]
               L == ManhattanLines[n]
               V == ManhattanLines'[n]
               q == intransit[n]
               a == arrived[n]
    <2>1. n \in Node
      BY FlowEnds
    <2>2. /\ L[0] = a /\ L[1] = q
          /\ V[0] = M!Arrived(q, a) /\ V[1] = M!StillInTransit(q)
      BY <1>1, <2>1 DEF ManhattanLines
    <2>3. IsLine(L, 1) /\ Carries(L, 1, f[1], got[f], sent[f])
      BY <2>1, ManhattanAreLines DEF ManhattanInv, AreLines, InOrder
    <2>4. got[f] \in Nat /\ sent[f] \in Nat
      BY DEF Counters
    <2>5. a \in Seq(Entry) /\ Travels(q, n)
      BY <1>2, <2>1
    <2> HIDE DEF n, L, V, q, a
    <2>6. CASE M!First(q) = {}
      <3>1. /\ V[0] = L[0] /\ Len(V[1]) = Len(L[1])
            /\ \A i \in 1 .. Len(L[1]) : V[1][i].src = L[1][i].src /\ V[1][i].seq = L[1][i].seq
        BY <2>1, <2>2, <2>5, <2>6, NoneArrives
      <3>2. \A p \in 0 .. 1 : p = 0 \/ p = 1
        OBVIOUS
      <3>3. \A p \in 0 .. 1 :
              /\ Len(V[p]) = Len(L[p])
              /\ \A i \in 1 .. Len(L[p]) : V[p][i].src = L[p][i].src /\ V[p][i].seq = L[p][i].seq
        BY <3>1, <3>2
      <3>4. Carries(V, 1, f[1], got[f], sent[f])
        BY ZenonT(60), <2>3, <3>3, SameFlitsCarries
      <3> QED
        BY <3>4 DEF V, n
    <2>7. CASE M!First(q) # {}
      <3>1. PICK k \in 1 .. Len(q) :
              /\ IsAppended(V[0], L[0], L[1][k]) /\ IsWithout(V[1], L[1], k)
              /\ \A j \in 1 .. Len(L[1]) : L[1][j].src = L[1][k].src => k <= j
        BY <2>1, <2>2, <2>5, <2>7, OneArrives
      <3>2. Carries(V, 1, f[1], got[f], sent[f])
        BY <2>3, <2>4, <3>1, MovedCarries
      <3> QED
        BY <3>2 DEF V, n
    <2> QED
      BY <2>6, <2>7
  <1>6. InOrder(ManhattanLines', 1, sent, got)
    BY <1>5 DEF InOrder
  <1> QED
    BY <1>1, <1>3, <1>4, <1>6 DEF ManhattanInv, Counters, InOrder

-----------------------------------------------------------------------------
(***************************************************************************)
(* The network of fixedlat.c has a queue of the flits of this cycle and    *)
(* the slots of the ring, which are lined up from the slot that is due     *)
(* next to the slot that was filled last.                                  *)
(***************************************************************************)
Slot(n, p) == (pos[n] + p - 1) % TransportDelay

FixedLines ==
  [n \in Node |-> [p \in 0 .. TransportDelay + 1 |->
     IF p = 0 THEN arrived[n]
     ELSE IF p = TransportDelay + 1 THEN incoming[n] ELSE intransit[n][Slot(n, p)]]]

FixedInv ==
  /\ incoming \in [Node -> Seq(Entry)]
  /\ intransit \in [Node -> [0 .. TransportDelay - 1 -> Seq(Entry)]]
  /\ pos \in [Node -> 0 .. TransportDelay - 1]
  /\ arrived \in [Node -> Seq(Entry)]
  /\ InOrder(FixedLines, TransportDelay + 1, sent, got)

\* The ring turns without a gap.
LEMMA RingPlaces ==
  ASSUME NEW T \in Nat \ {0}, NEW x \in 0 .. T - 1
  PROVE  /\ (x + 1) % T = IF x = T - 1 THEN 0 ELSE x + 1
         /\ \A p \in 1 .. T : (x + p - 1) % T = IF x + p - 1 < T THEN x + p - 1 ELSE x + p - 1 - T
  <1>1. ASSUME NEW a \in 0 .. 2 * T - 1
        PROVE  a % T = IF a < T THEN a ELSE a - T
    <2>1. a = T * (a \div T) + (a % T) /\ a \div T \in Nat /\ a % T \in 0 .. T - 1
      OBVIOUS
    <2>2. a \div T < 2
      <3>1. SUFFICES ASSUME a \div T >= 2 PROVE FALSE
        BY <2>1
      <3>2. T * (a \div T) >= T * 2
        BY <2>1, <3>1
      <3> QED
        BY <2>1, <3>2
    <2>3. a \div T = 0 \/ a \div T = 1
      BY <2>1, <2>2
    <2> QED
      BY <2>1, <2>3
  <1>2. x + 1 \in 0 .. 2 * T - 1 /\ \A p \in 1 .. T : x + p - 1 \in 0 .. 2 * T - 1
    OBVIOUS
  <1> QED
    BY <1>1, <1>2

LEMMA SlotInRing ==
  ASSUME NocAssumption, pos \in [Node -> 0 .. TransportDelay - 1], NEW n \in Node,
         NEW p \in 1 .. TransportDelay
  PROVE  Slot(n, p) \in 0 .. TransportDelay - 1
  <1>1. TransportDelay \in Nat \ {0} /\ pos[n] \in 0 .. TransportDelay - 1
    BY DEF NocAssumption, F!FixedLatAssumption
  <1> QED
    BY <1>1 DEF Slot

LEMMA FixedAreLines ==
  ASSUME NocAssumption, arrived \in [Node -> Seq(Entry)], incoming \in [Node -> Seq(Entry)],
         intransit \in [Node -> [0 .. TransportDelay - 1 -> Seq(Entry)]],
         pos \in [Node -> 0 .. TransportDelay - 1]
  PROVE  AreLines(FixedLines, TransportDelay + 1)
  <1>1. TransportDelay \in Nat \ {0}
    BY DEF NocAssumption, F!FixedLatAssumption
  <1>2. ASSUME NEW n \in Node, NEW p \in 0 .. TransportDelay + 1
        PROVE  FixedLines[n][p] \in Seq(Entry)
    <2>1. CASE p \in 1 .. TransportDelay
      BY <1>1, <2>1, SlotInRing DEF FixedLines
    <2>2. CASE p = 0 \/ p = TransportDelay + 1
      BY <1>1, <2>2 DEF FixedLines
    <2> QED
      BY <1>1, <2>1, <2>2
  <1> QED
    BY <1>2, QueueIsLine DEF AreLines, IsLine

LEMMA FixedStarts ==
  ASSUME NocAssumption, F!Init
  PROVE  Counters(sent, got) /\ FixedInv
  <1>1. /\ arrived = [n \in Node |-> <<>>] /\ incoming = [n \in Node |-> <<>>]
        /\ intransit = [n \in Node |-> [p \in 0 .. TransportDelay - 1 |-> <<>>]]
        /\ pos = [n \in Node |-> 0]
        /\ sent = [f \in Flows |-> 0] /\ got = [f \in Flows |-> 0]
    BY DEF F!Init, F!Node, Node, F!Delay
  <1>2. TransportDelay \in Nat \ {0}
    BY DEF NocAssumption, F!FixedLatAssumption
  <1>3. Counters(sent, got)
    BY <1>1 DEF Counters
  <1>4. /\ arrived \in [Node -> Seq(Entry)] /\ incoming \in [Node -> Seq(Entry)]
        /\ intransit \in [Node -> [0 .. TransportDelay - 1 -> Seq(Entry)]]
        /\ pos \in [Node -> 0 .. TransportDelay - 1]
    BY <1>1, <1>2
  <1>5. ASSUME NEW f \in Flows
        PROVE  Carries(FixedLines[f[2]], TransportDelay + 1, f[1], got[f], sent[f])
    <2>1. f[2] \in Node
      BY FlowEnds
    <2>2. ASSUME NEW p \in 0 .. TransportDelay + 1
          PROVE  FixedLines[f[2]][p] = <<>>
      <3>1. CASE p \in 1 .. TransportDelay
        BY <1>1, <1>2, <1>4, <2>1, <3>1, SlotInRing DEF FixedLines
      <3>2. CASE p = 0 \/ p = TransportDelay + 1
        BY <1>1, <1>2, <2>1, <3>2 DEF FixedLines
      <3> QED
        BY <1>2, <3>1, <3>2
    <2> QED
      BY <1>1, <1>2, <2>2, EmptyCarries
  <1> QED
    BY <1>3, <1>4, <1>5 DEF FixedInv, InOrder

LEMMA FixedSends ==
  ASSUME NocAssumption, Counters(sent, got), FixedInv, NEW f \in Flows, F!Send(f)
  PROVE  Counters(sent, got)' /\ FixedInv' /\ Channels!Send(f)
  <1> DEFINE e == [src |-> f[1], seq |-> sent[f] + 1]
             q == incoming[f[2]]
             K == TransportDelay + 1
  <1>1. /\ sent[f] < MaxFlits /\ got' = got /\ sent' = [sent EXCEPT ![f] = @ + 1]
        /\ incoming' = [incoming EXCEPT ![f[2]] = Append(q, e)]
        /\ intransit' = intransit /\ pos' = pos /\ arrived' = arrived
    BY DEF F!Send
  <1>2. f[1] \in Node /\ f[2] \in Node /\ TransportDelay \in Nat \ {0} /\ K \in Nat
    BY FlowEnds DEF NocAssumption, F!FixedLatAssumption
  <1>3. q \in Seq(Entry) /\ e \in Entry
    <2>1. q \in Seq(Entry)
      BY <1>2 DEF FixedInv
    <2>2. e \in Entry
      BY <1>2 DEF Counters, Entry
    <2> QED
      BY <2>1, <2>2
  <1>4. Append(q, e) \in Seq(Entry) /\ IsAppended(Append(q, e), q, e)
    BY <1>3, AppendAppends
  <1>5. incoming' \in [Node -> Seq(Entry)]
    BY <1>1, <1>4 DEF FixedInv
  <1>6. LineGrows(FixedLines, FixedLines', K, f[2], e)
    <2>1. FixedLines[f[2]][K] = q /\ FixedLines'[f[2]][K] = Append(q, e)
      <3>1. K \in 0 .. K /\ K # 0
        BY <1>2
      <3>2. incoming'[f[2]] = Append(q, e)
        BY <1>1, <1>2 DEF FixedInv
      <3> HIDE DEF e
      <3> QED
        BY <1>2, <3>1, <3>2 DEF FixedLines
    <2>2. ASSUME NEW n \in Node, NEW p \in 0 .. K, n # f[2] \/ p # K
          PROVE  FixedLines'[n][p] = FixedLines[n][p]
      <3>1. p = K => incoming'[n] = incoming[n]
        BY <1>1, <2>2 DEF FixedInv
      <3> QED
        BY <1>1, <1>2, <2>2, <3>1 DEF FixedLines, Slot
    <2> HIDE DEF e, K
    <2> QED
      BY <1>4, <2>1, <2>2 DEF LineGrows
  <1>7. AreLines(FixedLines, K) /\ InOrder(FixedLines, K, sent, got)
    BY FixedAreLines DEF FixedInv
  <1>8. Counters(sent', got) /\ InOrder(FixedLines', K, sent', got)
    <2> HIDE DEF K
    <2> QED
      BY <1>1, <1>2, <1>6, <1>7, SentInOrder
  <1> QED
    BY <1>1, <1>5, <1>8 DEF FixedInv, Channels!Send, Counters, InOrder

LEMMA FixedReceives ==
  ASSUME NocAssumption, Counters(sent, got), FixedInv, NEW f \in Flows, F!Recv(f)
  PROVE  Counters(sent, got)' /\ FixedInv' /\ Channels!Recv(f)
  <1> DEFINE q == arrived[f[2]]
             v(k) == SubSeq(q, 1, k - 1) \o SubSeq(q, k + 1, Len(q))
             K == TransportDelay + 1
  <1>1. PICK k \in 1 .. Len(q) :
          /\ q[k].src = f[1] /\ \A j \in 1 .. Len(q) : q[j].src = f[1] => k <= j
          /\ arrived' = [arrived EXCEPT ![f[2]] = v(k)]
          /\ got' = [got EXCEPT ![f] = q[k].seq] /\ sent' = sent
          /\ incoming' = incoming /\ intransit' = intransit /\ pos' = pos
    BY DEF F!Recv, F!From, F!Without
  <1>2. f[2] \in Node /\ TransportDelay \in Nat \ {0} /\ K \in Nat
    BY FlowEnds DEF NocAssumption, F!FixedLatAssumption
  <1>3. v(k) \in Seq(Entry) /\ IsWithout(v(k), q, k)
    BY <1>2, CutRemoves DEF FixedInv
  <1> HIDE DEF v
  <1>4. arrived' \in [Node -> Seq(Entry)]
    BY <1>1, <1>3 DEF FixedInv
  <1>5. /\ FixedLines[f[2]][0] = q
        /\ LineShrinks(FixedLines, FixedLines', K, f[2], f[1], k)
    <2>1. /\ FixedLines[f[2]][0] = q /\ FixedLines'[f[2]][0] = v(k)
          /\ \A n \in Node : \A p \in 0 .. K :
               n # f[2] \/ p # 0 => FixedLines'[n][p] = FixedLines[n][p]
      BY <1>1, <1>2 DEF FixedLines, FixedInv, Slot
    <2> QED
      BY <1>1, <1>3, <2>1 DEF LineShrinks
  <1>6. AreLines(FixedLines, K) /\ InOrder(FixedLines, K, sent, got)
    BY FixedAreLines DEF FixedInv
  <1>7. /\ got[f] < sent[f] /\ FixedLines[f[2]][0][k].seq = got[f] + 1
        /\ Counters(sent, [got EXCEPT ![f] = @ + 1])
        /\ InOrder(FixedLines', K, sent, [got EXCEPT ![f] = @ + 1])
    <2> HIDE DEF K
    <2> QED
      BY <1>2, <1>5, <1>6, ReceivedInOrder
  <1>8. got' = [got EXCEPT ![f] = @ + 1]
    BY <1>1, <1>5, <1>7
  <1> QED
    BY <1>1, <1>4, <1>7, <1>8 DEF FixedInv, Channels!Recv, Counters, InOrder

\* The due slot arrives, the other slots come one place closer, and the flits of
\* this cycle take the slot that was due, which is now the last one.
LEMMA FixedRoutes ==
  ASSUME NocAssumption, Counters(sent, got), FixedInv, F!RouteAll
  PROVE  Counters(sent, got)' /\ FixedInv' /\ UNCHANGED <<sent, got>>
  <1> DEFINE T == TransportDelay
             K == T + 1
  <1>1. /\ arrived' = [n \in Node |-> arrived[n] \o intransit[n][pos[n]]]
        /\ intransit' = [n \in Node |-> [intransit[n] EXCEPT ![pos[n]] = incoming[n]]]
        /\ incoming' = [n \in Node |-> <<>>]
        /\ pos' = [n \in Node |-> (pos[n] + 1) % TransportDelay]
        /\ sent' = sent /\ got' = got
    BY DEF F!RouteAll, F!Node, Node, F!Cat, F!Turned
  <1>2. T \in Nat \ {0} /\ K \in Nat
    BY DEF NocAssumption, F!FixedLatAssumption
  <1>3. ASSUME NEW n \in Node
        PROVE  /\ pos[n] \in 0 .. T - 1 /\ incoming[n] \in Seq(Entry)
               /\ intransit[n] \in [0 .. T - 1 -> Seq(Entry)] /\ arrived[n] \in Seq(Entry)
    BY DEF FixedInv
  <1>4. /\ incoming' \in [Node -> Seq(Entry)]
        /\ intransit' \in [Node -> [0 .. T - 1 -> Seq(Entry)]]
        /\ pos' \in [Node -> 0 .. T - 1]
        /\ arrived' \in [Node -> Seq(Entry)]
    <2>1. incoming' \in [Node -> Seq(Entry)]
      BY <1>1
    <2>2. intransit' \in [Node -> [0 .. T - 1 -> Seq(Entry)]]
      BY <1>1, <1>3
    <2>3. pos' \in [Node -> 0 .. T - 1]
      BY <1>1, <1>2, <1>3
    <2>4. ASSUME NEW n \in Node
          PROVE  arrived[n] \o intransit[n][pos[n]] \in Seq(Entry)
      BY <1>3, ConcatProperties
    <2> QED
      BY <1>1, <2>1, <2>2, <2>3, <2>4
  <1>5. ASSUME NEW n \in Node
        PROVE  IsShifted(FixedLines'[n], FixedLines[n], K)
    <2> DEFINE L == FixedLines[n]
               V == FixedLines'[n]
               x == pos[n]
    <2>1. x \in 0 .. T - 1 /\ pos'[n] = IF x = T - 1 THEN 0 ELSE x + 1
      BY <1>1, <1>2, <1>3, RingPlaces
    <2>2. \A p \in 1 .. T : Slot(n, p) = IF x + p - 1 < T THEN x + p - 1 ELSE x + p - 1 - T
      BY <1>2, <2>1, RingPlaces DEF Slot
    <2>3. \A p \in 1 .. T : Slot(n, p)' = (pos'[n] + p - 1) % T /\ pos'[n] \in 0 .. T - 1
      BY <1>2, <2>1 DEF Slot
    <2>4. \A p \in 1 .. T : Slot(n, p)' = IF pos'[n] + p - 1 < T THEN pos'[n] + p - 1
                                         ELSE pos'[n] + p - 1 - T
      BY <1>2, <2>3, RingPlaces
    <2>5. Slot(n, 1) = x /\ Slot(n, T)' = x
      BY <1>2, <2>1, <2>2, <2>4
    <2>6. \A p \in 1 .. T - 1 : Slot(n, p)' = Slot(n, p + 1) /\ Slot(n, p)' # x
      BY <1>2, <2>1, <2>2, <2>4
    <2>7. /\ L[0] = arrived[n] /\ L[1] = intransit[n][x] /\ L[K] = incoming[n]
          /\ \A p \in 1 .. T : L[p] = intransit[n][Slot(n, p)]
      BY <1>2, <2>5 DEF FixedLines
    <2>8. /\ V[0] = arrived'[n] /\ V[K] = incoming'[n]
          /\ \A p \in 1 .. T : V[p] = intransit'[n][Slot(n, p)']
      BY <1>2 DEF FixedLines, Slot
    <2>9. /\ arrived'[n] = arrived[n] \o intransit[n][x] /\ incoming'[n] = <<>>
          /\ intransit'[n] = [intransit[n] EXCEPT ![x] = incoming[n]]
      BY <1>1
    <2>10. ASSUME NEW p \in 1 .. T - 1
           PROVE  V[p] = L[p + 1]
      <3>1. p \in 1 .. T /\ p + 1 \in 1 .. T
        BY <1>2
      <3>2. Slot(n, p + 1) \in 0 .. T - 1
        BY <1>2, <2>1, <2>2, <3>1
      <3> HIDE DEF L, V
      <3>3. V[p] = intransit'[n][Slot(n, p + 1)] /\ Slot(n, p + 1) # x
        BY <2>6, <2>8, <3>1
      <3>4. L[p + 1] = intransit[n][Slot(n, p + 1)]
        BY <2>7, <3>1
      <3> QED
        BY <1>3, <2>9, <3>2, <3>3, <3>4
    <2>11. V[T] = L[T + 1]
      <3>1. T \in 1 .. T
        BY <1>2
      <3> HIDE DEF L, V
      <3>2. V[T] = intransit'[n][x]
        BY <2>5, <2>8, <3>1
      <3> QED
        BY <1>3, <2>1, <2>7, <2>9, <3>2
    <2>12. \A p \in 1 .. K - 1 : V[p] = L[p + 1]
      <3>1. \A p \in 1 .. K - 1 : p \in 1 .. T - 1 \/ p = T
        BY <1>2
      <3> QED
        BY <2>10, <2>11, <3>1
    <2> DEFINE a == arrived[n]
               b == intransit[n][x]
    <2>13. a \in Seq(Entry) /\ b \in Seq(Entry)
      BY <1>3, <2>1
    <2> HIDE DEF L, V, a, b
    <2>14. L[0] = a /\ L[1] = b /\ V[0] = a \o b /\ V[K] = <<>>
      BY <2>7, <2>8, <2>9 DEF a, b
    <2>15. /\ Len(a) \in Nat /\ Len(b) \in Nat /\ Len(a \o b) = Len(a) + Len(b)
           /\ \A i \in 1 .. Len(a) + Len(b) :
                (a \o b)[i] = IF i <= Len(a) THEN a[i] ELSE b[i - Len(a)]
      BY <2>13, ConcatProperties, LenProperties
    <2>16. \A i \in 1 .. Len(a) : (a \o b)[i] = a[i]
      BY <2>15
    <2>17. \A i \in 1 .. Len(b) : (a \o b)[Len(a) + i] = b[i]
      BY <2>15
    <2>18. IsShifted(V, L, K)
      BY <2>12, <2>14, <2>15, <2>16, <2>17 DEF IsShifted
    <2> QED
      BY <2>18 DEF V, L
  <1>6. ASSUME NEW f \in Flows
        PROVE  Carries(FixedLines'[f[2]], K, f[1], got[f], sent[f])
    <2> DEFINE L == FixedLines[f[2]]
               V == FixedLines'[f[2]]
    <2>1. f[2] \in Node
      BY FlowEnds
    <2>2. IsLine(L, K) /\ Carries(L, K, f[1], got[f], sent[f]) /\ IsShifted(V, L, K)
      BY <1>5, <2>1, FixedAreLines DEF FixedInv, AreLines, InOrder
    <2>3. got[f] \in Nat /\ sent[f] \in Nat /\ K >= 1
      BY <1>2 DEF Counters
    <2> HIDE DEF L, V, K
    <2>4. Carries(V, K, f[1], got[f], sent[f])
      BY <1>2, <2>2, <2>3, ShiftedCarries
    <2> QED
      BY <2>4 DEF V
  <1>7. InOrder(FixedLines', K, sent, got)
    BY <1>6 DEF InOrder
  <1> QED
    BY <1>1, <1>4, <1>7 DEF FixedInv, Counters, InOrder

-----------------------------------------------------------------------------
\* Whatever the type of the network, what it holds is what its nodes were sent
\* and have not received, each flow in order.
Inv ==
  /\ nocType \in Types
  /\ Counters(sent, got)
  /\ nocType = "perfect" => PerfectInv
  /\ nocType = "manhattan" => ManhattanInv
  /\ nocType = "fixedlat" => FixedInv

LEMMA Starts ==
  ASSUME NocAssumption, Init
  PROVE  Inv /\ Channels!Init
  <1>1. nocType \in Types /\ sent = [f \in Flows |-> 0] /\ got = [f \in Flows |-> 0]
    BY DEF Init, M!Init, F!Init, P!Init
  <1>2. Inv
    BY <1>1, PerfectStarts, ManhattanStarts, FixedStarts DEF Init, Inv
  <1> QED
    BY <1>1, <1>2 DEF Channels!Init

LEMMA Steps ==
  ASSUME NocAssumption, Inv, [Next]_vars
  PROVE  Inv' /\ [Channels!Next]_(Channels!vars)
  <1>1. CASE UNCHANGED vars
    BY ZenonT(60), <1>1 DEF vars, Inv, Counters, PerfectInv, PerfectLines, ManhattanInv, ManhattanLines,
                FixedInv, FixedLines, Slot, InOrder, Travels, Channels!vars
  <1>2. CASE RouteAll
    <2>1. CASE nocType = "manhattan" /\ M!RouteAll /\ UNCHANGED <<nocType, incoming, pos>>
      BY <2>1, ManhattanRoutes DEF Inv, Channels!vars
    <2>2. CASE nocType = "fixedlat" /\ F!RouteAll /\ UNCHANGED nocType
      BY <2>2, FixedRoutes DEF Inv, Channels!vars
    <2>3. CASE nocType = "perfect" /\ UNCHANGED vars
      BY <1>1, <2>3
    <2> QED
      BY <1>2, <2>1, <2>2, <2>3 DEF RouteAll
  <1>3. ASSUME NEW f \in Flows, Send(f)
        PROVE  Inv' /\ Channels!Next
    <2>1. CASE nocType = "manhattan" /\ M!Send(f) /\ UNCHANGED <<nocType, incoming, pos>>
      BY <2>1, ManhattanSends DEF Inv, Channels!Next
    <2>2. CASE nocType = "fixedlat" /\ F!Send(f) /\ UNCHANGED nocType
      BY <2>2, FixedSends DEF Inv, Channels!Next
    <2>3. CASE nocType = "perfect" /\ P!Send(f) /\ UNCHANGED <<nocType, incoming, intransit, pos>>
      BY <2>3, PerfectSends DEF Inv, Channels!Next
    <2> QED
      BY <1>3, <2>1, <2>2, <2>3 DEF Send
  <1>4. ASSUME NEW f \in Flows, Recv(f)
        PROVE  Inv' /\ Channels!Next
    <2>1. CASE nocType = "manhattan" /\ M!Recv(f) /\ UNCHANGED <<nocType, incoming, pos>>
      BY <2>1, ManhattanReceives DEF Inv, Channels!Next
    <2>2. CASE nocType = "fixedlat" /\ F!Recv(f) /\ UNCHANGED nocType
      BY <2>2, FixedReceives DEF Inv, Channels!Next
    <2>3. CASE nocType = "perfect" /\ P!Recv(f) /\ UNCHANGED <<nocType, incoming, intransit, pos>>
      BY <2>3, PerfectReceives DEF Inv, Channels!Next
    <2> QED
      BY <1>4, <2>1, <2>2, <2>3 DEF Recv
  <1> QED
    BY <1>1, <1>2, <1>3, <1>4 DEF Next

\* The abstract networks implement the channels that a program expects of
\* noc_send_flit and noc_recv_flit: none of them loses, doubles, reorders or makes
\* up a flit, on a torus of any size and with any number of flits on their way.
THEOREM Implementation ==
  ASSUME NocAssumption
  PROVE  Spec => Channels!Spec
  <1>1. Init => Inv /\ Channels!Init
    BY Starts
  <1>2. Inv /\ [Next]_vars => Inv' /\ [Channels!Next]_(Channels!vars)
    BY Steps
  <1> QED
    BY <1>1, <1>2, PTL DEF Spec, Channels!Spec
=============================================================================
