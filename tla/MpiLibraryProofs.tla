-------------------------- MODULE MpiLibraryProofs --------------------------
(***************************************************************************)
(* The functions of the MPI library take every flit in the call for which  *)
(* it was sent, their asserts hold and they leave nothing behind, for      *)
(* every number of processes and every program of calls in which           *)
(* MPI_Alltoall is the last one; and MPI_Sendrecv_replace keeps its        *)
(* promises in the library.                                                *)
(*                                                                         *)
(* The flits carry no tags, so the argument is about their order: for      *)
(* every two processes, what is on the way from one to the other, followed *)
(* by what the first one will still send, is what the second one will      *)
(* still receive.  Most of the work is to show that the scripts of a call  *)
(* send to each process what that process receives (Matching).             *)
(***************************************************************************)
EXTENDS MpiLibrary, Integers, SequenceTheorems, WellFoundedInduction

\* Induction over the natural numbers.
LEMMA Induction ==
  ASSUME NEW S, 0 \in S, \A n \in Nat : n \in S => n + 1 \in S
  PROVE  \A n \in Nat : n \in S
  <1> DEFINE R == OpToRel(<, Nat)
             T == Nat \ S
  <1>1. SUFFICES ASSUME T # {} PROVE FALSE
    OBVIOUS
  <1>2. T \subseteq Nat
    OBVIOUS
  <1>3. IsWellFoundedOn(R, Nat)
    BY NatLessThanWellFounded
  <1>4. PICK n \in T : \A m \in T : ~(<<m, n>> \in R)
    <2> HIDE DEF T, R
    <2> QED
      BY <1>1, <1>2, <1>3, WFMin
  <1>5. n # 0 /\ n \in Nat
    OBVIOUS
  <1>6. n - 1 \in T
    BY <1>5
  <1>7. <<n - 1, n>> \in R
    BY <1>5, <1>6 DEF OpToRel
  <1> QED
    BY <1>4, <1>6, <1>7

-----------------------------------------------------------------------------
\* FlattenSeq.

\* The first n values of g flatten the first n sequences of ss.
Flattens(g, ss, n) == \A i \in 1 .. n : g[i] = IF i = 1 THEN ss[i] ELSE g[i-1] \o ss[i]

\* Two lists agree on the first n places.
Same(a, b, n) == \A i \in 1 .. n : a[i] = b[i]

\* The function that FlattenSeq is defined with exists.
LEMMA FlatteningExists ==
  ASSUME NEW S, NEW ss \in Seq(Seq(S))
  PROVE  \E g \in [1 .. Len(ss) -> Seq(S)] : Flattens(g, ss, Len(ss))
  <1> DEFINE Ok(n) == \E g \in [1 .. n -> Seq(S)] : Flattens(g, ss, n)
             P == {n \in Nat : n <= Len(ss) => Ok(n)}
  <1>0. Len(ss) \in Nat /\ \A i \in 1 .. Len(ss) : ss[i] \in Seq(S)
    OBVIOUS
  <1>1. 0 \in P
    <2>1. [i \in 1 .. 0 |-> <<>>] \in [1 .. 0 -> Seq(S)]
      OBVIOUS
    <2>2. Flattens([i \in 1 .. 0 |-> <<>>], ss, 0)
      BY DEF Flattens
    <2>3. Ok(0)
      BY <2>1, <2>2
    <2> HIDE DEF Ok
    <2> QED
      BY <2>3
  <1>2. ASSUME NEW n \in Nat, Ok(n), n + 1 <= Len(ss)
        PROVE  Ok(n + 1)
    <2>1. PICK g \in [1 .. n -> Seq(S)] : Flattens(g, ss, n)
      BY <1>2
    <2> DEFINE x == IF n = 0 THEN ss[n+1] ELSE g[n] \o ss[n+1]
               h == [i \in 1 .. n + 1 |-> IF i = n + 1 THEN x ELSE g[i]]
    <2>2. x \in Seq(S)
      <3>1. n + 1 \in 1 .. Len(ss) /\ ss[n+1] \in Seq(S)
        BY <1>0, <1>2
      <3>2. n # 0 => g[n] \in Seq(S)
        BY <2>1
      <3> QED
        BY <3>1, <3>2, ConcatProperties
    <2>3. h \in [1 .. n + 1 -> Seq(S)]
      <3> HIDE DEF x
      <3> QED
        BY <2>1, <2>2
    <2>4. Flattens(h, ss, n + 1)
      <3> SUFFICES ASSUME NEW i \in 1 .. n + 1
                   PROVE  h[i] = IF i = 1 THEN ss[i] ELSE h[i-1] \o ss[i]
        BY DEF Flattens
      <3>1. CASE i = n + 1
        <4>1. h[i] = x
          BY <3>1
        <4>2. i # 1 => h[i-1] = g[n]
          BY <3>1
        <4> QED
          BY <3>1, <4>1, <4>2
      <3>2. CASE i # n + 1
        <4>1. i \in 1 .. n /\ h[i] = g[i]
          BY <3>2
        <4>2. i # 1 => h[i-1] = g[i-1]
          BY <3>2
        <4> QED
          BY <2>1, <4>1, <4>2 DEF Flattens
      <3> QED
        BY <3>1, <3>2
    <2> QED
      BY <2>3, <2>4
  <1> HIDE DEF Ok
  <1>3. \A n \in Nat : n \in P => n + 1 \in P
    BY <1>0, <1>2
  <1>4. \A n \in Nat : n \in P
    <2> HIDE DEF P
    <2> QED
      BY <1>1, <1>3, Induction
  <1>5. Ok(Len(ss))
    BY <1>0, <1>4
  <1> QED
    BY <1>5 DEF Ok

\* It is unique.
LEMMA FlatteningUnique ==
  ASSUME NEW n \in Nat, NEW ss, NEW tt, NEW g, NEW h,
         Same(ss, tt, n), Flattens(g, ss, n), Flattens(h, tt, n)
  PROVE  Same(g, h, n)
  <1> DEFINE P == {m \in Nat : m \in 1 .. n => g[m] = h[m]}
  <1>1. 0 \in P
    OBVIOUS
  <1>2. ASSUME NEW m \in Nat, m \in P PROVE m + 1 \in P
    <2>1. SUFFICES ASSUME m + 1 \in 1 .. n PROVE g[m+1] = h[m+1]
      OBVIOUS
    <2>2. ss[m+1] = tt[m+1] /\ (m + 1) - 1 = m
      BY <2>1 DEF Same
    <2>3. CASE m = 0
      BY <2>1, <2>2, <2>3 DEF Flattens
    <2>4. CASE m # 0
      <3>1. m \in 1 .. n /\ m + 1 # 1
        BY <2>1, <2>4
      <3>2. g[m] = h[m]
        BY <1>2, <3>1
      <3>3. g[m+1] = g[m] \o ss[m+1] /\ h[m+1] = h[m] \o tt[m+1]
        BY <2>1, <2>2, <3>1 DEF Flattens
      <3> QED
        BY <2>2, <3>2, <3>3
    <2> QED
      BY <2>3, <2>4
  <1>3. \A m \in Nat : m \in P
    <2> HIDE DEF P
    <2> QED
      BY <1>1, <1>2, Induction
  <1> QED
    BY <1>3 DEF Same

\* FlattenSeq is its last value.
LEMMA FlattenIs ==
  ASSUME NEW S, NEW ss \in Seq(Seq(S)), ss # <<>>
  PROVE  \E g \in [1 .. Len(ss) -> Seq(S)] :
           Flattens(g, ss, Len(ss)) /\ FlattenSeq(ss) = g[Len(ss)]
  <1> DEFINE Body(f) == [i \in 1 .. Len(ss) |-> IF i = 1 THEN ss[i] ELSE f[i-1] \o ss[i]]
             F == CHOOSE f : f = Body(f)
  <1>0. Len(ss) \in Nat /\ Len(ss) # 0
    OBVIOUS
  <1>1. PICK g \in [1 .. Len(ss) -> Seq(S)] : Flattens(g, ss, Len(ss))
    BY FlatteningExists
  <1>2. g = Body(g)
    BY <1>1 DEF Flattens
  <1>3. F = Body(F)
    <2> HIDE DEF Body
    <2> QED
      BY <1>2, Zenon
  <1>4. FlattenSeq(ss) = F[Len(ss)]
    BY <1>0 DEF FlattenSeq
  <1> HIDE DEF F
  <1>5. Flattens(F, ss, Len(ss))
    <2> SUFFICES ASSUME NEW i \in 1 .. Len(ss)
                 PROVE  F[i] = IF i = 1 THEN ss[i] ELSE F[i-1] \o ss[i]
      BY DEF Flattens
    <2>1. Body(F)[i] = IF i = 1 THEN ss[i] ELSE F[i-1] \o ss[i]
      OBVIOUS
    <2> QED
      BY <1>3, <2>1, Zenon
  <1>6. F[Len(ss)] = g[Len(ss)]
    <2>1. Same(ss, ss, Len(ss))
      BY DEF Same
    <2>2. Same(F, g, Len(ss))
      BY <1>0, <1>1, <1>5, <2>1, FlatteningUnique
    <2> QED
      BY <1>0, <2>2 DEF Same
  <1>7. FlattenSeq(ss) = g[Len(ss)]
    BY <1>4, <1>6, Zenon
  <1> QED
    BY <1>1, <1>7

\* No sequences make an empty one.
LEMMA FlattenEmpty == FlattenSeq(<<>>) = <<>>
  BY DEF FlattenSeq

\* One sequence more comes behind the others.
LEMMA FlattenAppend ==
  ASSUME NEW S, NEW ss \in Seq(Seq(S)), NEW x \in Seq(S)
  PROVE  FlattenSeq(Append(ss, x)) = FlattenSeq(ss) \o x
  <1> DEFINE tt == Append(ss, x)
             n == Len(ss)
  <1>1. /\ tt \in Seq(Seq(S)) /\ tt # <<>> /\ Len(tt) = n + 1 /\ n \in Nat
        /\ \A i \in 1 .. n : ss[i] = tt[i]
        /\ tt[n+1] = x
    BY AppendProperties
  <1> HIDE DEF tt, n
  <1>2. PICK h \in [1 .. n + 1 -> Seq(S)] : Flattens(h, tt, n + 1) /\ FlattenSeq(tt) = h[n+1]
    <2>1. \E h \in [1 .. Len(tt) -> Seq(S)] : Flattens(h, tt, Len(tt)) /\ FlattenSeq(tt) = h[Len(tt)]
      BY <1>1, FlattenIs
    <2> QED
      BY <1>1, <2>1
  <1>3. CASE ss = <<>>
    <2>1. n = 0
      BY <1>3 DEF n
    <2>2. FlattenSeq(tt) = x
      BY <1>1, <1>2, <2>1 DEF Flattens
    <2>3. <<>> \o x = x
      BY ConcatEmptySeq
    <2> QED
      BY <1>3, <2>2, <2>3, FlattenEmpty DEF tt
  <1>4. CASE ss # <<>>
    <2>1. PICK g \in [1 .. n -> Seq(S)] : Flattens(g, ss, n) /\ FlattenSeq(ss) = g[n]
      BY <1>4, FlattenIs DEF n
    <2>2. n # 0
      BY <1>4 DEF n
    <2>3. Flattens(h, tt, n)
      <3>1. ASSUME NEW i \in 1 .. n PROVE h[i] = IF i = 1 THEN tt[i] ELSE h[i-1] \o tt[i]
        <4>1. i \in 1 .. n + 1
          BY <1>1
        <4> QED
          BY <1>2, <4>1 DEF Flattens
      <3> QED
        BY <3>1 DEF Flattens
    <2>4. g[n] = h[n]
      <3>1. n \in Nat /\ Same(ss, tt, n)
        BY <1>1 DEF Same
      <3>2. Same(g, h, n)
        BY <2>1, <2>3, <3>1, FlatteningUnique
      <3> QED
        BY <2>2, <3>1, <3>2 DEF Same
    <2>5. h[n+1] = h[n] \o x
      <3>1. n + 1 \in 1 .. n + 1 /\ n + 1 # 1 /\ (n + 1) - 1 = n
        BY <1>1, <2>2
      <3>2. h[n+1] = h[(n+1)-1] \o tt[n+1]
        BY <1>2, <3>1 DEF Flattens
      <3> QED
        BY <1>1, <3>1, <3>2
    <2>6. FlattenSeq(tt) = FlattenSeq(ss) \o x
      BY <1>2, <2>1, <2>4, <2>5
    <2> QED
      BY <2>6 DEF tt
  <1> QED
    BY <1>3, <1>4

\* Concatenation is associative.
LEMMA Regroup ==
  \A S : \A a, b, c \in Seq(S) : (a \o b) \o c = a \o (b \o c)
  OBVIOUS

\* All of it is a sequence.
LEMMA FlattenTyped ==
  ASSUME NEW S, NEW ss \in Seq(Seq(S))
  PROVE  FlattenSeq(ss) \in Seq(S)
  <1>1. CASE ss = <<>>
    <2>1. <<>> \in Seq(S)
      OBVIOUS
    <2> QED
      BY <1>1, <2>1, FlattenEmpty
  <1>2. CASE ss # <<>>
    <2>1. Len(ss) \in 1 .. Len(ss)
      BY <1>2
    <2> QED
      <3>1. PICK g \in [1 .. Len(ss) -> Seq(S)] : Flattens(g, ss, Len(ss)) /\ FlattenSeq(ss) = g[Len(ss)]
        BY <1>2, FlattenIs
      <3> QED
        BY <2>1, <3>1
  <1> QED
    BY <1>1, <1>2

\* Sequences of sequences one after the other.
LEMMA FlattenConcat ==
  ASSUME NEW S, NEW ss \in Seq(Seq(S)), NEW tt \in Seq(Seq(S))
  PROVE  FlattenSeq(ss \o tt) = FlattenSeq(ss) \o FlattenSeq(tt)
  <1>0. \A a, b, c \in Seq(S) : (a \o b) \o c = a \o (b \o c)
    BY SMTT(60)
  <1> DEFINE Holds(u) == FlattenSeq(ss \o u) = FlattenSeq(ss) \o FlattenSeq(u)
             P == {n \in Nat : \A u \in Seq(Seq(S)) : Len(u) = n => Holds(u)}
  <1>1. 0 \in P
    <2> SUFFICES ASSUME NEW u \in Seq(Seq(S)), Len(u) = 0 PROVE Holds(u)
      OBVIOUS
    <2>1. u = <<>>
      BY EmptySeq
    <2>2. ss \o <<>> = ss /\ FlattenSeq(ss) \o <<>> = FlattenSeq(ss)
      BY ConcatEmptySeq, FlattenTyped
    <2> QED
      BY <2>1, <2>2, FlattenEmpty
  <1>2. ASSUME NEW n \in Nat, n \in P PROVE n + 1 \in P
    <2> SUFFICES ASSUME NEW u \in Seq(Seq(S)), Len(u) = n + 1 PROVE Holds(u)
      OBVIOUS
    <2>1. u # <<>>
      OBVIOUS
    <2>2. PICK v \in Seq(Seq(S)), x \in Seq(S) : u = Append(v, x)
      BY <2>1, SequenceEmptyOrAppend
    <2>3. Len(v) = n
      BY <2>2, AppendProperties
    <2>4. Holds(v)
      BY <1>2, <2>3
    <2>5. ss \o u = Append(ss \o v, x) /\ ss \o v \in Seq(Seq(S))
      <3>1. u = v \o <<x>> /\ ss \o v \in Seq(Seq(S)) /\ <<x>> \in Seq(Seq(S))
        BY <2>2, AppendIsConcat, ConcatProperties
      <3>2. Append(ss \o v, x) = (ss \o v) \o <<x>>
        BY <3>1, AppendIsConcat
      <3> QED
        BY <3>1, <3>2, ConcatAssociative
    <2>6. FlattenSeq(ss \o u) = (FlattenSeq(ss) \o FlattenSeq(v)) \o x
      BY <2>4, <2>5, FlattenAppend
    <2>7. FlattenSeq(u) = FlattenSeq(v) \o x
      BY <2>2, FlattenAppend
    <2>8. /\ FlattenSeq(ss) \in Seq(S) /\ FlattenSeq(v) \in Seq(S)
      BY FlattenTyped
    <2>9. (FlattenSeq(ss) \o FlattenSeq(v)) \o x = FlattenSeq(ss) \o (FlattenSeq(v) \o x)
      BY <1>0, <2>8
    <2> QED
      BY <2>6, <2>7, <2>9
  <1>3. \A n \in Nat : n \in P
    <2> HIDE DEF P
    <2> QED
      BY <1>1, <1>2, Induction
  <1>4. Len(tt) \in Nat
    OBVIOUS
  <1> QED
    BY <1>3, <1>4

\* A single sequence.
LEMMA FlattenOne ==
  ASSUME NEW S, NEW x \in Seq(S)
  PROVE  FlattenSeq(<<x>>) = x
  <1>1. <<x>> = Append(<<>>, x) /\ <<>> \in Seq(Seq(S))
    OBVIOUS
  <1>2. FlattenSeq(<<x>>) = FlattenSeq(<<>>) \o x
    BY <1>1, FlattenAppend
  <1> QED
    BY <1>2, FlattenEmpty, ConcatEmptySeq

\* The first sequence and the others.
LEMMA FlattenFirst ==
  ASSUME NEW S, NEW ss \in Seq(Seq(S)), ss # <<>>
  PROVE  FlattenSeq(ss) = ss[1] \o FlattenSeq(Tail(ss))
  <1>1. ss = <<ss[1]>> \o Tail(ss) /\ ss[1] \in Seq(S) /\ Tail(ss) \in Seq(Seq(S)) /\ <<ss[1]>> \in Seq(Seq(S))
    OBVIOUS
  <1>2. FlattenSeq(ss) = FlattenSeq(<<ss[1]>>) \o FlattenSeq(Tail(ss))
    BY <1>1, FlattenConcat
  <1> QED
    BY <1>1, <1>2, FlattenOne

\* A function that flattens one more sequence at every place ends with all of them.
LEMMA FlattenAs ==
  ASSUME NEW S, NEW ss \in Seq(Seq(S)), ss # <<>>, NEW V, Flattens(V, ss, Len(ss))
  PROVE  FlattenSeq(ss) = V[Len(ss)]
  <1>1. PICK g \in [1 .. Len(ss) -> Seq(S)] : Flattens(g, ss, Len(ss)) /\ FlattenSeq(ss) = g[Len(ss)]
    BY FlattenIs
  <1>2. Len(ss) \in Nat /\ Len(ss) # 0 /\ Same(ss, ss, Len(ss))
    BY DEF Same
  <1>3. Same(g, V, Len(ss))
    BY <1>1, <1>2, FlatteningUnique
  <1> QED
    BY <1>1, <1>2, <1>3 DEF Same

\* Only one of the sequences is not empty.
LEMMA FlattenOnly ==
  ASSUME NEW S, NEW ss \in Seq(Seq(S)), NEW j \in 1 .. Len(ss),
         \A i \in 1 .. Len(ss) : i # j => ss[i] = <<>>
  PROVE  FlattenSeq(ss) = ss[j]
  <1> DEFINE V == [i \in 1 .. Len(ss) |-> IF i < j THEN <<>> ELSE ss[j]]
  <1>0. Len(ss) \in Nat /\ ss # <<>> /\ ss[j] \in Seq(S) /\ <<>> \in Seq(S)
    OBVIOUS
  <1>1. Flattens(V, ss, Len(ss))
    <2> SUFFICES ASSUME NEW i \in 1 .. Len(ss)
                 PROVE  V[i] = IF i = 1 THEN ss[i] ELSE V[i-1] \o ss[i]
      BY DEF Flattens
    <2>1. CASE i = 1
      BY <1>0, <2>1
    <2>2. CASE i # 1
      <3>1. i - 1 \in 1 .. Len(ss) /\ V[i-1] = IF i - 1 < j THEN <<>> ELSE ss[j]
        BY <1>0, <2>2
      <3>2. <<>> \o ss[j] = ss[j] /\ ss[j] \o <<>> = ss[j] /\ <<>> \o <<>> = <<>>
        BY <1>0, ConcatEmptySeq
      <3>3. V[i] = IF i < j THEN <<>> ELSE ss[j]
        OBVIOUS
      <3> HIDE DEF V
      <3>4. CASE i < j
        <4>1. i - 1 < j /\ i # j
          BY <1>0, <3>4
        <4>2. V[i-1] = <<>> /\ V[i] = <<>> /\ ss[i] = <<>>
          BY <3>1, <3>3, <3>4, <4>1
        <4> QED
          BY <2>2, <3>2, <4>2
      <3>5. CASE i = j
        <4>1. i - 1 < j /\ ~(i < j)
          BY <1>0, <3>5
        <4>2. V[i-1] = <<>> /\ V[i] = ss[j] /\ ss[i] = ss[j]
          BY <3>1, <3>3, <3>5, <4>1
        <4> QED
          BY <2>2, <3>2, <4>2
      <3>6. CASE i > j
        <4>1. ~(i - 1 < j) /\ ~(i < j) /\ i # j
          BY <1>0, <3>6
        <4>2. V[i-1] = ss[j] /\ V[i] = ss[j] /\ ss[i] = <<>>
          BY <3>1, <3>3, <3>6, <4>1
        <4> QED
          BY <2>2, <3>2, <4>2
      <3> QED
        BY <3>4, <3>5, <3>6
    <2> QED
      BY <2>1, <2>2
  <1>2. V[Len(ss)] = ss[j]
    BY <1>0
  <1> HIDE DEF V
  <1>3. FlattenSeq(ss) = V[Len(ss)]
    BY <1>0, <1>1, FlattenAs
  <1> QED
    BY <1>2, <1>3

\* All are empty.
LEMMA FlattenNothing ==
  ASSUME NEW S, NEW ss \in Seq(Seq(S)), \A i \in 1 .. Len(ss) : ss[i] = <<>>
  PROVE  FlattenSeq(ss) = <<>>
  <1>1. CASE ss = <<>>
    BY <1>1, FlattenEmpty
  <1>2. CASE ss # <<>>
    <2>1. 1 \in 1 .. Len(ss)
      BY <1>2
    <2>2. FlattenSeq(ss) = ss[1]
      BY <2>1, FlattenOnly
    <2> QED
      BY <2>1, <2>2
  <1> QED
    BY <1>1, <1>2

\* Sequences of one element each.
LEMMA FlattenSingles ==
  ASSUME NEW S, NEW e \in Seq(S), NEW ss \in Seq(Seq(S)), Len(ss) = Len(e),
         \A i \in 1 .. Len(e) : ss[i] = <<e[i]>>
  PROVE  FlattenSeq(ss) = e
  <1> DEFINE V == [i \in 1 .. Len(ss) |-> SubSeq(e, 1, i)]
  <1>0. Len(ss) \in Nat
    OBVIOUS
  <1>1. CASE ss = <<>>
    <2>1. e = <<>>
      BY <1>1
    <2> QED
      BY <1>1, <2>1, FlattenEmpty
  <1>2. CASE ss # <<>>
    <2>1. Flattens(V, ss, Len(ss))
      <3> SUFFICES ASSUME NEW i \in 1 .. Len(ss)
                   PROVE  V[i] = IF i = 1 THEN ss[i] ELSE V[i-1] \o ss[i]
        BY DEF Flattens
      <3>1. V[i] = SubSeq(e, 1, i) /\ ss[i] = <<e[i]>> /\ i \in 1 .. Len(e) /\ 1 \in 1 .. Len(e)
        BY <1>0
      <3>2. CASE i = 1
        <4>1. SubSeq(e, 1, 1) = SubSeq(e, 1, 0) \o <<e[1]>> /\ SubSeq(e, 1, 0) = <<>>
          BY <3>1, SubSeqRecursiveSecond, SubSeqEmpty
        <4>2. <<>> \o <<e[1]>> = <<e[1]>>
          BY <3>1
        <4> QED
          BY <3>1, <3>2, <4>1, <4>2
      <3>3. CASE i # 1
        <4>1. i - 1 \in 1 .. Len(ss) /\ V[i-1] = SubSeq(e, 1, i - 1)
          BY <1>0, <3>3
        <4>2. SubSeq(e, 1, i) = SubSeq(e, 1, i - 1) \o <<e[i]>>
          BY <3>1, SubSeqRecursiveSecond
        <4> QED
          BY <3>1, <3>3, <4>1, <4>2
      <3> QED
        BY <3>2, <3>3
    <2>2. V[Len(ss)] = e
      BY <1>0, <1>2, SubSeqFull
    <2> HIDE DEF V
    <2>3. FlattenSeq(ss) = V[Len(ss)]
      BY <1>2, <2>1, FlattenAs
    <2> QED
      BY <2>2, <2>3
  <1> QED
    BY <1>1, <1>2

-----------------------------------------------------------------------------
\* What a call sends and receives.  The flits from one process to another in a step,
\* in a list of steps and in all later calls.

\* The flits of any call, and the data of a message from one place to another.
Flit == [kind : {"ack", "head", "data"}, call : Nat, place : Int]
DataSeq(k, first, last) == [j \in 1 .. (last + 1) - first |-> Data(k, first + j - 1)]

\* Call k is one of the program.
IsCallNumber(k) == program \in Programs /\ k \in 1 .. Len(program)
Ranks(k) == 0 .. GroupSize(k) - 1
Members(k) == ToSet(Comm(k))

\* Call k gathers data from all ranks, to this one.
InGather(k) == program[k].op \in {"gather", "allreduce"}
GatherRoot(k) == IF program[k].op = "allreduce" THEN 0 ELSE program[k].root

\* The steps that a script of call k may have.
Transfers == [do : {"send", "recv"}, cid : Process, flit : Flit]
AckLoops == [do : {"acks"}, from : SUBSET Process]
GatherLoops(k) ==
  {h \in [do : {"gather"}, lens : [Process -> Nat], ack : Nat] :
     InGather(k) /\ \A q \in Process : h.lens[q] # 0 => q \in Members(k)}
PairLoops == [do : {"sendrecv"}, to : Process, from : Process,
              slen : Nat, sleft : Nat, rlen : Nat, rleft : Nat]
RingLoops(k) ==
  {h \in [do : {"alltoall"}, slens : [Process -> Nat], rlens : [Process -> Nat]] :
     program[k].op = "alltoall"}
StepSet(k) == Transfers \cup AckLoops \cup GatherLoops(k) \cup PairLoops \cup RingLoops(k)

\* The flits that process p will send to q (d is "send") or receive from it
\* ("recv") in the step h of call k,
StepFlow(d, p, q, k, h) ==
  CASE h.do \in {"send", "recv"} -> IF h.do = d /\ h.cid = q THEN <<h.flit>> ELSE <<>>
    [] h.do = "acks" -> IF d = "recv" /\ q \in h.from THEN <<Ack(k)>> ELSE <<>>
    [] h.do = "gather" ->
         IF h.lens[q] = 0 THEN <<>>
         ELSE IF d = "send" THEN (IF h.ack <= q THEN <<Ack(k)>> ELSE <<>>)
         ELSE DataSeq(k, PartLength(k, GroupRank(k, q)) - h.lens[q] + 1, PartLength(k, GroupRank(k, q)))
    [] h.do = "sendrecv" ->
         IF d = "send" THEN IF h.to = q THEN DataSeq(k, h.slen - h.sleft + 1, h.slen) ELSE <<>>
         ELSE IF h.from = q THEN DataSeq(k, h.rlen - h.rleft + 1, h.rlen) ELSE <<>>
    [] h.do = "alltoall" ->
         IF d = "send" THEN DataSeq(k, PartLength(k, q) - h.slens[q] + 1, PartLength(k, q))
         ELSE DataSeq(k, PartLength(k, p) - h.rlens[q] + 1, PartLength(k, p))
    [] OTHER -> <<>>

\* in the steps s, and in the calls after c.
Flow(d, p, q, k, s) == FlattenSeq([i \in 1 .. Len(s) |-> StepFlow(d, p, q, k, s[i])])
CallFlows(d, p, q) == [k \in 1 .. Len(program) |-> Flow(d, p, q, k, Script(k, p))]
Later(d, p, q, c) == FlattenSeq([j \in 1 .. Len(program) - c |-> CallFlows(d, p, q)[c+j]])

-----------------------------------------------------------------------------
\* A function on the first n numbers is a list.
LEMMA FunctionIsList ==
  ASSUME NEW S, NEW n \in Nat, NEW f \in [1 .. n -> S]
  PROVE  f \in Seq(S) /\ Len(f) = n
  OBVIOUS

\* The data of a message.
LEMMA DataSeqTyped ==
  ASSUME NEW k \in Nat, NEW a \in Int, NEW b \in Int
  PROVE  /\ DataSeq(k, a, b) \in Seq(Flit)
         /\ Len(DataSeq(k, a, b)) = IF a <= b THEN (b + 1) - a ELSE 0
         /\ b < a => DataSeq(k, a, b) = <<>>
         /\ a <= b => DataSeq(k, a, b) = <<Data(k, a)>> \o DataSeq(k, a + 1, b)
  <1>1. ASSUME NEW i \in Int PROVE Data(k, i) \in Flit
    BY DEF Data, Flit
  <1>2. ASSUME NEW c \in Int, c <= b + 1
        PROVE  /\ DataSeq(k, c, b) \in Seq(Flit) /\ Len(DataSeq(k, c, b)) = (b + 1) - c
               /\ \A i \in 1 .. (b + 1) - c : DataSeq(k, c, b)[i] = Data(k, c + i - 1)
    <2>1. (b + 1) - c \in Nat
      BY <1>2
    <2>2. \A i \in 1 .. (b + 1) - c : Data(k, c + i - 1) \in Flit
      BY <1>1, <1>2
    <2> DEFINE n == (b + 1) - c
    <2>3. DataSeq(k, c, b) = [j \in 1 .. n |-> Data(k, c + j - 1)]
      BY DEF DataSeq
    <2>4. n \in Nat /\ \A i \in 1 .. n : Data(k, c + i - 1) \in Flit
      BY <2>1, <2>2
    <2> HIDE DEF n
    <2>5. /\ DataSeq(k, c, b) \in Seq(Flit) /\ Len(DataSeq(k, c, b)) = n
          /\ \A i \in 1 .. n : DataSeq(k, c, b)[i] = Data(k, c + i - 1)
      <3>1. DataSeq(k, c, b) \in [1 .. n -> Flit]
        BY <2>3, <2>4
      <3>2. \A i \in 1 .. n : DataSeq(k, c, b)[i] = Data(k, c + i - 1)
        BY <2>3
      <3> QED
        BY <2>4, <3>1, <3>2, FunctionIsList
    <2> QED
      BY <2>5 DEF n
  <1>3. CASE b < a
    <2>1. 1 .. (b + 1) - a = 1 .. 0
      BY <1>3
    <2>2. DataSeq(k, a, b) = [j \in 1 .. 0 |-> Data(k, a + j - 1)]
      BY <2>1 DEF DataSeq
    <2>3. DataSeq(k, a, b) = <<>>
      BY <2>2
    <2> QED
      BY <1>3, <2>3
  <1>4. CASE a <= b
    <2>1. Data(k, a) \in Flit /\ <<Data(k, a)>> \in Seq(Flit) /\ Len(<<Data(k, a)>>) = 1
      BY <1>1
    <2>2. /\ DataSeq(k, a, b) \in Seq(Flit) /\ Len(DataSeq(k, a, b)) = (b + 1) - a
          /\ \A i \in 1 .. (b + 1) - a : DataSeq(k, a, b)[i] = Data(k, a + i - 1)
      BY <1>2, <1>4
    <2>3. /\ DataSeq(k, a + 1, b) \in Seq(Flit) /\ Len(DataSeq(k, a + 1, b)) = b - a
          /\ \A i \in 1 .. b - a : DataSeq(k, a + 1, b)[i] = Data(k, a + i)
      <3>1. a + 1 \in Int /\ a + 1 <= b + 1 /\ (b + 1) - (a + 1) = b - a
        BY <1>4
      <3>2. \A i \in 1 .. b - a : (a + 1) + i - 1 = a + i
        OBVIOUS
      <3> QED
        BY <1>2, <3>1, <3>2
    <2>4. DataSeq(k, a, b) = <<Data(k, a)>> \o DataSeq(k, a + 1, b)
      <3> DEFINE u == <<Data(k, a)>> \o DataSeq(k, a + 1, b)
      <3>1. u \in Seq(Flit) /\ Len(u) = (b + 1) - a
        BY <1>4, <2>1, <2>3
      <3>2. ASSUME NEW i \in 1 .. (b + 1) - a PROVE u[i] = DataSeq(k, a, b)[i]
        <4>1. CASE i = 1
          BY <2>1, <2>2, <2>3, <4>1
        <4>2. CASE i # 1
          <5>1. i - 1 \in 1 .. b - a /\ i \in 1 .. 1 + (b - a) /\ a + (i - 1) = a + i - 1
            BY <4>2
          <5>2. u[i] = DataSeq(k, a + 1, b)[i-1]
            BY <2>1, <2>3, <4>2, <5>1, ConcatProperties
          <5> QED
            BY <2>2, <2>3, <5>1, <5>2
        <4> QED
          BY <4>1, <4>2
      <3> HIDE DEF u
      <3>3. DataSeq(k, a, b) = u
        BY <2>2, <3>1, <3>2, SeqEqual
      <3> QED
        BY <3>3 DEF u
    <2> QED
      BY <1>4, <2>2, <2>4
  <1> QED
    BY <1>3, <1>4

\* The group of a call.
LEMMA GroupIs ==
  ASSUME NEW k, IsCallNumber(k)
  PROVE  /\ k \in Nat /\ k # 0
         /\ program[k] \in Parameters /\ IsCall(program[k])
         /\ GroupSize(k) \in Nat /\ GroupSize(k) >= 1 /\ Members(k) \subseteq Process
         /\ program[k].root \in Ranks(k) /\ program[k].dest \in Ranks(k)
         /\ \A r \in Ranks(k) : /\ CidFromComm(k, r) \in Process /\ CidFromComm(k, r) \in Members(k)
                                /\ PartLength(k, r) \in Nat
                                /\ GroupRank(k, CidFromComm(k, r)) = r
         /\ \A p \in Members(k) : /\ GroupRank(k, p) \in Ranks(k)
                                  /\ CidFromComm(k, GroupRank(k, p)) = p
  <1>1. /\ program \in Seq(Parameters) /\ k \in 1 .. Len(program) /\ k \in DOMAIN program
        /\ program[k] \in Parameters /\ IsCall(program[k]) /\ k \in Nat /\ k # 0
    BY CallsAssumption DEF IsCallNumber
  <1> DEFINE c == program[k]
  <1>2. /\ c.comm \in Seq(Process) /\ c.len \in Seq(Nat) /\ c.root \in Nat /\ c.dest \in Nat
    BY <1>1 DEF Parameters
  <1>3. /\ c.comm # <<>> /\ c.root < Len(c.comm) /\ c.dest < Len(c.comm) /\ Len(c.comm) <= Len(c.len)
        /\ \A i, j \in 1 .. Len(c.comm) : c.comm[i] = c.comm[j] => i = j
    BY <1>1, <1>2 DEF IsCall
  <1>4. GroupSize(k) = Len(c.comm) /\ GroupSize(k) \in Nat /\ GroupSize(k) >= 1 /\ Len(c.len) \in Nat
    BY <1>2, <1>3 DEF GroupSize, Comm
  <1>5. \A r : CidFromComm(k, r) = c.comm[r+1] /\ PartLength(k, r) = c.len[r+1]
    BY DEF CidFromComm, Comm, PartLength
  <1>6. Members(k) = {c.comm[i] : i \in 1 .. Len(c.comm)}
    BY <1>2 DEF Members, Comm, ToSet
  <1> HIDE DEF c
  <1>7. \A r \in Ranks(k) : r + 1 \in 1 .. Len(c.comm) /\ r + 1 \in 1 .. Len(c.len)
    BY <1>3, <1>4 DEF Ranks
  <1>8. \A r \in Ranks(k) : /\ CidFromComm(k, r) \in Process /\ CidFromComm(k, r) \in Members(k)
                            /\ PartLength(k, r) \in Nat
    BY <1>2, <1>5, <1>6, <1>7
  <1>9. \A p \in Members(k) : \E r \in Ranks(k) : CidFromComm(k, r) = p
    <2> TAKE p \in Members(k)
    <2>1. PICK i \in 1 .. Len(c.comm) : c.comm[i] = p
      BY <1>6
    <2>2. i - 1 \in Ranks(k) /\ (i - 1) + 1 = i
      BY <1>4 DEF Ranks
    <2> QED
      BY <1>5, <2>1, <2>2
  <1>10. \A p \in Members(k) : GroupRank(k, p) \in Ranks(k) /\ CidFromComm(k, GroupRank(k, p)) = p
    BY <1>9 DEF GroupRank, Ranks
  <1>11. ASSUME NEW r \in Ranks(k), NEW s \in Ranks(k), CidFromComm(k, r) = CidFromComm(k, s)
         PROVE  r = s
    <2>1. r + 1 = s + 1
      BY <1>3, <1>5, <1>7, <1>11
    <2> QED
      BY <1>4, <2>1 DEF Ranks
  <1>12. \A r \in Ranks(k) : GroupRank(k, CidFromComm(k, r)) = r
    BY <1>8, <1>10, <1>11
  <1>13. Members(k) \subseteq Process
    BY <1>2, <1>6
  <1>14. c.root \in Ranks(k) /\ c.dest \in Ranks(k)
    BY <1>2, <1>3, <1>4 DEF Ranks
  <1> QED
    BY <1>1, <1>4, <1>8, <1>10, <1>12, <1>13, <1>14 DEF c

\* In MPI_COMM_WORLD the ranks are the cids.
LEMMA WorldIs ==
  ASSUME NEW k, IsCallNumber(k), IsWorld(k)
  PROVE  /\ GroupSize(k) = Size /\ Ranks(k) = Process /\ Members(k) = Process
         /\ \A p \in Process : /\ CidFromComm(k, p) = p /\ GroupRank(k, p) = p
                               /\ PartLength(k, p) \in Nat
  <1>1. Comm(k) = [i \in 1 .. Size |-> i - 1] /\ Size \in Nat
    BY CallsAssumption DEF IsWorld
  <1>2. GroupSize(k) = Size /\ Ranks(k) = Process
    <2>1. Comm(k) \in [1 .. Size -> Int]
      BY <1>1
    <2>2. Len(Comm(k)) = Size
      BY <1>1
    <2> QED
      BY <2>2 DEF GroupSize, Ranks, Process
  <1>3. \A p \in Process : CidFromComm(k, p) = p
    BY <1>1 DEF CidFromComm, Process
  <1>4. \A p \in Process : /\ GroupRank(k, p) = p /\ PartLength(k, p) \in Nat /\ p \in Members(k)
    BY <1>2, <1>3, GroupIs
  <1> QED
    BY <1>2, <1>3, <1>4, GroupIs

LEMMA RingIsWorld ==
  ASSUME NEW k, IsCallNumber(k), program[k].op = "alltoall"
  PROVE  IsWorld(k)
  <1>1. IsCall(program[k])
    BY GroupIs
  <1> QED
    BY <1>1 DEF IsCall, IsWorld, Comm

\* The flow of a step is made of flits.
LEMMA StepFlowTyped ==
  ASSUME NEW k, IsCallNumber(k), NEW h \in StepSet(k), NEW p \in Process, NEW q \in Process, NEW d
  PROVE  StepFlow(d, p, q, k, h) \in Seq(Flit)
  <1>1. k \in Nat /\ Ack(k) \in Flit /\ \A f \in Flit : <<f>> \in Seq(Flit)
    BY GroupIs DEF Ack, Flit
  <1>2. <<>> \in Seq(Flit) /\ <<Ack(k)>> \in Seq(Flit)
    BY <1>1
  <1>0. ASSUME NEW a \in Nat, NEW b \in Nat PROVE DataSeq(k, a - b + 1, a) \in Seq(Flit)
    <2>1. a - b + 1 \in Int /\ a \in Int
      OBVIOUS
    <2> QED
      BY <1>1, <2>1, DataSeqTyped
  <1>3. CASE h \in Transfers
    <2>1. h.do \in {"send", "recv"} /\ h.flit \in Flit
      BY <1>3 DEF Transfers
    <2> QED
      BY <1>1, <1>2, <2>1 DEF StepFlow
  <1>4. CASE h \in AckLoops
    <2>1. h.do = "acks"
      BY <1>4 DEF AckLoops
    <2> QED
      BY <1>2, <2>1 DEF StepFlow
  <1>5. CASE h \in GatherLoops(k)
    <2>1. h.do = "gather" /\ h.lens[q] \in Nat /\ (h.lens[q] # 0 => q \in Members(k))
      BY <1>5 DEF GatherLoops
    <2>2. h.lens[q] # 0 => PartLength(k, GroupRank(k, q)) \in Nat
      BY <2>1, GroupIs
    <2>3. h.lens[q] # 0 => DataSeq(k, PartLength(k, GroupRank(k, q)) - h.lens[q] + 1, PartLength(k, GroupRank(k, q))) \in Seq(Flit)
      BY <1>0, <2>1, <2>2
    <2> QED
      BY <1>2, <2>1, <2>3 DEF StepFlow
  <1>6. CASE h \in PairLoops
    <2>1. h.do = "sendrecv" /\ h.slen \in Nat /\ h.sleft \in Nat /\ h.rlen \in Nat /\ h.rleft \in Nat
      BY <1>6 DEF PairLoops
    <2>2. DataSeq(k, h.slen - h.sleft + 1, h.slen) \in Seq(Flit) /\ DataSeq(k, h.rlen - h.rleft + 1, h.rlen) \in Seq(Flit)
      BY <1>0, <2>1
    <2> QED
      BY <1>2, <2>1, <2>2 DEF StepFlow
  <1>7. CASE h \in RingLoops(k)
    <2>1. h.do = "alltoall" /\ h.slens[q] \in Nat /\ h.rlens[q] \in Nat /\ IsWorld(k)
      BY <1>7, RingIsWorld DEF RingLoops
    <2>2. PartLength(k, p) \in Nat /\ PartLength(k, q) \in Nat
      BY <2>1, WorldIs
    <2>3. /\ DataSeq(k, PartLength(k, q) - h.slens[q] + 1, PartLength(k, q)) \in Seq(Flit)
          /\ DataSeq(k, PartLength(k, p) - h.rlens[q] + 1, PartLength(k, p)) \in Seq(Flit)
      BY <1>0, <2>1, <2>2
    <2> QED
      BY <2>1, <2>3 DEF StepFlow
  <1> QED
    BY <1>3, <1>4, <1>5, <1>6, <1>7 DEF StepSet

-----------------------------------------------------------------------------
\* The flits of a list of steps.

\* The flow of a list of steps.
FlowOf(d, p, q, k, s) == [i \in 1 .. Len(s) |-> StepFlow(d, p, q, k, s[i])]

LEMMA FlowList ==
  ASSUME NEW k, IsCallNumber(k), NEW s \in Seq(StepSet(k)), NEW p \in Process, NEW q \in Process, NEW d
  PROVE  /\ FlowOf(d, p, q, k, s) \in Seq(Seq(Flit)) /\ Len(FlowOf(d, p, q, k, s)) = Len(s)
         /\ \A i \in 1 .. Len(s) : FlowOf(d, p, q, k, s)[i] = StepFlow(d, p, q, k, s[i])
         /\ Flow(d, p, q, k, s) = FlattenSeq(FlowOf(d, p, q, k, s))
         /\ Flow(d, p, q, k, s) \in Seq(Flit)
  <1>1. \A i \in 1 .. Len(s) : StepFlow(d, p, q, k, s[i]) \in Seq(Flit)
    BY StepFlowTyped, ElementOfSeq
  <1>2. FlowOf(d, p, q, k, s) \in [1 .. Len(s) -> Seq(Flit)]
    BY <1>1 DEF FlowOf
  <1>3. Len(s) \in Nat
    OBVIOUS
  <1>4. FlowOf(d, p, q, k, s) \in Seq(Seq(Flit)) /\ Len(FlowOf(d, p, q, k, s)) = Len(s)
    BY <1>2, <1>3, FunctionIsList
  <1>5. \A i \in 1 .. Len(s) : FlowOf(d, p, q, k, s)[i] = StepFlow(d, p, q, k, s[i])
    BY DEF FlowOf
  <1>6. Flow(d, p, q, k, s) = FlattenSeq(FlowOf(d, p, q, k, s))
    BY DEF Flow, FlowOf
  <1> QED
    BY <1>4, <1>5, <1>6, FlattenTyped

\* No steps, no flits.
LEMMA FlowEmpty ==
  ASSUME NEW k, NEW p, NEW q, NEW d
  PROVE  Flow(d, p, q, k, <<>>) = <<>>
  <1>1. [i \in 1 .. Len(<<>>) |-> StepFlow(d, p, q, k, <<>>[i])] = <<>>
    OBVIOUS
  <1> QED
    BY <1>1, FlattenEmpty DEF Flow

\* The flow of two lists of steps, one after the other.
LEMMA FlowConcat ==
  ASSUME NEW k, IsCallNumber(k), NEW s \in Seq(StepSet(k)), NEW t \in Seq(StepSet(k)),
         NEW p \in Process, NEW q \in Process, NEW d
  PROVE  Flow(d, p, q, k, s \o t) = Flow(d, p, q, k, s) \o Flow(d, p, q, k, t)
  <1> DEFINE a == FlowOf(d, p, q, k, s)
             b == FlowOf(d, p, q, k, t)
             u == s \o t
             c == FlowOf(d, p, q, k, u)
  <1>0. /\ u \in Seq(StepSet(k)) /\ Len(u) = Len(s) + Len(t) /\ Len(s) \in Nat /\ Len(t) \in Nat
        /\ \A i \in 1 .. Len(s) + Len(t) : u[i] = IF i <= Len(s) THEN s[i] ELSE t[i - Len(s)]
    BY ConcatProperties
  <1> HIDE DEF u
  <1>1. /\ a \in Seq(Seq(Flit)) /\ Len(a) = Len(s) /\ Flow(d, p, q, k, s) = FlattenSeq(a)
        /\ \A i \in 1 .. Len(s) : a[i] = StepFlow(d, p, q, k, s[i])
    BY FlowList
  <1>2. /\ b \in Seq(Seq(Flit)) /\ Len(b) = Len(t) /\ Flow(d, p, q, k, t) = FlattenSeq(b)
        /\ \A i \in 1 .. Len(t) : b[i] = StepFlow(d, p, q, k, t[i])
    BY FlowList
  <1>3. /\ c \in Seq(Seq(Flit)) /\ Len(c) = Len(s) + Len(t) /\ Flow(d, p, q, k, u) = FlattenSeq(c)
        /\ \A i \in 1 .. Len(s) + Len(t) : c[i] = StepFlow(d, p, q, k, u[i])
    BY <1>0, FlowList
  <1> HIDE DEF a, b, c
  <1>4. c = a \o b
    <2>1. a \o b \in Seq(Seq(Flit)) /\ Len(a \o b) = Len(s) + Len(t)
      <3> DEFINE T == Seq(Flit)
      <3>1. a \in Seq(T) /\ b \in Seq(T)
        BY <1>1, <1>2
      <3> HIDE DEF T
      <3>2. a \o b \in Seq(T) /\ Len(a \o b) = Len(a) + Len(b)
        BY <3>1
      <3> QED
        BY <1>1, <1>2, <3>2 DEF T
    <2>2. ASSUME NEW i \in 1 .. Len(s) + Len(t) PROVE c[i] = (a \o b)[i]
      <3>1. CASE i <= Len(s)
        <4>1. i \in 1 .. Len(s) /\ u[i] = s[i]
          BY <1>0, <3>1
        <4>2. (a \o b)[i] = a[i]
          BY <1>1, <1>2, <4>1
        <4> QED
          BY <1>1, <1>3, <4>1, <4>2
      <3>2. CASE i > Len(s)
        <4>1. i - Len(s) \in 1 .. Len(t) /\ u[i] = t[i - Len(s)]
          BY <1>0, <3>2
        <4>2. (a \o b)[i] = b[i - Len(s)]
          BY <1>0, <1>1, <1>2, <3>2, ConcatProperties
        <4> QED
          BY <1>2, <1>3, <4>1, <4>2
      <3>3. i <= Len(s) \/ i > Len(s)
        BY <1>0
      <3> QED
        BY <3>1, <3>2, <3>3
    <2> QED
      BY <1>3, <2>1, <2>2, SeqEqual
  <1>5. FlattenSeq(a \o b) = FlattenSeq(a) \o FlattenSeq(b)
    BY <1>1, <1>2, FlattenConcat
  <1>6. Flow(d, p, q, k, u) = Flow(d, p, q, k, s) \o Flow(d, p, q, k, t)
    BY <1>1, <1>2, <1>3, <1>4, <1>5
  <1> QED
    BY <1>6 DEF u

\* The flow of one step.
LEMMA FlowOne ==
  ASSUME NEW k, IsCallNumber(k), NEW h \in StepSet(k), NEW p \in Process, NEW q \in Process, NEW d
  PROVE  Flow(d, p, q, k, <<h>>) = StepFlow(d, p, q, k, h)
  <1> DEFINE s == <<h>>
             F == FlowOf(d, p, q, k, s)
  <1>1. s \in Seq(StepSet(k)) /\ Len(s) = 1 /\ s[1] = h
    OBVIOUS
  <1> HIDE DEF s
  <1>2. F \in Seq(Seq(Flit)) /\ Len(F) = 1 /\ F[1] = StepFlow(d, p, q, k, h) /\ Flow(d, p, q, k, s) = FlattenSeq(F)
    <2>1. F \in Seq(Seq(Flit)) /\ Len(F) = Len(s) /\ Flow(d, p, q, k, s) = FlattenSeq(F)
      BY <1>1, FlowList
    <2>2. F[1] = StepFlow(d, p, q, k, s[1])
      BY <1>1 DEF FlowOf
    <2> QED
      BY <1>1, <2>1, <2>2
  <1> HIDE DEF F
  <1>3. FlattenSeq(F) = F[1]
    <2>1. 1 \in 1 .. Len(F) /\ \A i \in 1 .. Len(F) : i # 1 => F[i] = <<>>
      BY <1>2
    <2> QED
      BY <1>2, <2>1, FlattenOnly
  <1>4. Flow(d, p, q, k, s) = StepFlow(d, p, q, k, h)
    BY <1>2, <1>3
  <1> QED
    BY <1>4 DEF s

\* The first step and the others.
LEMMA FlowFirst ==
  ASSUME NEW k, IsCallNumber(k), NEW s \in Seq(StepSet(k)), s # <<>>,
         NEW p \in Process, NEW q \in Process, NEW d
  PROVE  Flow(d, p, q, k, s) = StepFlow(d, p, q, k, Head(s)) \o Flow(d, p, q, k, Tail(s))
  <1> DEFINE h == Head(s)
             a == <<h>>
             t == Tail(s)
  <1>1. s = a \o t /\ h \in StepSet(k) /\ t \in Seq(StepSet(k)) /\ a \in Seq(StepSet(k))
    OBVIOUS
  <1>2. Flow(d, p, q, k, a) = StepFlow(d, p, q, k, h)
    <2> HIDE DEF h
    <2> QED
      BY <1>1, FlowOne
  <1> HIDE DEF h, a, t
  <1>3. Flow(d, p, q, k, a \o t) = Flow(d, p, q, k, a) \o Flow(d, p, q, k, t)
    BY <1>1, FlowConcat
  <1>4. Flow(d, p, q, k, s) = StepFlow(d, p, q, k, h) \o Flow(d, p, q, k, t)
    BY <1>1, <1>2, <1>3
  <1> QED
    BY <1>4 DEF h, t

\* The flow of several scripts, one after the other.
FlowsOf(d, p, q, k, ss) == [i \in 1 .. Len(ss) |-> Flow(d, p, q, k, ss[i])]

LEMMA FlowFlatten ==
  ASSUME NEW k, IsCallNumber(k), NEW ss \in Seq(Seq(StepSet(k))),
         NEW p \in Process, NEW q \in Process, NEW d
  PROVE  /\ FlowsOf(d, p, q, k, ss) \in Seq(Seq(Flit)) /\ Len(FlowsOf(d, p, q, k, ss)) = Len(ss)
         /\ FlattenSeq(ss) \in Seq(StepSet(k))
         /\ Flow(d, p, q, k, FlattenSeq(ss)) = FlattenSeq(FlowsOf(d, p, q, k, ss))
  <1> DEFINE n == Len(ss)
             F == FlowsOf(d, p, q, k, ss)
  <1>1. n \in Nat /\ \A i \in 1 .. n : ss[i] \in Seq(StepSet(k))
    OBVIOUS
  <1>0. F = [i \in 1 .. n |-> Flow(d, p, q, k, ss[i])]
    BY DEF FlowsOf
  <1> HIDE DEF F
  <1>2. F \in Seq(Seq(Flit)) /\ Len(F) = n
    <2>1. \A i \in 1 .. n : Flow(d, p, q, k, ss[i]) \in Seq(Flit)
      BY <1>1, FlowList
    <2>2. F \in [1 .. n -> Seq(Flit)]
      BY <1>0, <2>1
    <2> HIDE DEF F, n
    <2> QED
      BY <1>1, <2>2, FunctionIsList
  <1>3. FlattenSeq(ss) \in Seq(StepSet(k))
    BY FlattenTyped
  <1>6. \A a, b \in Seq(StepSet(k)) : Flow(d, p, q, k, a \o b) = Flow(d, p, q, k, a) \o Flow(d, p, q, k, b)
    BY FlowConcat
  <1>4. CASE ss = <<>>
    <2>1. n = 0
      BY <1>4
    <2>2. F = <<>>
      BY <1>2, <2>1
    <2> HIDE DEF F, n
    <2>3. Flow(d, p, q, k, FlattenSeq(ss)) = FlattenSeq(F)
      BY <1>4, <2>2, FlattenEmpty, FlowEmpty
    <2> QED
      BY <1>2, <1>3, <2>3 DEF F, n
  <1>5. CASE ss # <<>>
    <2>1. PICK g \in [1 .. n -> Seq(StepSet(k))] : Flattens(g, ss, n) /\ FlattenSeq(ss) = g[n]
      BY <1>5, FlattenIs
    <2> DEFINE V == [i \in 1 .. n |-> Flow(d, p, q, k, g[i])]
    <2>2. n # 0
      BY <1>5
    <2>3. Flattens(V, F, n)
      <3> SUFFICES ASSUME NEW i \in 1 .. n
                   PROVE  V[i] = IF i = 1 THEN F[i] ELSE V[i-1] \o F[i]
        BY DEF Flattens
      <3>1. V[i] = Flow(d, p, q, k, g[i]) /\ F[i] = Flow(d, p, q, k, ss[i])
        BY <1>0
      <3>2. CASE i = 1
        <4>1. g[i] = ss[i]
          BY <2>1, <3>2 DEF Flattens
        <4> QED
          BY <3>1, <3>2, <4>1
      <3>3. CASE i # 1
        <4>1. i - 1 \in 1 .. n /\ V[i-1] = Flow(d, p, q, k, g[i-1])
          BY <1>1, <3>3
        <4>2. g[i] = g[i-1] \o ss[i]
          BY <2>1, <3>3 DEF Flattens
        <4>3. g[i-1] \in Seq(StepSet(k)) /\ ss[i] \in Seq(StepSet(k))
          BY <1>1, <2>1, <4>1
        <4>4. Flow(d, p, q, k, g[i-1] \o ss[i]) = Flow(d, p, q, k, g[i-1]) \o Flow(d, p, q, k, ss[i])
          BY <1>6, <4>3
        <4> QED
          BY <3>1, <3>3, <4>1, <4>2, <4>4
      <3> QED
        BY <3>2, <3>3
    <2>4. V[n] = Flow(d, p, q, k, g[n])
      BY <1>1, <2>2
    <2>5. F # <<>>
      BY <1>2, <2>2
    <2> HIDE DEF F, n, V
    <2>6. FlattenSeq(F) = V[n]
      BY <1>2, <2>3, <2>5, FlattenAs
    <2>7. Flow(d, p, q, k, FlattenSeq(ss)) = FlattenSeq(F)
      BY <2>1, <2>4, <2>6
    <2> QED
      BY <1>2, <1>3, <2>7 DEF F, n
  <1> QED
    BY <1>4, <1>5

\* At most the script j of all has flits for q:
NoOtherFlow(d, p, q, k, ss, j) ==
  \A i \in 1 .. Len(ss) : i # j => Flow(d, p, q, k, ss[i]) = <<>>

\* what flows is what flows in that one;
LEMMA FlowOnly ==
  ASSUME NEW k, IsCallNumber(k), NEW ss \in Seq(Seq(StepSet(k))),
         NEW p \in Process, NEW q \in Process, NEW d,
         NEW j \in 1 .. Len(ss), NoOtherFlow(d, p, q, k, ss, j)
  PROVE  Flow(d, p, q, k, FlattenSeq(ss)) = Flow(d, p, q, k, ss[j])
  <1> DEFINE F == FlowsOf(d, p, q, k, ss)
  <1>1. F \in Seq(Seq(Flit)) /\ Len(F) = Len(ss) /\ Flow(d, p, q, k, FlattenSeq(ss)) = FlattenSeq(F)
    BY FlowFlatten
  <1>2. \A i \in 1 .. Len(ss) : F[i] = Flow(d, p, q, k, ss[i])
    BY DEF FlowsOf
  <1> HIDE DEF F
  <1>3. j \in 1 .. Len(F) /\ \A i \in 1 .. Len(F) : i # j => F[i] = <<>>
    BY <1>1, <1>2 DEF NoOtherFlow
  <1>4. FlattenSeq(F) = F[j]
    BY <1>1, <1>3, FlattenOnly
  <1> QED
    BY <1>1, <1>2, <1>4

\* and none of them has any.
LEMMA FlowNothing ==
  ASSUME NEW k, IsCallNumber(k), NEW ss \in Seq(Seq(StepSet(k))),
         NEW p \in Process, NEW q \in Process, NEW d,
         \A i \in 1 .. Len(ss) : Flow(d, p, q, k, ss[i]) = <<>>
  PROVE  Flow(d, p, q, k, FlattenSeq(ss)) = <<>>
  <1> DEFINE F == FlowsOf(d, p, q, k, ss)
  <1>1. F \in Seq(Seq(Flit)) /\ Len(F) = Len(ss) /\ Flow(d, p, q, k, FlattenSeq(ss)) = FlattenSeq(F)
    BY FlowFlatten
  <1>2. \A i \in 1 .. Len(ss) : F[i] = <<>>
    BY DEF FlowsOf
  <1> HIDE DEF F
  <1>3. FlattenSeq(F) = <<>>
    BY <1>1, <1>2, FlattenNothing
  <1> QED
    BY <1>1, <1>3

-----------------------------------------------------------------------------
\* The flits of the parts of a script.

\* Two and three lists of steps.
LEMMA FlowTwo ==
  ASSUME NEW k, IsCallNumber(k), NEW s \in Seq(StepSet(k)), NEW t \in Seq(StepSet(k)),
         NEW p \in Process, NEW q \in Process, NEW d
  PROVE  /\ s \o t \in Seq(StepSet(k))
         /\ Flow(d, p, q, k, s \o t) = Flow(d, p, q, k, s) \o Flow(d, p, q, k, t)
         /\ Flow(d, p, q, k, s) \in Seq(Flit) /\ Flow(d, p, q, k, t) \in Seq(Flit)
         /\ Flow(d, p, q, k, s) = <<>> => Flow(d, p, q, k, s \o t) = Flow(d, p, q, k, t)
         /\ Flow(d, p, q, k, t) = <<>> => Flow(d, p, q, k, s \o t) = Flow(d, p, q, k, s)
  <1>1. s \o t \in Seq(StepSet(k))
    BY ConcatProperties
  <1>2. Flow(d, p, q, k, s \o t) = Flow(d, p, q, k, s) \o Flow(d, p, q, k, t)
    BY FlowConcat
  <1>3. Flow(d, p, q, k, s) \in Seq(Flit) /\ Flow(d, p, q, k, t) \in Seq(Flit)
    BY FlowList
  <1> DEFINE a == Flow(d, p, q, k, s)
             b == Flow(d, p, q, k, t)
  <1>4. a \o <<>> = a /\ <<>> \o b = b
    <2>1. a \in Seq(Flit) /\ b \in Seq(Flit)
      BY <1>3
    <2> HIDE DEF a, b
    <2> QED
      BY <2>1, ConcatEmptySeq
  <1> QED
    BY <1>1, <1>2, <1>3, <1>4

\* A flit that is sent or received.
LEMMA SendFlow ==
  ASSUME NEW k, IsCallNumber(k), NEW c \in Process, NEW f \in Flit, NEW p \in Process, NEW q \in Process
  PROVE  /\ Send(c, f) \in Seq(StepSet(k))
         /\ Flow("send", p, q, k, Send(c, f)) = IF q = c THEN <<f>> ELSE <<>>
         /\ Flow("recv", p, q, k, Send(c, f)) = <<>>
  <1> DEFINE h == [do |-> "send", cid |-> c, flit |-> f]
  <1>1. h \in StepSet(k)
    BY DEF StepSet, Transfers
  <1>2. /\ StepFlow("send", p, q, k, h) = IF q = c THEN <<f>> ELSE <<>>
        /\ StepFlow("recv", p, q, k, h) = <<>>
    BY DEF StepFlow
  <1>3. Send(c, f) = <<h>>
    BY DEF Send
  <1> HIDE DEF h
  <1>4. \A d : Flow(d, p, q, k, <<h>>) = StepFlow(d, p, q, k, h)
    BY <1>1, FlowOne
  <1> QED
    BY <1>1, <1>2, <1>3, <1>4

LEMMA ReceiveFlow ==
  ASSUME NEW k, IsCallNumber(k), NEW c \in Process, NEW f \in Flit, NEW p \in Process, NEW q \in Process
  PROVE  /\ Receive(c, f) \in Seq(StepSet(k))
         /\ Flow("recv", p, q, k, Receive(c, f)) = IF q = c THEN <<f>> ELSE <<>>
         /\ Flow("send", p, q, k, Receive(c, f)) = <<>>
  <1> DEFINE h == [do |-> "recv", cid |-> c, flit |-> f]
  <1>1. h \in StepSet(k)
    BY DEF StepSet, Transfers
  <1>2. /\ StepFlow("recv", p, q, k, h) = IF q = c THEN <<f>> ELSE <<>>
        /\ StepFlow("send", p, q, k, h) = <<>>
    BY DEF StepFlow
  <1>3. Receive(c, f) = <<h>>
    BY DEF Receive
  <1> HIDE DEF h
  <1>4. \A d : Flow(d, p, q, k, <<h>>) = StepFlow(d, p, q, k, h)
    BY <1>1, FlowOne
  <1> QED
    BY <1>1, <1>2, <1>3, <1>4

\* Steps that transfer one flit each.
RawSteps(do, k, c, a, b) ==
  [j \in 1 .. (b + 1) - a |-> [do |-> do, cid |-> c, flit |-> Data(k, a + j - 1)]]

LEMMA RawFlow ==
  ASSUME NEW k, IsCallNumber(k), NEW c \in Process, NEW a \in Int, NEW b \in Int,
         NEW do \in {"send", "recv"}, NEW d \in {"send", "recv"}, NEW p \in Process, NEW q \in Process
  PROVE  /\ RawSteps(do, k, c, a, b) \in Seq(StepSet(k))
         /\ Flow(d, p, q, k, RawSteps(do, k, c, a, b)) =
              IF d = do /\ q = c THEN DataSeq(k, a, b) ELSE <<>>
  <1> DEFINE s == RawSteps(do, k, c, a, b)
             n == (b + 1) - a
             e == DataSeq(k, a, b)
  <1>0. k \in Nat /\ \A i \in Int : Data(k, i) \in Flit
    BY GroupIs DEF Data, Flit
  <1>1. CASE n < 1
    <2>1. s = <<>>
      <3>1. 1 .. n = 1 .. 0
        BY <1>1
      <3>2. s = [j \in 1 .. 0 |-> [do |-> do, cid |-> c, flit |-> Data(k, a + j - 1)]]
        BY <3>1 DEF RawSteps
      <3> QED
        BY <3>2
    <2>2. e = <<>>
      <3>1. b < a
        BY <1>1
      <3> QED
        BY <1>0, <3>1, DataSeqTyped
    <2> HIDE DEF s, e
    <2>3. <<>> \in Seq(StepSet(k)) /\ Flow(d, p, q, k, <<>>) = <<>>
      BY FlowEmpty
    <2> QED
      BY <2>1, <2>2, <2>3 DEF s, e
  <1>2. CASE n >= 1
    <2>0. a <= b /\ n \in Nat
      BY <1>2
    <2>1. n \in Nat /\ e \in Seq(Flit) /\ Len(e) = n
      <3>1. DataSeq(k, a, b) \in Seq(Flit) /\ Len(DataSeq(k, a, b)) = (b + 1) - a
        BY <1>0, <2>0, DataSeqTyped
      <3> QED
        BY <2>0, <3>1
    <2>2. \A i \in 1 .. n : e[i] = Data(k, a + i - 1)
      BY DEF DataSeq
    <2>3. \A i \in 1 .. n : s[i] = [do |-> do, cid |-> c, flit |-> Data(k, a + i - 1)]
      BY DEF RawSteps
    <2>4. \A i \in 1 .. n : s[i] \in StepSet(k)
      <3> TAKE i \in 1 .. n
      <3>1. Data(k, a + i - 1) \in Flit
        <4>1. i \in Int
          BY <2>0
        <4>2. a + i - 1 \in Int
          BY <4>1
        <4> QED
          BY <1>0, <4>2
      <3>2. [do |-> do, cid |-> c, flit |-> Data(k, a + i - 1)] \in Transfers
        BY <3>1 DEF Transfers
      <3> HIDE DEF s, n
      <3> QED
        BY <2>3, <3>2 DEF StepSet
    <2>5. s \in Seq(StepSet(k)) /\ Len(s) = n
      <3>1. s = [i \in 1 .. n |-> s[i]]
        BY DEF RawSteps
      <3>2. s \in [1 .. n -> StepSet(k)]
        <4> HIDE DEF s, n
        <4> QED
          BY <2>4, <3>1
      <3> HIDE DEF s, n
      <3> QED
        BY <2>1, <3>2, FunctionIsList
    <2> DEFINE F == FlowOf(d, p, q, k, s)
    <2>6. /\ F \in Seq(Seq(Flit)) /\ Len(F) = n /\ Flow(d, p, q, k, s) = FlattenSeq(F)
          /\ \A i \in 1 .. n : F[i] = StepFlow(d, p, q, k, s[i])
      <3> HIDE DEF s, n
      <3> QED
        BY <2>5, FlowList
    <2>7. \A i \in 1 .. n : StepFlow(d, p, q, k, s[i]) = IF d = do /\ q = c THEN <<e[i]>> ELSE <<>>
      <3> TAKE i \in 1 .. n
      <3>0. s[i] = [do |-> do, cid |-> c, flit |-> e[i]]
        <4> HIDE DEF s, n, e
        <4> QED
          BY <2>2, <2>3
      <3> HIDE DEF s, n, e
      <3>1. s[i].do = do /\ s[i].cid = c /\ s[i].flit = e[i]
        BY <3>0
      <3> QED
        BY <3>1 DEF StepFlow
    <2> HIDE DEF s, n, e, F
    <2>8. Flow(d, p, q, k, s) = IF d = do /\ q = c THEN e ELSE <<>>
      <3>1. CASE d = do /\ q = c
        <4>1. \A i \in 1 .. Len(e) : F[i] = <<e[i]>>
          BY <2>1, <2>6, <2>7, <3>1
        <4>2. FlattenSeq(F) = e
          BY <2>1, <2>6, <4>1, FlattenSingles
        <4> QED
          BY <2>6, <3>1, <4>2
      <3>2. CASE ~(d = do /\ q = c)
        <4>1. \A i \in 1 .. Len(F) : F[i] = <<>>
          BY <2>6, <2>7, <3>2
        <4>2. FlattenSeq(F) = <<>>
          BY <2>6, <4>1, FlattenNothing
        <4> QED
          BY <2>6, <3>2, <4>2
      <3> QED
        BY <3>1, <3>2
    <2> QED
      BY <2>5, <2>8 DEF s, e
  <1>3. n < 1 \/ n >= 1
    OBVIOUS
  <1> QED
    BY <1>1, <1>2, <1>3

\* send_raw and recv_raw.
LEMMA RawIs ==
  ASSUME NEW k, NEW c, NEW a \in Int, NEW b \in Int
  PROVE  SendRaw(k, c, a, b) = RawSteps("send", k, c, a, b) /\ RecvRaw(k, c, a, b) = RawSteps("recv", k, c, a, b)
  BY DEF SendRaw, RecvRaw, RawSteps, Send, Receive

\* Nothing is left of a message.
LEMMA DataNone ==
  ASSUME NEW k \in Nat, NEW n \in Nat
  PROVE  DataSeq(k, n - 0 + 1, n) = <<>>
  <1>1. n - 0 + 1 \in Int /\ n \in Int /\ n < n - 0 + 1
    OBVIOUS
  <1> QED
    BY <1>1, DataSeqTyped

\* A loop is left out if nothing is left to do.
LEMMA LoopFlow ==
  ASSUME NEW k, IsCallNumber(k), NEW h \in StepSet(k), h.do \notin {"send", "recv"},
         NEW p \in Process, NEW q \in Process, NEW d
  PROVE  Loop(h) \in Seq(StepSet(k)) /\ Flow(d, p, q, k, Loop(h)) = StepFlow(d, p, q, k, h)
  <1>1. CASE ~Finished(h)
    <2>1. Loop(h) = <<h>> /\ <<h>> \in Seq(StepSet(k))
      BY <1>1 DEF Loop
    <2> QED
      BY <2>1, FlowOne
  <1>2. CASE Finished(h)
    <2>1. StepFlow(d, p, q, k, h) = <<>>
      <3>0. k \in Nat
        BY GroupIs
      <3>1. CASE h \in AckLoops
        <4>1. h.do = "acks" /\ h.from = {}
          BY <1>2, <3>1 DEF AckLoops, Finished
        <4> QED
          BY <4>1 DEF StepFlow
      <3>2. CASE h \in GatherLoops(k)
        <4>1. h.do = "gather" /\ h.lens[q] = 0
          BY <1>2, <3>2 DEF GatherLoops, Finished
        <4> QED
          BY <4>1 DEF StepFlow
      <3>3. CASE h \in PairLoops
        <4>1. h.do = "sendrecv" /\ h.sleft = 0 /\ h.rleft = 0 /\ h.slen \in Nat /\ h.rlen \in Nat
          BY <1>2, <3>3 DEF PairLoops, Finished
        <4>2. DataSeq(k, h.slen - 0 + 1, h.slen) = <<>> /\ DataSeq(k, h.rlen - 0 + 1, h.rlen) = <<>>
          <5>1. ASSUME NEW n \in Nat PROVE DataSeq(k, n - 0 + 1, n) = <<>>
            BY <3>0, DataNone
          <5> QED
            BY <4>1, <5>1
        <4> QED
          BY <4>1, <4>2 DEF StepFlow
      <3>4. CASE h \in RingLoops(k)
        <4>1. h.do = "alltoall" /\ h.slens[q] = 0 /\ h.rlens[q] = 0 /\ IsWorld(k)
          BY <1>2, <3>4, RingIsWorld DEF RingLoops, Finished
        <4>2. PartLength(k, q) \in Nat /\ PartLength(k, p) \in Nat
          BY <4>1, WorldIs
        <4>3. ASSUME NEW n \in Nat PROVE DataSeq(k, n - 0 + 1, n) = <<>>
          BY <3>0, DataNone
        <4>4. DataSeq(k, PartLength(k, q) - 0 + 1, PartLength(k, q)) = <<>> /\ DataSeq(k, PartLength(k, p) - 0 + 1, PartLength(k, p)) = <<>>
          BY <4>2, <4>3
        <4> QED
          BY <4>1, <4>4 DEF StepFlow
      <3>5. h \notin Transfers
        BY DEF Transfers
      <3> QED
        BY <3>1, <3>2, <3>3, <3>4, <3>5 DEF StepSet
    <2>2. Loop(h) = <<>> /\ <<>> \in Seq(StepSet(k))
      BY <1>2 DEF Loop
    <2>3. Flow(d, p, q, k, <<>>) = <<>>
      BY FlowEmpty
    <2> QED
      BY <2>1, <2>2, <2>3
  <1> QED
    BY <1>1, <1>2

\* The same for all ranks but one.
LEMMA OthersFlow ==
  ASSUME NEW k, IsCallNumber(k), NEW ss \in [1 .. GroupSize(k) -> Seq(StepSet(k))],
         NEW p \in Process, NEW q \in Process, NEW d,
         \A r \in Ranks(k) : CidFromComm(k, r) # q => Flow(d, p, q, k, ss[r+1]) = <<>>
  PROVE  /\ FlattenSeq(ss) \in Seq(StepSet(k))
         /\ Flow(d, p, q, k, FlattenSeq(ss)) =
              IF q \in Members(k) THEN Flow(d, p, q, k, ss[GroupRank(k, q) + 1]) ELSE <<>>
  <1>0. GroupSize(k) \in Nat
    BY GroupIs
  <1>1. ss \in Seq(Seq(StepSet(k))) /\ Len(ss) = GroupSize(k)
    BY <1>0, FunctionIsList
  <1>2. FlattenSeq(ss) \in Seq(StepSet(k))
    BY <1>1, FlattenTyped
  <1>3. \A i \in 1 .. Len(ss) : i - 1 \in Ranks(k) /\ (i - 1) + 1 = i
    BY <1>0, <1>1 DEF Ranks
  <1>4. CASE q \in Members(k)
    <2> DEFINE j == GroupRank(k, q) + 1
    <2>1. j - 1 \in Ranks(k) /\ j \in 1 .. Len(ss) /\ CidFromComm(k, j - 1) = q
      BY <1>0, <1>1, <1>4, GroupIs DEF Ranks
    <2>2. \A r \in Ranks(k) : CidFromComm(k, r) = q => r = j - 1
      BY <1>4, GroupIs DEF Ranks
    <2> HIDE DEF j
    <2>3. NoOtherFlow(d, p, q, k, ss, j)
      <3> SUFFICES ASSUME NEW i \in 1 .. Len(ss), i # j PROVE Flow(d, p, q, k, ss[i]) = <<>>
        BY DEF NoOtherFlow
      <3>1. i - 1 \in Ranks(k) /\ (i - 1) + 1 = i /\ i - 1 # j - 1
        BY <1>3, <2>1
      <3>2. Flow(d, p, q, k, ss[(i - 1) + 1]) = <<>>
        BY <2>2, <3>1
      <3> QED
        BY <3>1, <3>2
    <2>4. ss \in Seq(Seq(StepSet(k))) /\ j \in 1 .. Len(ss)
      BY <1>1, <2>1
    <2>5. Flow(d, p, q, k, FlattenSeq(ss)) = Flow(d, p, q, k, ss[j])
      <3>1. ASSUME NEW tt \in Seq(Seq(StepSet(k))), NEW i \in 1 .. Len(tt), NoOtherFlow(d, p, q, k, tt, i)
            PROVE  Flow(d, p, q, k, FlattenSeq(tt)) = Flow(d, p, q, k, tt[i])
        BY <3>1, FlowOnly
      <3> QED
        BY <2>3, <2>4, <3>1
    <2> QED
      BY <1>2, <1>4, <2>5 DEF j
  <1>5. CASE q \notin Members(k)
    <2>1. \A r \in Ranks(k) : CidFromComm(k, r) # q
      BY <1>5, GroupIs
    <2>2. \A i \in 1 .. Len(ss) : Flow(d, p, q, k, ss[i]) = <<>>
      <3> TAKE i \in 1 .. Len(ss)
      <3>1. Flow(d, p, q, k, ss[(i - 1) + 1]) = <<>>
        BY <1>3, <2>1
      <3> QED
        BY <1>3, <3>1
    <2>3. Flow(d, p, q, k, FlattenSeq(ss)) = <<>>
      BY <1>1, <2>2, FlowNothing
    <2> QED
      BY <1>2, <1>5, <2>3
  <1> QED
    BY <1>4, <1>5

-----------------------------------------------------------------------------
\* A script carries these flits to or from another process.

\* The script s of p in call k has the flits m for q, or from q.
Carries(d, p, q, k, s, m) ==
  s \in Seq(StepSet(k)) /\ m \in Seq(Flit) /\ Flow(d, p, q, k, s) = m

LEMMA NoFlits == <<>> \in Seq(Flit) /\ \A m \in Seq(Flit) : m \o <<>> = m /\ <<>> \o m = m
  BY ConcatEmptySeq

LEMMA CarriesNothing ==
  ASSUME NEW k, NEW p, NEW q, NEW d
  PROVE  Carries(d, p, q, k, <<>>, <<>>)
  <1>1. <<>> \in Seq(StepSet(k))
    OBVIOUS
  <1> QED
    BY <1>1, NoFlits, FlowEmpty DEF Carries

LEMMA CarriesBoth ==
  ASSUME NEW k, IsCallNumber(k), NEW p \in Process, NEW q \in Process, NEW d,
         NEW s, NEW t, NEW m, NEW n, Carries(d, p, q, k, s, m), Carries(d, p, q, k, t, n)
  PROVE  Carries(d, p, q, k, s \o t, m \o n)
  <1>1. s \in Seq(StepSet(k)) /\ t \in Seq(StepSet(k)) /\ m \in Seq(Flit) /\ n \in Seq(Flit)
        /\ Flow(d, p, q, k, s) = m /\ Flow(d, p, q, k, t) = n
    BY DEF Carries
  <1>2. m \o n \in Seq(Flit)
    BY <1>1, ConcatProperties
  <1>3. s \o t \in Seq(StepSet(k)) /\ Flow(d, p, q, k, s \o t) = Flow(d, p, q, k, s) \o Flow(d, p, q, k, t)
    <2>1. s \in Seq(StepSet(k)) /\ t \in Seq(StepSet(k))
      BY <1>1
    <2>2. Flow(d, p, q, k, s \o t) = Flow(d, p, q, k, s) \o Flow(d, p, q, k, t)
      BY <2>1, FlowConcat
    <2>3. s \o t \in Seq(StepSet(k))
      BY <2>1, ConcatProperties
    <2> QED
      BY <2>2, <2>3
  <1>4. Flow(d, p, q, k, s \o t) = m \o n
    BY <1>1, <1>3
  <1> QED
    BY <1>2, <1>3, <1>4 DEF Carries

LEMMA CarriesSend ==
  ASSUME NEW k, IsCallNumber(k), NEW p \in Process, NEW q \in Process, NEW d \in {"send", "recv"},
         NEW c \in Process, NEW f \in Flit
  PROVE  /\ Carries(d, p, q, k, Send(c, f), IF d = "send" /\ q = c THEN <<f>> ELSE <<>>)
         /\ Carries(d, p, q, k, Receive(c, f), IF d = "recv" /\ q = c THEN <<f>> ELSE <<>>)
  <1>1. <<f>> \in Seq(Flit) /\ <<>> \in Seq(Flit)
    OBVIOUS
  <1>2. /\ Send(c, f) \in Seq(StepSet(k)) /\ Receive(c, f) \in Seq(StepSet(k))
        /\ Flow(d, p, q, k, Send(c, f)) = IF d = "send" /\ q = c THEN <<f>> ELSE <<>>
        /\ Flow(d, p, q, k, Receive(c, f)) = IF d = "recv" /\ q = c THEN <<f>> ELSE <<>>
    BY SendFlow, ReceiveFlow
  <1> QED
    BY <1>1, <1>2 DEF Carries

LEMMA CarriesRaw ==
  ASSUME NEW k, IsCallNumber(k), NEW p \in Process, NEW q \in Process, NEW d \in {"send", "recv"},
         NEW c \in Process, NEW a \in Int, NEW b \in Int
  PROVE  /\ Carries(d, p, q, k, SendRaw(k, c, a, b), IF d = "send" /\ q = c THEN DataSeq(k, a, b) ELSE <<>>)
         /\ Carries(d, p, q, k, RecvRaw(k, c, a, b), IF d = "recv" /\ q = c THEN DataSeq(k, a, b) ELSE <<>>)
  <1>0. k \in Nat
    BY GroupIs
  <1>1. DataSeq(k, a, b) \in Seq(Flit) /\ <<>> \in Seq(Flit)
    BY <1>0, DataSeqTyped, NoFlits
  <1>2. SendRaw(k, c, a, b) = RawSteps("send", k, c, a, b) /\ RecvRaw(k, c, a, b) = RawSteps("recv", k, c, a, b)
    BY RawIs
  <1>3. /\ RawSteps("send", k, c, a, b) \in Seq(StepSet(k)) /\ RawSteps("recv", k, c, a, b) \in Seq(StepSet(k))
        /\ Flow(d, p, q, k, RawSteps("send", k, c, a, b)) = IF d = "send" /\ q = c THEN DataSeq(k, a, b) ELSE <<>>
        /\ Flow(d, p, q, k, RawSteps("recv", k, c, a, b)) = IF d = "recv" /\ q = c THEN DataSeq(k, a, b) ELSE <<>>
    BY RawFlow
  <1> QED
    BY <1>1, <1>2, <1>3 DEF Carries

LEMMA CarriesLoop ==
  ASSUME NEW k, IsCallNumber(k), NEW p \in Process, NEW q \in Process, NEW d,
         NEW h \in StepSet(k), h.do \notin {"send", "recv"}
  PROVE  Carries(d, p, q, k, Loop(h), StepFlow(d, p, q, k, h))
  BY LoopFlow, StepFlowTyped DEF Carries

\* The same for all ranks but one.
LEMMA CarriesOthers ==
  ASSUME NEW k, IsCallNumber(k), NEW p \in Process, NEW q \in Process, NEW d,
         NEW root \in Ranks(k), NEW m \in Seq(Flit), NEW ss, ss = [i \in 1 .. GroupSize(k) |-> ss[i]],
         ss[root+1] = <<>>,
         \A r \in Ranks(k) \ {root} :
           Carries(d, p, q, k, ss[r+1], IF q = CidFromComm(k, r) THEN m ELSE <<>>)
  PROVE  Carries(d, p, q, k, FlattenSeq(ss),
                 IF q \in Members(k) /\ q # CidFromComm(k, root) THEN m ELSE <<>>)
  <1>0. GroupSize(k) \in Nat
    BY GroupIs
  <1>1. \A r \in Ranks(k) : /\ ss[r+1] \in Seq(StepSet(k))
                            /\ Flow(d, p, q, k, ss[r+1]) =
                                 IF q = CidFromComm(k, r) /\ r # root THEN m ELSE <<>>
    <2> TAKE r \in Ranks(k)
    <2>1. CASE r = root
      BY <2>1, CarriesNothing DEF Carries
    <2>2. CASE r # root
      BY <2>2 DEF Carries
    <2> QED
      BY <2>1, <2>2
  <1>2. \A i \in 1 .. GroupSize(k) : i - 1 \in Ranks(k) /\ (i - 1) + 1 = i
    BY <1>0 DEF Ranks
  <1>3. ss \in [1 .. GroupSize(k) -> Seq(StepSet(k))]
    <2>1. \A i \in 1 .. GroupSize(k) : ss[i] \in Seq(StepSet(k))
      <3> TAKE i \in 1 .. GroupSize(k)
      <3>1. ss[(i-1)+1] \in Seq(StepSet(k))
        BY <1>1, <1>2
      <3> QED
        BY <1>2, <3>1
    <2> QED
      BY <2>1
  <1>4. /\ FlattenSeq(ss) \in Seq(StepSet(k))
        /\ Flow(d, p, q, k, FlattenSeq(ss)) =
              IF q \in Members(k) THEN Flow(d, p, q, k, ss[GroupRank(k, q) + 1]) ELSE <<>>
    <2>1. \A r \in Ranks(k) : CidFromComm(k, r) # q => Flow(d, p, q, k, ss[r+1]) = <<>>
      BY <1>1
    <2> QED
      BY <1>3, <2>1, OthersFlow
  <1>5. q \in Members(k) => /\ GroupRank(k, q) \in Ranks(k) /\ CidFromComm(k, GroupRank(k, q)) = q
                            /\ (GroupRank(k, q) = root <=> q = CidFromComm(k, root))
    BY GroupIs
  <1>6. Flow(d, p, q, k, FlattenSeq(ss)) =
          IF q \in Members(k) /\ q # CidFromComm(k, root) THEN m ELSE <<>>
    BY <1>1, <1>4, <1>5
  <1> QED
    BY <1>4, <1>6, NoFlits DEF Carries

\* The next rank and the previous one.
LEMMA Neighbours ==
  ASSUME NEW n \in Nat \ {0}, NEW r \in 0 .. n - 1
  PROVE  /\ (r + 1) % n = IF r = n - 1 THEN 0 ELSE r + 1
         /\ (r + n - 1) % n = IF r = 0 THEN n - 1 ELSE r - 1
  <1>1. ASSUME NEW a \in 0 .. 2 * n - 1
        PROVE  a % n = IF a < n THEN a ELSE a - n
    <2>1. a = n * (a \div n) + (a % n) /\ a \div n \in Nat /\ a % n \in 0 .. n - 1
      OBVIOUS
    <2> DEFINE d == a \div n
               m == a % n
    <2> HIDE DEF d, m
    <2>2. a = n * d + m /\ d \in Nat /\ m \in 0 .. n - 1
      BY <2>1 DEF d, m
    <2>3. d < 2
      <3>1. d >= 2 => n * d >= 2 * n
        BY <2>2
      <3> QED
        BY <2>2, <3>1
    <2>4. CASE d = 0
      BY <2>2, <2>4 DEF m
    <2>5. CASE d = 1
      BY <2>2, <2>5 DEF m
    <2> QED
      BY <2>2, <2>3, <2>4, <2>5
  <1>2. r + 1 \in 0 .. 2 * n - 1 /\ r + n - 1 \in 0 .. 2 * n - 1
    OBVIOUS
  <1> QED
    BY <1>1, <1>2

LEMMA FlitsTyped ==
  ASSUME NEW k, IsCallNumber(k), NEW n \in Int
  PROVE  /\ Ack(k) \in Flit /\ HeadFlit(k, n) \in Flit /\ Data(k, n) \in Flit
         /\ <<Ack(k)>> \in Seq(Flit) /\ <<HeadFlit(k, n)>> \in Seq(Flit) /\ <<Data(k, n)>> \in Seq(Flit)
  <1>1. k \in Nat
    BY GroupIs
  <1>2. Ack(k) \in Flit /\ HeadFlit(k, n) \in Flit /\ Data(k, n) \in Flit
    BY <1>1 DEF Ack, HeadFlit, Data, Flit
  <1> QED
    BY <1>2

\* A transfer that the receiver acknowledges after the first flit.
LEMMA CarriesAcked ==
  ASSUME NEW k, IsCallNumber(k), NEW p \in Process, NEW q \in Process, NEW d \in {"send", "recv"},
         NEW c \in Process, NEW f \in Flit, NEW a \in Int, NEW b \in Int
  PROVE  LET there == <<f>> \o DataSeq(k, a, b) IN
         /\ Carries(d, p, q, k, Send(c, f) \o Receive(c, Ack(k)) \o SendRaw(k, c, a, b),
                    IF q # c THEN <<>> ELSE IF d = "send" THEN there ELSE <<Ack(k)>>)
         /\ Carries(d, p, q, k, Receive(c, f) \o Send(c, Ack(k)) \o RecvRaw(k, c, a, b),
                    IF q # c THEN <<>> ELSE IF d = "recv" THEN there ELSE <<Ack(k)>>)
  <1> DEFINE e == DataSeq(k, a, b)
             x == Ack(k)
             S1 == Send(c, f)
             R1 == Receive(c, f)
             S2 == Send(c, x)
             R2 == Receive(c, x)
             S3 == SendRaw(k, c, a, b)
             R3 == RecvRaw(k, c, a, b)
             If(v, m) == IF v THEN m ELSE <<>>
  <1>1. x \in Flit /\ <<x>> \in Seq(Flit) /\ <<f>> \in Seq(Flit)
    BY FlitsTyped
  <1>2. e \in Seq(Flit)
    <2>1. k \in Nat
      BY GroupIs
    <2> QED
      BY <2>1, DataSeqTyped
  <1> HIDE DEF x
  <1>3. /\ Carries(d, p, q, k, S1, If(d = "send" /\ q = c, <<f>>))
        /\ Carries(d, p, q, k, R1, If(d = "recv" /\ q = c, <<f>>))
    BY CarriesSend
  <1>4. /\ Carries(d, p, q, k, S2, If(d = "send" /\ q = c, <<x>>))
        /\ Carries(d, p, q, k, R2, If(d = "recv" /\ q = c, <<x>>))
    BY <1>1, CarriesSend
  <1>5. /\ Carries(d, p, q, k, S3, If(d = "send" /\ q = c, e))
        /\ Carries(d, p, q, k, R3, If(d = "recv" /\ q = c, e))
    BY CarriesRaw
  <1> HIDE DEF e, S1, S2, R1, R2, S3, R3
  <1> DEFINE sf == If(d = "send" /\ q = c, <<f>>)
             rf == If(d = "recv" /\ q = c, <<f>>)
             sx == If(d = "send" /\ q = c, <<x>>)
             rx == If(d = "recv" /\ q = c, <<x>>)
             se == If(d = "send" /\ q = c, e)
             re == If(d = "recv" /\ q = c, e)
  <1>6. /\ sf \o rx = IF q # c THEN <<>> ELSE IF d = "send" THEN <<f>> ELSE <<x>>
        /\ rf \o sx = IF q # c THEN <<>> ELSE IF d = "recv" THEN <<f>> ELSE <<x>>
    BY <1>1, NoFlits
  <1>7. /\ (sf \o rx) \o se = IF q # c THEN <<>> ELSE IF d = "send" THEN <<f>> \o e ELSE <<x>>
        /\ (rf \o sx) \o re = IF q # c THEN <<>> ELSE IF d = "recv" THEN <<f>> \o e ELSE <<x>>
    BY <1>1, <1>2, <1>6, NoFlits
  <1> HIDE DEF sf, rf, sx, rx, se, re
  <1>8. /\ Carries(d, p, q, k, S1 \o R2, sf \o rx) /\ Carries(d, p, q, k, R1 \o S2, rf \o sx)
    BY <1>3, <1>4, CarriesBoth DEF sf, rf, sx, rx
  <1> DEFINE A == S1 \o R2
             B == R1 \o S2
             ma == sf \o rx
             mb == rf \o sx
  <1>9. Carries(d, p, q, k, A, ma) /\ Carries(d, p, q, k, B, mb)
    BY <1>8
  <1>10. Carries(d, p, q, k, S3, se) /\ Carries(d, p, q, k, R3, re)
    BY <1>5 DEF se, re
  <1> HIDE DEF A, B, ma, mb
  <1>11. Carries(d, p, q, k, A \o S3, ma \o se) /\ Carries(d, p, q, k, B \o R3, mb \o re)
    BY <1>9, <1>10, CarriesBoth
  <1> QED
    BY <1>7, <1>11 DEF A, B, ma, mb, S1, R2, S3, R1, S2, R3, x, e

-----------------------------------------------------------------------------
\* MPI_Bcast.

\* Several scripts, which have one flit each.
LEMMA CarriesEach ==
  ASSUME NEW k, IsCallNumber(k), NEW p \in Process, NEW q \in Process, NEW d,
         NEW n \in Nat, NEW ss, ss = [i \in 1 .. n |-> ss[i]],
         NEW e \in Seq(Flit), Len(e) = n, NEW v \in BOOLEAN,
         \A i \in 1 .. n : Carries(d, p, q, k, ss[i], IF v THEN <<e[i]>> ELSE <<>>)
  PROVE  Carries(d, p, q, k, FlattenSeq(ss), IF v THEN e ELSE <<>>)
  <1>1. \A i \in 1 .. n : ss[i] \in Seq(StepSet(k)) /\ Flow(d, p, q, k, ss[i]) = IF v THEN <<e[i]>> ELSE <<>>
    BY DEF Carries
  <1>2. ss \in Seq(Seq(StepSet(k))) /\ Len(ss) = n
    <2>1. ss \in [1 .. n -> Seq(StepSet(k))]
      BY <1>1
    <2> QED
      BY <2>1, FunctionIsList
  <1> DEFINE F == FlowsOf(d, p, q, k, ss)
  <1>3. F \in Seq(Seq(Flit)) /\ Len(F) = n /\ FlattenSeq(ss) \in Seq(StepSet(k))
        /\ Flow(d, p, q, k, FlattenSeq(ss)) = FlattenSeq(F)
    BY <1>2, FlowFlatten
  <1>4. \A i \in 1 .. n : F[i] = IF v THEN <<e[i]>> ELSE <<>>
    BY <1>1, <1>2 DEF FlowsOf
  <1> HIDE DEF F
  <1>5. FlattenSeq(F) = IF v THEN e ELSE <<>>
    <2>1. CASE v
      <3>1. Len(F) = Len(e) /\ \A i \in 1 .. Len(e) : F[i] = <<e[i]>>
        BY <1>3, <1>4, <2>1
      <3> QED
        BY <1>3, <2>1, <3>1, FlattenSingles
    <2>2. CASE ~v
      <3>1. \A i \in 1 .. Len(F) : F[i] = <<>>
        BY <1>3, <1>4, <2>2
      <3> QED
        BY <1>3, <2>2, <3>1, FlattenNothing
    <2> QED
      BY <2>1, <2>2
  <1> QED
    BY <1>3, <1>5, NoFlits DEF Carries

\* From a root to the others, which acknowledge the first flit.
SpreadFlits(k, s, t, root, len) ==
  IF s = t \/ s \notin Members(k) \/ t \notin Members(k) THEN <<>>
  ELSE IF s = CidFromComm(k, root) THEN <<Data(k, 1)>> \o DataSeq(k, 2, len)
  ELSE IF t = CidFromComm(k, root) THEN <<Ack(k)>> ELSE <<>>

LEMMA RecvAckedCarries ==
  ASSUME NEW k, IsCallNumber(k), NEW p \in Members(k), NEW q \in Process, NEW d \in {"send", "recv"},
         NEW root \in Ranks(k), p # CidFromComm(k, root), NEW len \in Nat
  PROVE  Carries(d, p, q, k, RecvAcked(k, CidFromComm(k, root), len),
                 IF d = "send" THEN SpreadFlits(k, p, q, root, len) ELSE SpreadFlits(k, q, p, root, len))
  <1> DEFINE c == CidFromComm(k, root)
  <1>1. c \in Process /\ c \in Members(k) /\ p \in Process
    BY GroupIs
  <1>2. Data(k, 1) \in Flit
    BY FlitsTyped
  <1>3. Carries(d, p, q, k, RecvAcked(k, c, len),
                IF q # c THEN <<>>
                ELSE IF d = "recv" THEN <<Data(k, 1)>> \o DataSeq(k, 2, len) ELSE <<Ack(k)>>)
    BY <1>1, <1>2, CarriesAcked DEF RecvAcked
  <1>4. /\ d = "send" => SpreadFlits(k, p, q, root, len) = IF q # c THEN <<>> ELSE <<Ack(k)>>
        /\ d = "recv" => SpreadFlits(k, q, p, root, len) =
                           IF q # c THEN <<>> ELSE <<Data(k, 1)>> \o DataSeq(k, 2, len)
    BY <1>1 DEF SpreadFlits
  <1> QED
    BY <1>3, <1>4

LEMMA BcastCarries ==
  ASSUME NEW k, IsCallNumber(k), NEW p \in Members(k), NEW q \in Process, NEW d \in {"send", "recv"},
         NEW root \in Ranks(k)
  PROVE  LET len == PartLength(k, root) IN
         Carries(d, p, q, k, BcastScript(k, GroupRank(k, p), root),
                 IF d = "send" THEN SpreadFlits(k, p, q, root, len) ELSE SpreadFlits(k, q, p, root, len))
  <1> DEFINE len == PartLength(k, root)
             c == CidFromComm(k, root)
             me == GroupRank(k, p)
             G == GroupSize(k)
  <1>1. /\ p \in Process /\ c \in Process /\ c \in Members(k) /\ len \in Nat /\ me \in Ranks(k)
        /\ (me = root <=> p = c) /\ k \in Nat /\ G \in Nat
    BY GroupIs
  <1>2. CASE me # root
    <2>1. BcastScript(k, me, root) = RecvAcked(k, c, len)
      BY <1>2 DEF BcastScript
    <2> QED
      BY <1>1, <1>2, <2>1, RecvAckedCarries
  <1>3. CASE me = root
    <2> DEFINE others == {CidFromComm(k, r) : r \in Ranks(k) \ {root}}
               h == [do |-> "acks", from |-> others]
               First == [i \in 1 .. G |-> IF i - 1 = root THEN <<>>
                                          ELSE Send(CidFromComm(k, i - 1), Data(k, 1))]
               Others(j) == [i \in 1 .. G |-> IF i - 1 = root THEN <<>>
                                              ELSE Send(CidFromComm(k, i - 1), Data(k, j))]
               Rest == [i \in 1 .. len - 1 |-> FlattenSeq(Others(i + 1))]
               is == q \in Members(k) /\ q # c
               If(v, m) == IF v THEN m ELSE <<>>
    <2>1. BcastScript(k, me, root) = FlattenSeq(First) \o Loop(h) \o FlattenSeq(Rest)
      BY <1>3 DEF BcastScript, ForOthers, Ranks
    <2>2. \A r \in Ranks(k) : r + 1 \in 1 .. G /\ (r + 1) - 1 = r
      BY <1>1 DEF Ranks
    <2>3. ASSUME NEW j \in Int
          PROVE  Carries(d, p, q, k, FlattenSeq(Others(j)), If(d = "send" /\ is, <<Data(k, j)>>))
      <3> DEFINE ss == Others(j)
                 m == If(d = "send", <<Data(k, j)>>)
      <3>1. m \in Seq(Flit)
        BY FlitsTyped, NoFlits
      <3>2. ss = [i \in 1 .. G |-> ss[i]] /\ ss[root + 1] = <<>>
        BY <2>2
      <3>3. ASSUME NEW r \in Ranks(k) \ {root}
            PROVE  Carries(d, p, q, k, ss[r+1], IF q = CidFromComm(k, r) THEN m ELSE <<>>)
        <4>1. ss[r+1] = Send(CidFromComm(k, r), Data(k, j))
          BY <2>2
        <4>2. CidFromComm(k, r) \in Process /\ Data(k, j) \in Flit
          BY FlitsTyped, GroupIs
        <4> HIDE DEF ss
        <4>3. Carries(d, p, q, k, ss[r+1], IF d = "send" /\ q = CidFromComm(k, r) THEN <<Data(k, j)>> ELSE <<>>)
          BY <1>1, <4>1, <4>2, CarriesSend
        <4> QED
          BY <4>3
      <3> HIDE DEF ss, m
      <3>4. Carries(d, p, q, k, FlattenSeq(ss), IF q \in Members(k) /\ q # CidFromComm(k, root) THEN m ELSE <<>>)
        BY <1>1, <3>1, <3>2, <3>3, CarriesOthers
      <3>5. (IF q \in Members(k) /\ q # CidFromComm(k, root) THEN m ELSE <<>>) = If(d = "send" /\ is, <<Data(k, j)>>)
        BY DEF m
      <3> QED
        BY <3>4, <3>5 DEF ss
    <2>4. First = Others(1)
      OBVIOUS
    <2> DEFINE m1 == If(d = "send" /\ is, <<Data(k, 1)>>)
               m2 == If(d = "recv" /\ is, <<Ack(k)>>)
               e == DataSeq(k, 2, len)
               m3 == If(d = "send" /\ is, e)
    <2>5. Carries(d, p, q, k, FlattenSeq(First), m1)
      <3> HIDE DEF Others, is, First
      <3> QED
        BY <2>3, <2>4
    <2>6. Carries(d, p, q, k, Loop(h), m2)
      <3>1. others \subseteq Process /\ (q \in others <=> is)
        <4>1. \A r \in Ranks(k) : CidFromComm(k, r) \in Process /\ CidFromComm(k, r) \in Members(k)
                                  /\ GroupRank(k, CidFromComm(k, r)) = r
          BY GroupIs
        <4>2. q \in Members(k) => GroupRank(k, q) \in Ranks(k) /\ CidFromComm(k, GroupRank(k, q)) = q
          BY GroupIs
        <4> QED
          BY <4>1, <4>2
      <3> HIDE DEF others, is
      <3>2. h \in StepSet(k) /\ h.do \notin {"send", "recv"}
        BY <3>1 DEF StepSet, AckLoops
      <3>3. StepFlow(d, p, q, k, h) = m2
        BY <3>1 DEF StepFlow
      <3> HIDE DEF h
      <3>4. Carries(d, p, q, k, Loop(h), StepFlow(d, p, q, k, h))
        BY <1>1, <3>2, CarriesLoop
      <3> QED
        BY <3>3, <3>4
    <2>7. Carries(d, p, q, k, FlattenSeq(Rest), m3)
      <3> HIDE DEF Others, is
      <3>1. CASE len = 0
        <4>1. 1 .. len - 1 = {} /\ 2 \in Int /\ len \in Int /\ len < 2
          BY <3>1
        <4>2. Rest = <<>>
          BY <4>1
        <4>3. e = <<>>
          BY <1>1, <4>1, DataSeqTyped
        <4> HIDE DEF Rest, e
        <4>4. FlattenSeq(Rest) = <<>> /\ m3 = <<>>
          BY <4>2, <4>3, FlattenEmpty
        <4> QED
          BY <4>4, CarriesNothing
      <3>2. CASE len # 0
        <4> DEFINE n == len - 1
        <4>1. n \in Nat /\ 2 \in Int /\ len \in Int /\ (len < 2 => n = 0) /\ (2 <= len => (len + 1) - 2 = n)
              /\ 1 .. (len + 1) - 2 = 1 .. n
          BY <1>1, <3>2
        <4>2. e \in Seq(Flit) /\ Len(e) = n
          <5>1. /\ e \in Seq(Flit)
                /\ Len(e) = IF 2 <= len THEN (len + 1) - 2 ELSE 0
            BY <1>1, <4>1, DataSeqTyped
          <5> HIDE DEF e
          <5> QED
            BY <1>1, <4>1, <5>1
        <4>3. \A i \in 1 .. n : e[i] = Data(k, i + 1) /\ Rest[i] = FlattenSeq(Others(i + 1))
          <5> TAKE i \in 1 .. n
          <5>1. 2 + i - 1 = i + 1
            BY <4>1
          <5> QED
            BY <4>1, <5>1 DEF DataSeq
        <4>4. \A i \in 1 .. n : Carries(d, p, q, k, Rest[i], IF d = "send" /\ is THEN <<e[i]>> ELSE <<>>)
          <5> TAKE i \in 1 .. n
          <5>1. i + 1 \in Int
            BY <4>1
          <5>2. Carries(d, p, q, k, FlattenSeq(Others(i + 1)), If(d = "send" /\ is, <<Data(k, i + 1)>>))
            BY <2>3, <5>1
          <5> HIDE DEF e, Rest, n
          <5> QED
            BY <4>3, <5>2
        <4>5. Rest = [i \in 1 .. n |-> Rest[i]]
          OBVIOUS
        <4> HIDE DEF e, Rest, n
        <4> DEFINE v == d = "send" /\ is
        <4>6. v \in BOOLEAN /\ \A i \in 1 .. n : Carries(d, p, q, k, Rest[i], IF v THEN <<e[i]>> ELSE <<>>)
          BY <4>4 DEF is
        <4> HIDE DEF v
        <4>7. Carries(d, p, q, k, FlattenSeq(Rest), IF v THEN e ELSE <<>>)
          BY <1>1, <4>1, <4>2, <4>5, <4>6, CarriesEach
        <4> QED
          BY <4>7 DEF v
      <3> QED
        BY <3>1, <3>2
    <2> DEFINE A == FlattenSeq(First)
               B == Loop(h)
               C == FlattenSeq(Rest)
               AB == A \o B
               m12 == m1 \o m2
    <2>8. (m1 \o m2) \o m3 = IF ~is THEN <<>> ELSE IF d = "send" THEN <<Data(k, 1)>> \o e ELSE <<Ack(k)>>
      <3>1. <<Data(k, 1)>> \in Seq(Flit) /\ <<Ack(k)>> \in Seq(Flit) /\ e \in Seq(Flit)
        <4>1. 1 \in Int /\ 2 \in Int /\ len \in Int /\ k \in Nat
          BY <1>1
        <4>2. <<Data(k, 1)>> \in Seq(Flit) /\ <<Ack(k)>> \in Seq(Flit)
          BY <4>1, FlitsTyped
        <4>3. DataSeq(k, 2, len) \in Seq(Flit)
          BY <4>1, DataSeqTyped
        <4> QED
          BY <4>2, <4>3
      <3> HIDE DEF e, is
      <3> QED
        BY <3>1, NoFlits
    <2>9. (IF d = "send" THEN SpreadFlits(k, p, q, root, len) ELSE SpreadFlits(k, q, p, root, len)) = (m1 \o m2) \o m3
      <3>1. p = c
        BY <1>1, <1>3
      <3> HIDE DEF m1, m2, m3
      <3> QED
        BY <1>1, <2>8, <3>1 DEF SpreadFlits
    <2> HIDE DEF A, B, C, m1, m2, m3
    <2>10. Carries(d, p, q, k, A \o B, m1 \o m2)
      BY <1>1, <2>5, <2>6, CarriesBoth DEF A, B
    <2>11. Carries(d, p, q, k, AB, m12) /\ Carries(d, p, q, k, C, m3)
      BY <2>7, <2>10 DEF C
    <2> HIDE DEF AB, m12
    <2>12. Carries(d, p, q, k, AB \o C, m12 \o m3)
      BY <1>1, <2>11, CarriesBoth
    <2> QED
      BY <2>1, <2>9, <2>12 DEF A, B, C, AB, m12
  <1> QED
    BY <1>2, <1>3

-----------------------------------------------------------------------------
\* MPI_Scatter and the parts of MPI_Gather.

LEMMA ScatterCarries ==
  ASSUME NEW k, IsCallNumber(k), NEW p \in Members(k), NEW q \in Process, NEW d \in {"send", "recv"},
         NEW root \in Ranks(k)
  PROVE  Carries(d, p, q, k, ScatterScript(k, GroupRank(k, p), root),
                 IF d = "send" THEN SpreadFlits(k, p, q, root, PartLength(k, GroupRank(k, q)))
                 ELSE SpreadFlits(k, q, p, root, PartLength(k, GroupRank(k, p))))
  <1> DEFINE c == CidFromComm(k, root)
             me == GroupRank(k, p)
             G == GroupSize(k)
             qr == GroupRank(k, q)
             is == q \in Members(k) /\ q # c
  <1>1. /\ p \in Process /\ c \in Process /\ c \in Members(k) /\ me \in Ranks(k)
        /\ (me = root <=> p = c) /\ k \in Nat /\ G \in Nat /\ PartLength(k, me) \in Nat
        /\ (q \in Members(k) => qr \in Ranks(k) /\ PartLength(k, qr) \in Nat)
    BY GroupIs
  <1>2. CASE me # root
    <2>1. ScatterScript(k, me, root) = RecvAcked(k, c, PartLength(k, me))
      BY <1>2 DEF ScatterScript
    <2>2. Carries(d, p, q, k, RecvAcked(k, c, PartLength(k, me)),
                  IF d = "send" THEN SpreadFlits(k, p, q, root, PartLength(k, me))
                  ELSE SpreadFlits(k, q, p, root, PartLength(k, me)))
      BY <1>1, <1>2, RecvAckedCarries
    <2>3. SpreadFlits(k, p, q, root, PartLength(k, me)) = SpreadFlits(k, p, q, root, PartLength(k, qr))
      BY <1>1, <1>2 DEF SpreadFlits
    <2> QED
      BY <2>1, <2>2, <2>3
  <1>3. CASE me = root
    <2> DEFINE ss == [i \in 1 .. G |-> IF i - 1 = root THEN <<>>
                                       ELSE SendAcked(k, CidFromComm(k, i - 1), PartLength(k, i - 1))]
               there == <<Data(k, 1)>> \o DataSeq(k, 2, PartLength(k, qr))
               m == IF is THEN (IF d = "send" THEN there ELSE <<Ack(k)>>) ELSE <<>>
    <2>1. ScatterScript(k, me, root) = FlattenSeq(ss)
      BY <1>3 DEF ScatterScript, ForOthers
    <2>2. \A r \in Ranks(k) : r + 1 \in 1 .. G /\ (r + 1) - 1 = r
      BY <1>1 DEF Ranks
    <2>3. m \in Seq(Flit)
      <3>1. <<Data(k, 1)>> \in Seq(Flit) /\ <<Ack(k)>> \in Seq(Flit) /\ <<>> \in Seq(Flit)
        BY FlitsTyped
      <3>2. is => DataSeq(k, 2, PartLength(k, qr)) \in Seq(Flit)
        <4>1. is => 2 \in Int /\ PartLength(k, qr) \in Int
          BY <1>1
        <4> QED
          BY <1>1, <4>1, DataSeqTyped
      <3>3. is => there \in Seq(Flit)
        BY <3>1, <3>2, ConcatProperties
      <3> HIDE DEF there, is
      <3> QED
        BY <3>1, <3>3
    <2>4. ss = [i \in 1 .. G |-> ss[i]] /\ ss[root + 1] = <<>>
      BY <2>2
    <2>5. ASSUME NEW r \in Ranks(k) \ {root}
          PROVE  Carries(d, p, q, k, ss[r+1], IF q = CidFromComm(k, r) THEN m ELSE <<>>)
      <3> DEFINE o == CidFromComm(k, r)
                 l == PartLength(k, r)
      <3>1. ss[r+1] = Send(o, Data(k, 1)) \o Receive(o, Ack(k)) \o SendRaw(k, o, 2, l)
        BY <2>2 DEF SendAcked
      <3>2. /\ o \in Process /\ Data(k, 1) \in Flit /\ 2 \in Int /\ l \in Int /\ o \in Members(k)
            /\ GroupRank(k, o) = r
        <4>1. o \in Process /\ l \in Nat /\ o \in Members(k) /\ GroupRank(k, o) = r
          BY GroupIs
        <4> QED
          BY <4>1, FlitsTyped
      <3>3. o # c
        BY <1>1, <3>2, GroupIs
      <3>4. q = o => is /\ qr = r
        BY <3>2, <3>3
      <3>5. (IF q # o THEN <<>> ELSE IF d = "send" THEN <<Data(k, 1)>> \o DataSeq(k, 2, l) ELSE <<Ack(k)>>)
              = (IF q = o THEN m ELSE <<>>)
        BY <3>4
      <3> HIDE DEF ss, m, o, l
      <3>6. Carries(d, p, q, k, Send(o, Data(k, 1)) \o Receive(o, Ack(k)) \o SendRaw(k, o, 2, l),
              IF q # o THEN <<>> ELSE IF d = "send" THEN <<Data(k, 1)>> \o DataSeq(k, 2, l) ELSE <<Ack(k)>>)
        BY <1>1, <3>2, CarriesAcked
      <3> QED
        BY <3>1, <3>5, <3>6 DEF o
    <2>6. (IF d = "send" THEN SpreadFlits(k, p, q, root, PartLength(k, qr))
           ELSE SpreadFlits(k, q, p, root, PartLength(k, me)))
            = (IF q \in Members(k) /\ q # c THEN m ELSE <<>>)
      <3>1. p = c
        BY <1>1, <1>3
      <3> QED
        BY <1>1, <3>1 DEF SpreadFlits
    <2> HIDE DEF ss, m, is
    <2>7. Carries(d, p, q, k, FlattenSeq(ss), IF q \in Members(k) /\ q # c THEN m ELSE <<>>)
      BY <1>1, <2>3, <2>4, <2>5, CarriesOthers
    <2> QED
      BY <2>1, <2>6, <2>7
  <1> QED
    BY <1>2, <1>3

\* MPI_Gather: the root asks the others for their parts.
GatherFlits(k, s, t, root) ==
  IF s = t \/ s \notin Members(k) \/ t \notin Members(k) THEN <<>>
  ELSE IF s = CidFromComm(k, root) THEN <<Ack(k)>>
  ELSE IF t = CidFromComm(k, root) THEN DataSeq(k, 1, PartLength(k, GroupRank(k, s))) ELSE <<>>

LEMMA GatherPartCarries ==
  ASSUME NEW k, IsCallNumber(k), NEW p \in Members(k), NEW q \in Process, NEW d \in {"send", "recv"},
         NEW root \in Ranks(k), p # CidFromComm(k, root)
  PROVE  Carries(d, p, q, k, GatherPart(k, GroupRank(k, p), root),
                 IF d = "send" THEN GatherFlits(k, p, q, root) ELSE GatherFlits(k, q, p, root))
  <1> DEFINE c == CidFromComm(k, root)
             me == GroupRank(k, p)
             l == PartLength(k, me)
             x == Ack(k)
             e == DataSeq(k, 1, l)
             A == Receive(c, x)
             B == SendRaw(k, c, 1, l)
             If(v, m) == IF v THEN m ELSE <<>>
             m1 == If(d = "recv" /\ q = c, <<x>>)
             m2 == If(d = "send" /\ q = c, e)
  <1>1. /\ p \in Process /\ c \in Process /\ c \in Members(k) /\ me \in Ranks(k) /\ l \in Nat /\ k \in Nat
    BY GroupIs
  <1>2. x \in Flit /\ <<x>> \in Seq(Flit)
    BY FlitsTyped
  <1>3. 1 \in Int /\ l \in Int
    BY <1>1
  <1>4. e \in Seq(Flit)
    BY <1>1, <1>3, DataSeqTyped
  <1>5. Carries(d, p, q, k, A, m1)
    BY <1>1, <1>2, CarriesSend
  <1>6. Carries(d, p, q, k, B, m2)
    BY <1>1, <1>3, CarriesRaw
  <1>7. GatherPart(k, me, root) = A \o B
    BY DEF GatherPart
  <1>8. (IF d = "send" THEN GatherFlits(k, p, q, root) ELSE GatherFlits(k, q, p, root)) = m1 \o m2
    <2>1. m1 \o m2 = IF q # c THEN <<>> ELSE IF d = "send" THEN e ELSE <<x>>
      <3> HIDE DEF e, x
      <3> QED
        BY <1>2, <1>4, NoFlits
    <2> HIDE DEF m1, m2
    <2> QED
      BY <1>1, <2>1 DEF GatherFlits
  <1> HIDE DEF A, B, m1, m2
  <1>9. Carries(d, p, q, k, A \o B, m1 \o m2)
    BY <1>1, <1>5, <1>6, CarriesBoth
  <1> QED
    BY <1>7, <1>8, <1>9

\* Every process but the root has a part.
PartsSent(k) == \A r \in Ranks(k) : PartLength(k, r) > 0

LEMMA PartsAreSent ==
  ASSUME NEW k, IsCallNumber(k), InGather(k)
  PROVE  PartsSent(k)
  <1> DEFINE c == program[k]
  <1>1. c.len \in Seq(Nat) /\ c.comm \in Seq(Process) /\ Len(c.comm) <= Len(c.len) /\ IsCall(c)
    BY GroupIs DEF Parameters, IsCall
  <1>2. \A r \in Ranks(k) : r + 1 \in 1 .. Len(c.len)
    BY <1>1 DEF Ranks, GroupSize, Comm
  <1>3. c.op \in {"gather", "allreduce"}
    BY DEF InGather
  <1> HIDE DEF c
  <1>4. \A i \in 1 .. Len(c.len) : c.len[i] > 0
    BY <1>1, <1>3 DEF IsCall
  <1> QED
    BY <1>2, <1>4 DEF PartsSent, PartLength, c

\* What the root of a gather waits for.
LEMMA GatherLensIs ==
  ASSUME NEW k, IsCallNumber(k), NEW root \in Ranks(k), InGather(k)
  PROVE  /\ [do |-> "gather", lens |-> GatherLens(k, root), ack |-> 0] \in StepSet(k)
         /\ GatherLens(k, root) \in [Process -> Nat]
         /\ \A r \in Process : GatherLens(k, root)[r] =
              IF r \in Members(k) /\ r # CidFromComm(k, root) THEN PartLength(k, GroupRank(k, r)) ELSE 0
  <1> DEFINE lens == GatherLens(k, root)
             p == CidFromComm(k, root)
  <1>1. \A r \in Members(k) : /\ GroupRank(k, r) \in Ranks(k) /\ PartLength(k, GroupRank(k, r)) \in Nat
                               /\ (GroupRank(k, r) = root <=> r = p)
    BY GroupIs
  <1>2. \A r \in Process : lens[r] = IF r \in Members(k) /\ r # p THEN PartLength(k, GroupRank(k, r)) ELSE 0
    BY <1>1 DEF GatherLens, Members
  <1>3. lens \in [Process -> Nat]
    <2>1. lens = [r \in Process |-> lens[r]]
      BY DEF GatherLens
    <2> HIDE DEF lens, p
    <2>2. \A r \in Process : lens[r] \in Nat
      BY <1>1, <1>2
    <2> QED
      BY <2>1, <2>2
  <1>4. [do |-> "gather", lens |-> lens, ack |-> 0] \in StepSet(k)
    <2> HIDE DEF lens, p
    <2> QED
      BY <1>2, <1>3 DEF StepSet, GatherLoops
  <1> QED
    BY <1>2, <1>3, <1>4

LEMMA GatherStepCarries ==
  ASSUME NEW k, IsCallNumber(k), NEW p \in Members(k), NEW q \in Process, NEW d \in {"send", "recv"},
         NEW root \in Ranks(k), p = CidFromComm(k, root), InGather(k)
  PROVE  Carries(d, p, q, k, GatherStep(k, root),
                 IF d = "send" THEN GatherFlits(k, p, q, root) ELSE GatherFlits(k, q, p, root))
  <1> DEFINE lens == GatherLens(k, root)
             h == [do |-> "gather", lens |-> lens, ack |-> 0]
  <1>1. /\ p \in Process /\ k \in Nat
        /\ \A r \in Members(k) : /\ GroupRank(k, r) \in Ranks(k) /\ PartLength(k, GroupRank(k, r)) \in Nat
                                 /\ (GroupRank(k, r) = root <=> r = p)
    BY GroupIs
  <1>2. \A r \in Process : lens[r] = IF r \in Members(k) /\ r # p THEN PartLength(k, GroupRank(k, r)) ELSE 0
    BY GatherLensIs
  <1>3. PartsSent(k)
    BY PartsAreSent
  <1>4. h \in StepSet(k)
    BY GatherLensIs
  <1>5. StepFlow(d, p, q, k, h) =
          IF d = "send" THEN GatherFlits(k, p, q, root) ELSE GatherFlits(k, q, p, root)
    <2>1. q \in Nat /\ 0 <= q
      BY DEF Process
    <2>2. CASE q \in Members(k) /\ q # p
      <3> DEFINE l == PartLength(k, GroupRank(k, q))
      <3>1. lens[q] = l /\ l \in Nat /\ l > 0
        BY <1>1, <1>2, <1>3, <2>2 DEF PartsSent
      <3> HIDE DEF l, lens
      <3>2. l - lens[q] + 1 = 1 /\ lens[q] # 0
        BY <3>1
      <3>3. StepFlow(d, p, q, k, h) = IF d = "send" THEN <<Ack(k)>> ELSE DataSeq(k, 1, l)
        BY <2>1, <3>2 DEF StepFlow, l
      <3> HIDE DEF h
      <3> QED
        BY <2>2, <3>3 DEF GatherFlits, l
    <2>3. CASE ~(q \in Members(k) /\ q # p)
      <3>1. lens[q] = 0
        BY <1>2, <2>3
      <3> HIDE DEF lens
      <3>2. StepFlow(d, p, q, k, h) = <<>>
        BY <3>1 DEF StepFlow
      <3> HIDE DEF h
      <3> QED
        BY <2>3, <3>2 DEF GatherFlits
    <2> QED
      BY <2>2, <2>3
  <1>6. GatherStep(k, root) = Loop(h) /\ h.do \notin {"send", "recv"}
    BY DEF GatherStep
  <1> HIDE DEF h
  <1>7. Carries(d, p, q, k, Loop(h), StepFlow(d, p, q, k, h))
    BY <1>1, <1>4, <1>6, CarriesLoop
  <1> HIDE DEF lens
  <1> QED
    BY <1>5, <1>6, <1>7 DEF h

-----------------------------------------------------------------------------
\* MPI_Gather, MPI_Reduce and MPI_Allreduce.

LEMMA GatherCarries ==
  ASSUME NEW k, IsCallNumber(k), NEW p \in Members(k), NEW q \in Process, NEW d \in {"send", "recv"},
         NEW root \in Ranks(k), InGather(k)
  PROVE  Carries(d, p, q, k, GatherScript(k, GroupRank(k, p), root),
                 IF d = "send" THEN GatherFlits(k, p, q, root) ELSE GatherFlits(k, q, p, root))
  <1>1. GroupRank(k, p) = root <=> p = CidFromComm(k, root)
    BY GroupIs
  <1>2. GatherScript(k, GroupRank(k, p), root) =
          IF GroupRank(k, p) = root THEN GatherStep(k, root) ELSE GatherPart(k, GroupRank(k, p), root)
    BY DEF GatherScript
  <1>3. CASE p = CidFromComm(k, root)
    <2>1. Carries(d, p, q, k, GatherStep(k, root),
                  IF d = "send" THEN GatherFlits(k, p, q, root) ELSE GatherFlits(k, q, p, root))
      BY <1>3, GatherStepCarries
    <2> QED
      BY <1>1, <1>2, <1>3, <2>1
  <1>4. CASE p # CidFromComm(k, root)
    BY <1>1, <1>2, <1>4, GatherPartCarries
  <1> QED
    BY <1>3, <1>4

\* MPI_Allreduce: rank 0 sends the result to everybody.
ResultFlits(k, s, t) ==
  IF s = t \/ s \notin Members(k) \/ t \notin Members(k) \/ s # CidFromComm(k, 0) THEN <<>>
  ELSE DataSeq(k, 1, PartLength(k, GroupRank(k, t)))

LEMMA AllreduceCarries ==
  ASSUME NEW k, IsCallNumber(k), NEW p \in Members(k), NEW q \in Process, NEW d \in {"send", "recv"},
         InGather(k)
  PROVE  Carries(d, p, q, k, AllreduceScript(k, GroupRank(k, p)),
                 IF d = "send" THEN GatherFlits(k, p, q, 0) \o ResultFlits(k, p, q)
                 ELSE GatherFlits(k, q, p, 0) \o ResultFlits(k, q, p))
  <1> DEFINE c == CidFromComm(k, 0)
             me == GroupRank(k, p)
             qr == GroupRank(k, q)
             G == GroupSize(k)
             is == q \in Members(k) /\ q # c
             m1 == IF d = "send" THEN GatherFlits(k, p, q, 0) ELSE GatherFlits(k, q, p, 0)
             m2 == IF d = "send" THEN ResultFlits(k, p, q) ELSE ResultFlits(k, q, p)
  <1>0. 0 \in Ranks(k)
    BY GroupIs DEF Ranks
  <1>1. /\ p \in Process /\ c \in Process /\ c \in Members(k) /\ me \in Ranks(k)
        /\ (me = 0 <=> p = c) /\ k \in Nat /\ G \in Nat /\ PartLength(k, me) \in Nat
        /\ (q \in Members(k) => qr \in Ranks(k) /\ PartLength(k, qr) \in Nat)
    BY <1>0, GroupIs
  <1>2. \A l \in Nat : DataSeq(k, 1, l) \in Seq(Flit)
    <2> TAKE l \in Nat
    <2>1. 1 \in Int /\ l \in Int
      OBVIOUS
    <2> QED
      BY <1>1, <2>1, DataSeqTyped
  <1>3. CASE me # 0
    <2> DEFINE A == GatherPart(k, me, 0)
               l == PartLength(k, me)
               B == RecvRaw(k, c, 1, l)
    <2>1. AllreduceScript(k, me) = A \o B
      BY <1>3 DEF AllreduceScript
    <2>2. Carries(d, p, q, k, A, m1)
      BY <1>0, <1>1, <1>3, GatherPartCarries
    <2>3. 1 \in Int /\ l \in Int
      BY <1>1
    <2>4. Carries(d, p, q, k, B, IF d = "recv" /\ q = c THEN DataSeq(k, 1, l) ELSE <<>>)
      BY <1>1, <2>3, CarriesRaw
    <2>5. (IF d = "recv" /\ q = c THEN DataSeq(k, 1, l) ELSE <<>>) = m2
      BY <1>1, <1>3 DEF ResultFlits
    <2>6. Carries(d, p, q, k, B, m2)
      BY <2>4, <2>5
    <2> HIDE DEF A, B, m1, m2
    <2>7. Carries(d, p, q, k, A \o B, m1 \o m2)
      BY <1>1, <2>2, <2>6, CarriesBoth
    <2> QED
      BY <2>1, <2>7 DEF m1, m2
  <1>4. CASE me = 0
    <2> DEFINE A == GatherStep(k, 0)
               ss == [i \in 1 .. G |-> IF i - 1 = 0 THEN <<>>
                                       ELSE SendRaw(k, CidFromComm(k, i - 1), 1, PartLength(k, i - 1))]
               B == FlattenSeq(ss)
               m == IF d = "send" /\ is THEN DataSeq(k, 1, PartLength(k, qr)) ELSE <<>>
    <2>1. AllreduceScript(k, me) = A \o B
      BY <1>4 DEF AllreduceScript, ForOthers
    <2>2. Carries(d, p, q, k, A, m1)
      <3>1. p = CidFromComm(k, 0)
        BY <1>1, <1>4
      <3>2. Carries(d, p, q, k, GatherStep(k, 0),
                    IF d = "send" THEN GatherFlits(k, p, q, 0) ELSE GatherFlits(k, q, p, 0))
        BY <1>0, <3>1, GatherStepCarries
      <3> QED
        BY <3>2
    <2>3. \A r \in Ranks(k) : r + 1 \in 1 .. G /\ (r + 1) - 1 = r
      BY <1>1 DEF Ranks
    <2>4. m \in Seq(Flit)
      BY <1>1, <1>2, NoFlits
    <2>5. ss = [i \in 1 .. G |-> ss[i]] /\ ss[0 + 1] = <<>>
      BY <1>0, <2>3
    <2>6. ASSUME NEW r \in Ranks(k) \ {0}
          PROVE  Carries(d, p, q, k, ss[r+1], IF q = CidFromComm(k, r) THEN m ELSE <<>>)
      <3> DEFINE o == CidFromComm(k, r)
                 l == PartLength(k, r)
      <3>1. ss[r+1] = SendRaw(k, o, 1, l)
        BY <2>3
      <3>2. o \in Process /\ 1 \in Int /\ l \in Int /\ o \in Members(k) /\ GroupRank(k, o) = r
        <4>1. o \in Process /\ l \in Nat /\ o \in Members(k) /\ GroupRank(k, o) = r
          BY GroupIs
        <4> QED
          BY <4>1
      <3>3. o # c
        BY <1>0, <1>1, <3>2, GroupIs
      <3>4. q = o => is /\ qr = r
        BY <3>2, <3>3
      <3>5. (IF d = "send" /\ q = o THEN DataSeq(k, 1, l) ELSE <<>>) = (IF q = o THEN m ELSE <<>>)
        BY <3>4
      <3> HIDE DEF ss, m, o, l
      <3>6. Carries(d, p, q, k, SendRaw(k, o, 1, l), IF d = "send" /\ q = o THEN DataSeq(k, 1, l) ELSE <<>>)
        BY <1>1, <3>2, CarriesRaw
      <3> QED
        BY <3>1, <3>5, <3>6 DEF o
    <2>7. (IF q \in Members(k) /\ q # c THEN m ELSE <<>>) = m2
      BY <1>1, <1>4 DEF ResultFlits
    <2> HIDE DEF ss, m, is
    <2>8. Carries(d, p, q, k, FlattenSeq(ss), IF q \in Members(k) /\ q # c THEN m ELSE <<>>)
      BY <1>0, <1>1, <2>4, <2>5, <2>6, CarriesOthers
    <2> HIDE DEF A, B, m1, m2
    <2>9. Carries(d, p, q, k, A \o B, m1 \o m2)
      BY <1>1, <2>2, <2>7, <2>8, CarriesBoth DEF B
    <2> QED
      BY <2>1, <2>9 DEF m1, m2
  <1> QED
    BY <1>3, <1>4

\* The next and the previous process of the ring.
LEMMA RingOf ==
  ASSUME NEW k, IsCallNumber(k), NEW p \in Members(k), NEW q \in Process
  PROVE  LET n == GroupSize(k)
             me == GroupRank(k, p)
             qr == GroupRank(k, q)
             next == CidFromComm(k, (me + 1) % n)
             prev == CidFromComm(k, (me + n - 1) % n)
         IN /\ next \in Members(k) /\ prev \in Members(k)
            /\ (me + 1) % n \in Ranks(k) /\ (me + n - 1) % n \in Ranks(k)
            /\ q = next <=> q \in Members(k) /\ qr = (me + 1) % n
            /\ q = prev <=> q \in Members(k) /\ me = (qr + 1) % n
            /\ next = prev <=> n <= 2
  <1> DEFINE n == GroupSize(k)
             me == GroupRank(k, p)
             qr == GroupRank(k, q)
  <1>1. n \in Nat \ {0} /\ me \in 0 .. n - 1 /\ (q \in Members(k) => qr \in 0 .. n - 1)
    BY GroupIs DEF Ranks
  <1> HIDE DEF n, me, qr
  <1>2. \A r \in 0 .. n - 1 : /\ (r + 1) % n = (IF r = n - 1 THEN 0 ELSE r + 1)
                              /\ (r + n - 1) % n = (IF r = 0 THEN n - 1 ELSE r - 1)
    BY <1>1, Neighbours
  <1> DEFINE a == (me + 1) % n
             b == (me + n - 1) % n
             c == (qr + 1) % n
  <1>3. /\ a = (IF me = n - 1 THEN 0 ELSE me + 1) /\ b = (IF me = 0 THEN n - 1 ELSE me - 1)
        /\ (q \in Members(k) => c = (IF qr = n - 1 THEN 0 ELSE qr + 1))
    BY <1>1, <1>2
  <1> HIDE DEF a, b, c
  <1>4. /\ a \in 0 .. n - 1 /\ b \in 0 .. n - 1 /\ (a = b <=> n <= 2)
        /\ (q \in Members(k) => (me = c <=> qr = b))
    BY <1>1, <1>3
  <1>5. a \in Ranks(k) /\ b \in Ranks(k)
    BY <1>4 DEF Ranks, n
  <1>6. \A r \in Ranks(k) : /\ CidFromComm(k, r) \in Members(k)
                            /\ GroupRank(k, CidFromComm(k, r)) = r
                            /\ q = CidFromComm(k, r) <=> q \in Members(k) /\ qr = r
    BY GroupIs DEF qr
  <1>7. CidFromComm(k, a) = CidFromComm(k, b) <=> a = b
    BY <1>5, <1>6
  <1> QED
    BY <1>4, <1>5, <1>6, <1>7 DEF a, b, c, n, me, qr

-----------------------------------------------------------------------------
\* A flit goes around the ring, then rank 0 sends one to every other rank.

\* A flit f that goes around the ring of the ranks, then rank 0 tells everybody.
RoundScript(k, me, f, g) ==
  LET n == GroupSize(k)
      next == CidFromComm(k, (me + 1) % n)
      prev == CidFromComm(k, (me + n - 1) % n)
  IN IF me = 0
     THEN Send(next, f) \o Receive(prev, f)
          \o FlattenSeq([i \in 1 .. n |-> IF i - 1 = 0 THEN <<>> ELSE Send(CidFromComm(k, i - 1), g[i-1])])
     ELSE Receive(prev, f) \o Send(next, f) \o Receive(CidFromComm(k, 0), g[me])
IsNext(k, s, t) ==
  s \in Members(k) /\ t \in Members(k) /\ GroupRank(k, t) = (GroupRank(k, s) + 1) % GroupSize(k)
IsTold(k, s, t) == s # t /\ s \in Members(k) /\ t \in Members(k) /\ s = CidFromComm(k, 0)
RoundFlits(k, s, t, f, g) ==
  (IF IsNext(k, s, t) THEN <<f>> ELSE <<>>)
  \o (IF IsTold(k, s, t) THEN <<g[GroupRank(k, t)]>> ELSE <<>>)

LEMMA RoundCarries ==
  ASSUME NEW k, IsCallNumber(k), NEW p \in Members(k), NEW q \in Process, NEW d \in {"send", "recv"},
         NEW f \in Flit, NEW g \in [Ranks(k) -> Flit]
  PROVE  Carries(d, p, q, k, RoundScript(k, GroupRank(k, p), f, g),
                 IF d = "send" THEN RoundFlits(k, p, q, f, g) ELSE RoundFlits(k, q, p, f, g))
  <1> DEFINE n == GroupSize(k)
             me == GroupRank(k, p)
             qr == GroupRank(k, q)
             c == CidFromComm(k, 0)
             next == CidFromComm(k, (me + 1) % n)
             prev == CidFromComm(k, (me + n - 1) % n)
             If(v, m) == IF v THEN m ELSE <<>>
             A == Send(next, f)
             B == Receive(prev, f)
             ma == If(d = "send" /\ q = next, <<f>>)
             mb == If(d = "recv" /\ q = prev, <<f>>)
             told == IF d = "send" THEN IsTold(k, p, q) ELSE IsTold(k, q, p)
             x == IF d = "send" THEN g[qr] ELSE g[me]
             mc == If(told, <<x>>)
  <1>0. 0 \in Ranks(k)
    BY GroupIs DEF Ranks
  <1>1. /\ p \in Process /\ c \in Process /\ c \in Members(k) /\ me \in Ranks(k) /\ n \in Nat
        /\ (me = 0 <=> p = c) /\ (q \in Members(k) => qr \in Ranks(k))
        /\ next \in Process /\ prev \in Process
    BY <1>0, GroupIs, RingOf
  <1>2. q = next <=> IsNext(k, p, q)
    BY RingOf DEF IsNext
  <1>3. q = prev <=> IsNext(k, q, p)
    BY RingOf DEF IsNext
  <1>4. (IF d = "send" THEN RoundFlits(k, p, q, f, g) ELSE RoundFlits(k, q, p, f, g)) = (ma \o mb) \o mc
    <2>1. <<f>> \in Seq(Flit) /\ <<>> \in Seq(Flit)
      OBVIOUS
    <2>2. CASE d = "send"
      <3>1. ma \o mb = If(IsNext(k, p, q), <<f>>)
        BY <1>2, <2>1, <2>2, NoFlits
      <3> HIDE DEF ma, mb
      <3>2. mc = If(IsTold(k, p, q), <<g[qr]>>)
        BY <2>2
      <3> HIDE DEF mc
      <3> QED
        BY <2>2, <3>1, <3>2 DEF RoundFlits
    <2>3. CASE d = "recv"
      <3>1. ma \o mb = If(IsNext(k, q, p), <<f>>)
        BY <1>3, <2>1, <2>3, NoFlits
      <3> HIDE DEF ma, mb
      <3>2. mc = If(IsTold(k, q, p), <<g[me]>>)
        BY <2>3
      <3> HIDE DEF mc
      <3> QED
        BY <2>3, <3>1, <3>2 DEF RoundFlits
    <2> QED
      BY <2>2, <2>3
  <1>5. Carries(d, p, q, k, A, ma) /\ Carries(d, p, q, k, B, mb)
    <2> HIDE DEF next, prev
    <2> QED
      BY <1>1, CarriesSend
  <1>6. mc \in Seq(Flit)
    <2>1. told => x \in Flit
      BY <1>1 DEF IsTold
    <2> HIDE DEF told, x
    <2> QED
      BY <2>1, NoFlits
  <1>7. ma \o mb = mb \o ma
    <2>1. <<f>> \in Seq(Flit) /\ <<>> \in Seq(Flit)
      OBVIOUS
    <2> QED
      BY <2>1, NoFlits
  <1>8. CASE me = 0
    <2> DEFINE ss == [i \in 1 .. n |-> IF i - 1 = 0 THEN <<>> ELSE Send(CidFromComm(k, i - 1), g[i-1])]
               C == FlattenSeq(ss)
               m == IF q \in Members(k) /\ q # c THEN mc ELSE <<>>
    <2>1. RoundScript(k, me, f, g) = (A \o B) \o C
      BY <1>8 DEF RoundScript
    <2>2. m \in Seq(Flit)
      <3> HIDE DEF mc
      <3> QED
        BY <1>6, NoFlits
    <2>3. \A r \in Ranks(k) : r + 1 \in 1 .. n /\ (r + 1) - 1 = r
      BY <1>1 DEF Ranks
    <2>4. ss = [i \in 1 .. n |-> ss[i]] /\ ss[0 + 1] = <<>>
      BY <1>0, <2>3
    <2>5. ASSUME NEW r \in Ranks(k) \ {0}
          PROVE  Carries(d, p, q, k, ss[r+1], IF q = CidFromComm(k, r) THEN m ELSE <<>>)
      <3> DEFINE o == CidFromComm(k, r)
      <3>1. ss[r+1] = Send(o, g[r])
        BY <2>3
      <3>2. o \in Process /\ o \in Members(k) /\ GroupRank(k, o) = r /\ g[r] \in Flit
        BY GroupIs
      <3>3. o # c
        BY <1>0, <1>1, <3>2, GroupIs
      <3>4. (IF d = "send" /\ q = o THEN <<g[r]>> ELSE <<>>) = (IF q = o THEN m ELSE <<>>)
        <4>1. q = o => q \in Members(k) /\ q # c /\ qr = r
          BY <3>2, <3>3
        <4>2. CASE q # o
          BY <4>2
        <4>3. CASE q = o /\ d = "send"
          <5>1. told /\ x = g[r]
            BY <1>1, <1>8, <4>1, <4>3 DEF IsTold
          <5> HIDE DEF told, x
          <5> QED
            BY <4>1, <4>3, <5>1
        <4>4. CASE q = o /\ d = "recv"
          <5>1. ~told
            BY <1>1, <1>8, <4>1, <4>4 DEF IsTold
          <5> HIDE DEF told, x
          <5> QED
            BY <4>4, <5>1
        <4> QED
          BY <4>2, <4>3, <4>4
      <3> HIDE DEF ss, m, o
      <3>5. Carries(d, p, q, k, Send(o, g[r]), IF d = "send" /\ q = o THEN <<g[r]>> ELSE <<>>)
        BY <1>1, <3>2, CarriesSend
      <3> QED
        BY <3>1, <3>4, <3>5 DEF o
    <2>6. (IF q \in Members(k) /\ q # c THEN m ELSE <<>>) = mc
      <3>1. told => q \in Members(k) /\ q # c
        BY <1>1, <1>8 DEF IsTold
      <3> HIDE DEF told
      <3> QED
        BY <3>1
    <2> HIDE DEF ss, m
    <2>7. Carries(d, p, q, k, C, IF q \in Members(k) /\ q # c THEN m ELSE <<>>)
      BY <1>0, <1>1, <2>2, <2>4, <2>5, CarriesOthers
    <2> DEFINE AB == A \o B
               mab == ma \o mb
    <2> HIDE DEF A, B, C, ma, mb, mc
    <2>8. Carries(d, p, q, k, A \o B, ma \o mb)
      BY <1>1, <1>5, CarriesBoth
    <2>9. Carries(d, p, q, k, AB, mab) /\ Carries(d, p, q, k, C, mc)
      BY <2>6, <2>7, <2>8
    <2> HIDE DEF AB, mab
    <2>10. Carries(d, p, q, k, AB \o C, mab \o mc)
      BY <1>1, <2>9, CarriesBoth
    <2> QED
      BY <1>4, <2>1, <2>10 DEF AB, mab
  <1>9. CASE me # 0
    <2> DEFINE C == Receive(c, g[me])
    <2>1. RoundScript(k, me, f, g) = (B \o A) \o C
      BY <1>9 DEF RoundScript
    <2>2. Carries(d, p, q, k, C, If(d = "recv" /\ q = c, <<g[me]>>))
      <3>1. g[me] \in Flit
        BY <1>1
      <3> HIDE DEF me, c
      <3> QED
        BY <1>1, <3>1, CarriesSend
    <2>3. If(d = "recv" /\ q = c, <<g[me]>>) = mc
      <3>1. told <=> d = "recv" /\ q = c
        BY <1>1, <1>9 DEF IsTold
      <3> HIDE DEF told
      <3> QED
        BY <3>1
    <2> DEFINE AB == B \o A
               mab == mb \o ma
    <2> HIDE DEF A, B, C, ma, mb, mc
    <2>4. Carries(d, p, q, k, B \o A, mb \o ma)
      BY <1>1, <1>5, CarriesBoth
    <2>5. Carries(d, p, q, k, AB, mab) /\ Carries(d, p, q, k, C, mc)
      BY <2>2, <2>3, <2>4
    <2> HIDE DEF AB, mab
    <2>6. Carries(d, p, q, k, AB \o C, mab \o mc)
      BY <1>1, <2>5, CarriesBoth
    <2> QED
      BY <1>4, <1>7, <2>1, <2>6 DEF AB, mab
  <1> QED
    BY <1>8, <1>9

-----------------------------------------------------------------------------
\* MPI_Barrier, MPI_Alltoall and MPI_Send.

BarrierFlits(k, s, t) == RoundFlits(k, s, t, Data(k, 0), [r \in Ranks(k) |-> Data(k, 1)])

LEMMA BarrierCarries ==
  ASSUME NEW k, IsCallNumber(k), NEW p \in Members(k), NEW q \in Process, NEW d \in {"send", "recv"}
  PROVE  Carries(d, p, q, k, BarrierScript(k, GroupRank(k, p)),
                 IF d = "send" THEN BarrierFlits(k, p, q) ELSE BarrierFlits(k, q, p))
  <1> DEFINE f == Data(k, 0)
             g == [r \in Ranks(k) |-> Data(k, 1)]
             me == GroupRank(k, p)
             G == GroupSize(k)
             ss == [i \in 1 .. G |-> IF i - 1 = 0 THEN <<>> ELSE Send(CidFromComm(k, i - 1), g[i-1])]
  <1>1. me \in Ranks(k) /\ G \in Nat
    BY GroupIs
  <1>2. f \in Flit /\ g \in [Ranks(k) -> Flit]
    <2>1. Data(k, 0) \in Flit /\ Data(k, 1) \in Flit
      BY FlitsTyped
    <2> QED
      BY <2>1
  <1>3. ss = [i \in 1 .. G |-> IF i - 1 = 0 THEN <<>> ELSE Send(CidFromComm(k, i - 1), Data(k, 1))]
    <2>1. \A i \in 1 .. G : i - 1 \in Ranks(k)
      BY <1>1 DEF Ranks
    <2>2. \A i \in 1 .. G : g[i-1] = Data(k, 1)
      BY <2>1
    <2> HIDE DEF g
    <2> QED
      BY <2>2
  <1>4. g[me] = Data(k, 1)
    BY <1>1
  <1>5. BarrierScript(k, me) = RoundScript(k, me, f, g)
    BY <1>3, <1>4 DEF BarrierScript, RoundScript, ForOthers
  <1> HIDE DEF f, g, me, ss
  <1>6. Carries(d, p, q, k, RoundScript(k, GroupRank(k, p), f, g),
                IF d = "send" THEN RoundFlits(k, p, q, f, g) ELSE RoundFlits(k, q, p, f, g))
    BY <1>2, RoundCarries
  <1> QED
    BY <1>5, <1>6 DEF BarrierFlits, f, g, me

\* MPI_Alltoall.
StartSeconds(k) == [r \in Ranks(k) |-> Data(k, IF r = 1 THEN 2 ELSE 1)]
RestFlits(k, s, t) ==
  LET len == PartLength(k, t) IN
  IF s = t THEN <<>> ELSE DataSeq(k, len - Left(len, InStart(GroupSize(k), s, t)) + 1, len)
AlltoallFlits(k, s, t) == RoundFlits(k, s, t, Data(k, 1), StartSeconds(k)) \o RestFlits(k, s, t)

\* The numbers of flits that the start leaves for the loop.
SendsLeft(k, p) ==
  [r \in Ranks(k) |-> IF r = p THEN 0 ELSE Left(PartLength(k, r), InStart(GroupSize(k), p, r))]
RecvsLeft(k, p) ==
  [r \in Ranks(k) |-> IF r = p THEN 0 ELSE Left(PartLength(k, p), InStart(GroupSize(k), r, p))]

LEMMA ExchangeCarries ==
  ASSUME NEW k, IsCallNumber(k), program[k].op = "alltoall", NEW p \in Process, NEW q \in Process, NEW d \in {"send", "recv"}
  PROVE  Carries(d, p, q, k, Exchange(k, p), IF d = "send" THEN RestFlits(k, p, q) ELSE RestFlits(k, q, p))
  <1> DEFINE h == [do |-> "alltoall", slens |-> SendsLeft(k, p), rlens |-> RecvsLeft(k, p)]
  <1>0. GroupSize(k) \in Nat /\ k \in Nat
    BY GroupIs
  <1>1. /\ Ranks(k) = Process /\ \A r \in Process : PartLength(k, r) \in Nat
    BY RingIsWorld, WorldIs
  <1>2. Exchange(k, p) = Loop(h)
    BY DEF Exchange, SendsLeft, RecvsLeft, Ranks
  <1>3. \A s, t \in Process : Left(PartLength(k, t), InStart(GroupSize(k), s, t)) \in Nat
    <2>1. \A a, b \in Nat : Left(a, b) \in Nat
      BY DEF Left
    <2>2. \A s, t : InStart(GroupSize(k), s, t) \in Nat
      BY DEF InStart
    <2> QED
      BY <1>1, <2>1, <2>2
  <1>4. SendsLeft(k, p) \in [Process -> Nat] /\ RecvsLeft(k, p) \in [Process -> Nat]
    BY <1>1, <1>3 DEF SendsLeft, RecvsLeft
  <1>5. h \in StepSet(k)
    BY <1>4 DEF StepSet, RingLoops
  <1>6. StepFlow(d, p, q, k, h) = IF d = "send" THEN RestFlits(k, p, q) ELSE RestFlits(k, q, p)
    <2>1. /\ SendsLeft(k, p)[q] = IF q = p THEN 0 ELSE Left(PartLength(k, q), InStart(GroupSize(k), p, q))
          /\ RecvsLeft(k, p)[q] = IF q = p THEN 0 ELSE Left(PartLength(k, p), InStart(GroupSize(k), q, p))
      BY <1>1 DEF SendsLeft, RecvsLeft
    <2>2. DataSeq(k, PartLength(k, q) - 0 + 1, PartLength(k, q)) = <<>>
      BY <1>0, <1>1, DataNone
    <2>3. StepFlow(d, p, q, k, h) =
            IF d = "send" THEN DataSeq(k, PartLength(k, q) - SendsLeft(k, p)[q] + 1, PartLength(k, q))
            ELSE DataSeq(k, PartLength(k, p) - RecvsLeft(k, p)[q] + 1, PartLength(k, p))
      BY DEF StepFlow
    <2> HIDE DEF h
    <2>4. CASE p = q
      <3>1. DataSeq(k, PartLength(k, q) - SendsLeft(k, p)[q] + 1, PartLength(k, q)) = <<>>
        BY <2>1, <2>2, <2>4
      <3>2. DataSeq(k, PartLength(k, p) - RecvsLeft(k, p)[q] + 1, PartLength(k, p)) = <<>>
        BY <2>1, <2>2, <2>4
      <3> QED
        BY <2>3, <2>4, <3>1, <3>2 DEF RestFlits
    <2>5. CASE p # q
      BY <2>1, <2>3, <2>5 DEF RestFlits
    <2> QED
      BY <2>4, <2>5
  <1>7. h.do \notin {"send", "recv"}
    OBVIOUS
  <1> HIDE DEF h
  <1>8. Carries(d, p, q, k, Loop(h), StepFlow(d, p, q, k, h))
    BY <1>5, <1>7, CarriesLoop
  <1> QED
    BY <1>2, <1>6, <1>8

LEMMA AlltoallCarries ==
  ASSUME NEW k, IsCallNumber(k), program[k].op = "alltoall", NEW p \in Process, NEW q \in Process, NEW d \in {"send", "recv"}
  PROVE  Carries(d, p, q, k, AlltoallScript(k, GroupRank(k, p)),
                 IF d = "send" THEN AlltoallFlits(k, p, q) ELSE AlltoallFlits(k, q, p))
  <1> DEFINE f == Data(k, 1)
             g == StartSeconds(k)
             G == GroupSize(k)
             ss == [i \in 1 .. G |-> IF i - 1 = 0 THEN <<>> ELSE Send(CidFromComm(k, i - 1), g[i-1])]
             A == RoundScript(k, p, f, g)
             B == Exchange(k, p)
             m1 == IF d = "send" THEN RoundFlits(k, p, q, f, g) ELSE RoundFlits(k, q, p, f, g)
             m2 == IF d = "send" THEN RestFlits(k, p, q) ELSE RestFlits(k, q, p)
  <1>1. p \in Ranks(k) /\ G \in Nat /\ GroupRank(k, p) = p /\ p \in Members(k)
    BY GroupIs, RingIsWorld, WorldIs
  <1>2. f \in Flit /\ g \in [Ranks(k) -> Flit]
    <2>1. Data(k, 2) \in Flit /\ Data(k, 1) \in Flit
      BY FlitsTyped
    <2> QED
      BY <2>1 DEF StartSeconds
  <1>3. ss = [i \in 1 .. G |-> IF i - 1 = 0 THEN <<>>
                               ELSE Send(CidFromComm(k, i - 1), Data(k, IF i - 1 = 1 THEN 2 ELSE 1))]
    <2>1. \A i \in 1 .. G : i - 1 \in Ranks(k)
      BY <1>1 DEF Ranks
    <2>2. \A i \in 1 .. G : g[i-1] = Data(k, IF i - 1 = 1 THEN 2 ELSE 1)
      BY <2>1 DEF StartSeconds
    <2> HIDE DEF g
    <2> QED
      BY <2>2
  <1>4. g[p] = Data(k, IF p = 1 THEN 2 ELSE 1)
    BY <1>1 DEF StartSeconds
  <1>5. RingStart(k, p) = A
    BY <1>3, <1>4 DEF RingStart, RoundScript, ForOthers
  <1> HIDE DEF f, g, ss, G
  <1>6. Carries(d, p, q, k, RoundScript(k, GroupRank(k, p), f, g), m1)
    BY <1>1, <1>2, RoundCarries
  <1>7. Carries(d, p, q, k, A, m1) /\ Carries(d, p, q, k, B, m2)
    BY <1>1, <1>6, ExchangeCarries
  <1>8. AlltoallScript(k, p) = A \o B
    BY <1>5 DEF AlltoallScript
  <1>9. (IF d = "send" THEN AlltoallFlits(k, p, q) ELSE AlltoallFlits(k, q, p)) = m1 \o m2
    <2>1. CASE d = "send"
      BY <2>1 DEF AlltoallFlits, f, g
    <2>2. CASE d # "send"
      BY <2>2 DEF AlltoallFlits, f, g
    <2> QED
      BY <2>1, <2>2
  <1> HIDE DEF A, B, m1, m2
  <1>10. Carries(d, p, q, k, A \o B, m1 \o m2)
    BY <1>7, CarriesBoth
  <1> QED
    BY <1>1, <1>8, <1>9, <1>10

\* MPI_Send and MPI_Recv.
SendFlits(k, s, t, from, to) ==
  IF s = CidFromComm(k, from) /\ t = CidFromComm(k, to)
  THEN <<HeadFlit(k, PartLength(k, to))>> \o DataSeq(k, 1, PartLength(k, to))
  ELSE IF s = CidFromComm(k, to) /\ t = CidFromComm(k, from) THEN <<Ack(k)>> ELSE <<>>
SendRecvScript(k, me, from, to) ==
  IF me = from THEN SendScript(k, CidFromComm(k, to), PartLength(k, to))
  ELSE IF me = to THEN RecvScript(k, CidFromComm(k, from), PartLength(k, to)) ELSE <<>>

LEMMA SendCarries ==
  ASSUME NEW k, IsCallNumber(k), NEW p \in Members(k), NEW q \in Process, NEW d \in {"send", "recv"},
         NEW from \in Ranks(k), NEW to \in Ranks(k), from # to
  PROVE  Carries(d, p, q, k, SendRecvScript(k, GroupRank(k, p), from, to),
                 IF d = "send" THEN SendFlits(k, p, q, from, to) ELSE SendFlits(k, q, p, from, to))
  <1> DEFINE me == GroupRank(k, p)
             a == CidFromComm(k, from)
             b == CidFromComm(k, to)
             l == PartLength(k, to)
             f == HeadFlit(k, l)
             there == <<f>> \o DataSeq(k, 1, l)
             m == IF d = "send" THEN SendFlits(k, p, q, from, to) ELSE SendFlits(k, q, p, from, to)
  <1>1. /\ p \in Process /\ a \in Process /\ b \in Process /\ a # b /\ l \in Nat
        /\ (me = from <=> p = a) /\ (me = to <=> p = b)
    BY GroupIs
  <1>2. 1 \in Int /\ l \in Int /\ f \in Flit
    <2>1. l \in Int
      BY <1>1
    <2> QED
      BY <2>1, FlitsTyped
  <1>3. CASE p = a
    <2> DEFINE S == Send(b, f) \o Receive(b, Ack(k)) \o SendRaw(k, b, 1, l)
               n == IF q # b THEN <<>> ELSE IF d = "send" THEN there ELSE <<Ack(k)>>
    <2>1. SendRecvScript(k, me, from, to) = S
      BY <1>1, <1>3 DEF SendRecvScript, SendScript
    <2>2. m = n
      BY <1>1, <1>3 DEF SendFlits
    <2> HIDE DEF f, l, a, b
    <2>3. Carries(d, p, q, k, S, n)
      BY <1>1, <1>2, CarriesAcked
    <2> HIDE DEF S, n, m
    <2> QED
      BY <2>1, <2>2, <2>3 DEF m
  <1>4. CASE p = b
    <2> DEFINE S == Receive(a, f) \o Send(a, Ack(k)) \o RecvRaw(k, a, 1, l)
               n == IF q # a THEN <<>> ELSE IF d = "recv" THEN there ELSE <<Ack(k)>>
    <2>1. SendRecvScript(k, me, from, to) = S
      BY <1>1, <1>4 DEF SendRecvScript, RecvScript
    <2>2. m = n
      BY <1>1, <1>4 DEF SendFlits
    <2> HIDE DEF f, l, a, b
    <2>3. Carries(d, p, q, k, S, n)
      BY <1>1, <1>2, CarriesAcked
    <2> HIDE DEF S, n, m
    <2> QED
      BY <2>1, <2>2, <2>3 DEF m
  <1>5. CASE p # a /\ p # b
    <2>1. SendRecvScript(k, me, from, to) = <<>>
      BY <1>1, <1>5 DEF SendRecvScript
    <2>2. m = <<>>
      BY <1>1, <1>5 DEF SendFlits
    <2> HIDE DEF m
    <2>3. Carries(d, p, q, k, SendRecvScript(k, me, from, to), m)
      BY <2>1, <2>2, CarriesNothing
    <2> QED
      BY <2>3 DEF m
  <1> QED
    BY <1>3, <1>4, <1>5

-----------------------------------------------------------------------------
\* MPI_Sendrecv, and every call: what one process sends, the other one receives.

\* MPI_Sendrecv around the ring.
SendrecvFlits(k, s, t) ==
  LET len == PartLength(k, GroupRank(k, t)) IN
  (IF IsNext(k, s, t) THEN <<HeadFlit(k, len)>> ELSE <<>>)
  \o (IF IsNext(k, t, s) /\ GroupSize(k) > 2 THEN <<Ack(k)>> ELSE <<>>)
  \o (IF IsNext(k, s, t) THEN DataSeq(k, 1, len) ELSE <<>>)

LEMMA SendrecvCarries ==
  ASSUME NEW k, IsCallNumber(k), NEW p \in Members(k), NEW q \in Process, NEW d \in {"send", "recv"}
  PROVE  Carries(d, p, q, k, SendrecvScript(k, GroupRank(k, p)),
                 IF d = "send" THEN SendrecvFlits(k, p, q) ELSE SendrecvFlits(k, q, p))
  <1> DEFINE n == GroupSize(k)
             me == GroupRank(k, p)
             qr == GroupRank(k, q)
             to == CidFromComm(k, (me + 1) % n)
             from == CidFromComm(k, (me + n - 1) % n)
             slen == PartLength(k, (me + 1) % n)
             rlen == PartLength(k, me)
             h == [do |-> "sendrecv", to |-> to, from |-> from,
                   slen |-> slen, sleft |-> slen, rlen |-> rlen, rleft |-> rlen]
             x == Ack(k)
             sh == HeadFlit(k, slen)
             rh == HeadFlit(k, rlen)
             se == DataSeq(k, 1, slen)
             re == DataSeq(k, 1, rlen)
             If(v, m) == IF v THEN m ELSE <<>>
             A == Send(to, sh)
             B == Receive(from, rh)
             C == IF to = from THEN <<>> ELSE Send(from, x) \o Receive(to, x)
             D == Loop(h)
             snext == d = "send" /\ IsNext(k, p, q)
             rnext == d = "recv" /\ IsNext(k, q, p)
             ack == n > 2 /\ IF d = "send" THEN IsNext(k, q, p) ELSE IsNext(k, p, q)
             ma == If(snext, <<sh>>)
             mb == If(rnext, <<rh>>)
             mc == If(ack, <<x>>)
             md == IF d = "send" THEN If(snext, se) ELSE If(rnext, re)
  <1>1. /\ p \in Process /\ me \in Ranks(k) /\ n \in Nat /\ to \in Process /\ from \in Process
        /\ slen \in Nat /\ rlen \in Nat /\ k \in Nat /\ (q \in Members(k) => qr \in Ranks(k))
        /\ (to = from <=> n <= 2)
    BY GroupIs, RingOf
  <1>2. /\ q = to <=> IsNext(k, p, q)
        /\ q = from <=> IsNext(k, q, p)
        /\ IsNext(k, p, q) => PartLength(k, qr) = slen
    BY RingOf DEF IsNext
  <1>3. 1 \in Int /\ slen \in Int /\ rlen \in Int
    BY <1>1
  <1>4. /\ x \in Flit /\ sh \in Flit /\ rh \in Flit /\ <<x>> \in Seq(Flit)
        /\ <<sh>> \in Seq(Flit) /\ <<rh>> \in Seq(Flit)
    BY <1>3, FlitsTyped
  <1>5. se \in Seq(Flit) /\ re \in Seq(Flit)
    BY <1>1, <1>3, DataSeqTyped
  <1>6. SendrecvScript(k, me) = ((A \o B) \o C) \o D
    BY DEF SendrecvScript
  <1>7. StepFlow(d, p, q, k, h) = md /\ h \in StepSet(k) /\ h.do \notin {"send", "recv"}
    <2> HIDE DEF to, from, slen, rlen
    <2>1. h \in StepSet(k)
      BY <1>1 DEF StepSet, PairLoops
    <2>2. slen - slen + 1 = 1 /\ rlen - rlen + 1 = 1
      BY <1>1
    <2>3. StepFlow(d, p, q, k, h) =
            IF d = "send" THEN IF to = q THEN se ELSE <<>> ELSE IF from = q THEN re ELSE <<>>
      BY <2>2 DEF StepFlow
    <2> HIDE DEF se, re
    <2>4. StepFlow(d, p, q, k, h) = md
      <3> HIDE DEF h
      <3> QED
        BY <1>2, <2>3
    <2> QED
      BY <2>1, <2>4
  <1> HIDE DEF h, x, sh, rh, se, re, to, from, slen, rlen, n, me, qr
  <1>8. Carries(d, p, q, k, A, ma) /\ Carries(d, p, q, k, B, mb)
    <2>1. /\ Carries(d, p, q, k, A, IF d = "send" /\ q = to THEN <<sh>> ELSE <<>>)
          /\ Carries(d, p, q, k, B, IF d = "recv" /\ q = from THEN <<rh>> ELSE <<>>)
      BY <1>1, <1>4, CarriesSend
    <2> HIDE DEF A, B
    <2> QED
      BY <1>2, <2>1
  <1>9. Carries(d, p, q, k, C, mc)
    <2>1. CASE to = from
      <3>1. C = <<>> /\ ~ack
        BY <1>1, <2>1
      <3> HIDE DEF C, ack
      <3>2. mc = <<>>
        BY <3>1
      <3> QED
        BY <3>1, <3>2, CarriesNothing
    <2>2. CASE to # from
      <3> DEFINE S == Send(from, x)
                 R == Receive(to, x)
                 u == If(d = "send" /\ q = from, <<x>>)
                 v == If(d = "recv" /\ q = to, <<x>>)
      <3>1. C = S \o R
        BY <2>2
      <3>2. Carries(d, p, q, k, S, u) /\ Carries(d, p, q, k, R, v)
        BY <1>1, <1>4, CarriesSend
      <3>3. u \o v = mc
        <4>1. n > 2
          BY <1>1, <2>2
        <4> QED
          BY <1>2, <1>4, <4>1, NoFlits
      <3> HIDE DEF S, R, u, v, C, mc
      <3>4. Carries(d, p, q, k, S \o R, u \o v)
        BY <1>1, <3>2, CarriesBoth
      <3> QED
        BY <3>1, <3>3, <3>4
    <2> QED
      BY <2>1, <2>2
  <1>10. Carries(d, p, q, k, D, md)
    BY <1>1, <1>7, CarriesLoop
  <1>11. (IF d = "send" THEN SendrecvFlits(k, p, q) ELSE SendrecvFlits(k, q, p)) = ((ma \o mb) \o mc) \o md
    <2>1. CASE d = "send"
      <3>1. ma \o mb = If(IsNext(k, p, q), <<sh>>)
        BY <1>4, <2>1, NoFlits
      <3>2. mc = If(IsNext(k, q, p) /\ n > 2, <<x>>) /\ md = If(IsNext(k, p, q), se)
        BY <2>1
      <3> HIDE DEF ma, mb, mc, md
      <3>3. SendrecvFlits(k, p, q) =
              If(IsNext(k, p, q), <<HeadFlit(k, PartLength(k, qr))>>) \o If(IsNext(k, q, p) /\ n > 2, <<x>>)
              \o If(IsNext(k, p, q), DataSeq(k, 1, PartLength(k, qr)))
        BY DEF SendrecvFlits, qr, n, x
      <3>4. /\ If(IsNext(k, p, q), <<HeadFlit(k, PartLength(k, qr))>>) = If(IsNext(k, p, q), <<sh>>)
            /\ If(IsNext(k, p, q), DataSeq(k, 1, PartLength(k, qr))) = If(IsNext(k, p, q), se)
        BY <1>2 DEF sh, se
      <3> HIDE DEF If
      <3> QED
        BY <2>1, <3>1, <3>2, <3>3, <3>4
    <2>2. CASE d = "recv"
      <3>1. ma \o mb = If(IsNext(k, q, p), <<rh>>)
        BY <1>4, <2>2, NoFlits
      <3>2. mc = If(IsNext(k, p, q) /\ n > 2, <<x>>) /\ md = If(IsNext(k, q, p), re)
        BY <2>2
      <3> HIDE DEF ma, mb, mc, md
      <3>3. SendrecvFlits(k, q, p) =
              If(IsNext(k, q, p), <<rh>>) \o If(IsNext(k, p, q) /\ n > 2, <<x>>) \o If(IsNext(k, q, p), re)
        BY DEF SendrecvFlits, me, n, x, rh, re, rlen
      <3> QED
        BY <2>2, <3>1, <3>2, <3>3
    <2> QED
      BY <2>1, <2>2
  <1> DEFINE AB == A \o B
             mab == ma \o mb
             ABC == AB \o C
             mabc == mab \o mc
  <1> HIDE DEF A, B, C, D, ma, mb, mc, md
  <1>12. Carries(d, p, q, k, AB, mab)
    BY <1>1, <1>8, CarriesBoth
  <1> HIDE DEF AB, mab
  <1>13. Carries(d, p, q, k, ABC, mabc)
    BY <1>1, <1>9, <1>12, CarriesBoth
  <1> HIDE DEF ABC, mabc
  <1>14. Carries(d, p, q, k, ABC \o D, mabc \o md)
    BY <1>1, <1>10, <1>13, CarriesBoth
  <1> QED
    BY <1>6, <1>11, <1>14 DEF ABC, mabc, AB, mab, me

-----------------------------------------------------------------------------
\* The flits that process s sends to t in call k.
Message(k, s, t) ==
  LET op == program[k].op
      root == program[k].root
  IN CASE op = "send" -> SendFlits(k, s, t, root, program[k].dest)
       [] op = "sendrecv" -> SendrecvFlits(k, s, t)
       [] op = "bcast" -> SpreadFlits(k, s, t, root, PartLength(k, root))
       [] op = "scatter" -> SpreadFlits(k, s, t, root, PartLength(k, GroupRank(k, t)))
       [] op = "gather" -> GatherFlits(k, s, t, root)
       [] op = "allreduce" -> GatherFlits(k, s, t, 0) \o ResultFlits(k, s, t)
       [] op = "barrier" -> BarrierFlits(k, s, t)
       [] op = "alltoall" -> AlltoallFlits(k, s, t)

LEMMA ScriptCarries ==
  ASSUME NEW k, IsCallNumber(k), NEW p \in Process, NEW q \in Process, NEW d \in {"send", "recv"}
  PROVE  Carries(d, p, q, k, Script(k, p), IF d = "send" THEN Message(k, p, q) ELSE Message(k, q, p))
  <1> DEFINE me == GroupRank(k, p)
             c == program[k]
             m == IF d = "send" THEN Message(k, p, q) ELSE Message(k, q, p)
  <1>1. /\ c.op \in Operation /\ IsCall(c) /\ c.root \in Ranks(k) /\ c.dest \in Ranks(k)
        /\ CidFromComm(k, c.root) \in Members(k) /\ CidFromComm(k, c.dest) \in Members(k)
    BY GroupIs DEF Parameters
  <1>3. ~(p \in Members(k)) => Script(k, p) = <<>>
    BY DEF Script, Members, Comm
  <1>4. p \in Members(k) =>
          Script(k, p) =
            CASE c.op = "send" -> SendRecvScript(k, me, c.root, c.dest)
              [] c.op = "sendrecv" -> SendrecvScript(k, me)
              [] c.op = "bcast" -> BcastScript(k, me, c.root)
              [] c.op = "scatter" -> ScatterScript(k, me, c.root)
              [] c.op = "gather" -> GatherScript(k, me, c.root)
              [] c.op = "allreduce" -> AllreduceScript(k, me)
              [] c.op = "barrier" -> BarrierScript(k, me)
              [] c.op = "alltoall" -> AlltoallScript(k, me)
    BY DEF Script, Members, Comm, SendRecvScript
  <1>5. c.op = "alltoall" => IsWorld(k)
    BY <1>1 DEF IsCall, IsWorld, Comm
  <1> HIDE DEF me
  <1>6. CASE p \notin Members(k)
    <2>0. \A f, g : RoundFlits(k, p, q, f, g) = <<>> /\ RoundFlits(k, q, p, f, g) = <<>>
      BY <1>6, NoFlits DEF RoundFlits, IsNext, IsTold
    <2>1. ~IsNext(k, p, q) /\ ~IsNext(k, q, p)
      BY <1>6 DEF IsNext
    <2>2. SendrecvFlits(k, p, q) = <<>> /\ SendrecvFlits(k, q, p) = <<>>
      BY <2>1, NoFlits DEF SendrecvFlits
    <2>3. \A l : SpreadFlits(k, p, q, c.root, l) = <<>> /\ SpreadFlits(k, q, p, c.root, l) = <<>>
      BY <1>6 DEF SpreadFlits
    <2>4. \A r : GatherFlits(k, p, q, r) = <<>> /\ GatherFlits(k, q, p, r) = <<>>
      BY <1>6 DEF GatherFlits
    <2>5. ResultFlits(k, p, q) = <<>> /\ ResultFlits(k, q, p) = <<>>
      BY <1>6 DEF ResultFlits
    <2>6. SendFlits(k, p, q, c.root, c.dest) = <<>> /\ SendFlits(k, q, p, c.root, c.dest) = <<>>
      BY <1>1, <1>6 DEF SendFlits
    <2>7. BarrierFlits(k, p, q) = <<>> /\ BarrierFlits(k, q, p) = <<>>
      BY <2>0 DEF BarrierFlits
    <2>8. c.op # "alltoall"
      BY <1>5, <1>6, WorldIs
    <2>9. (<<>> \o <<>>) = <<>>
      BY NoFlits
    <2> HIDE DEF c
    <2>10. Message(k, p, q) = <<>> /\ Message(k, q, p) = <<>>
      BY <1>1, <2>2, <2>3, <2>4, <2>5, <2>6, <2>7, <2>8, <2>9 DEF Message, Operation, c
    <2> QED
      BY <1>3, <1>6, <2>10, CarriesNothing
  <1>7. CASE p \in Members(k)
    <2>1. CASE c.op = "send"
      <3>1. c.root # c.dest
        BY <1>1, <2>1 DEF IsCall
      <3>2. Script(k, p) = SendRecvScript(k, me, c.root, c.dest)
        BY <1>4, <1>7, <2>1
      <3>3. m = IF d = "send" THEN SendFlits(k, p, q, c.root, c.dest) ELSE SendFlits(k, q, p, c.root, c.dest)
        BY <2>1 DEF Message
      <3> QED
        BY <1>1, <1>7, <3>1, <3>2, <3>3, SendCarries DEF me
    <2>2. CASE c.op = "sendrecv"
      <3>1. Script(k, p) = SendrecvScript(k, me)
        BY <1>4, <1>7, <2>2
      <3>2. m = IF d = "send" THEN SendrecvFlits(k, p, q) ELSE SendrecvFlits(k, q, p)
        BY <2>2 DEF Message
      <3> QED
        BY <1>1, <1>7, <3>1, <3>2, SendrecvCarries DEF me
    <2>3. CASE c.op = "bcast"
      <3>1. Script(k, p) = BcastScript(k, me, c.root)
        BY <1>4, <1>7, <2>3
      <3>2. m = IF d = "send" THEN SpreadFlits(k, p, q, c.root, PartLength(k, c.root))
                ELSE SpreadFlits(k, q, p, c.root, PartLength(k, c.root))
        BY <2>3 DEF Message
      <3> QED
        BY <1>1, <1>7, <3>1, <3>2, BcastCarries DEF me
    <2>4. CASE c.op = "scatter"
      <3>1. Script(k, p) = ScatterScript(k, me, c.root)
        BY <1>4, <1>7, <2>4
      <3>2. m = IF d = "send" THEN SpreadFlits(k, p, q, c.root, PartLength(k, GroupRank(k, q)))
                ELSE SpreadFlits(k, q, p, c.root, PartLength(k, GroupRank(k, p)))
        BY <2>4 DEF Message
      <3> QED
        BY <1>1, <1>7, <3>1, <3>2, ScatterCarries DEF me
    <2>5. CASE c.op = "gather"
      <3>1. Script(k, p) = GatherScript(k, me, c.root)
        BY <1>4, <1>7, <2>5
      <3>2. m = IF d = "send" THEN GatherFlits(k, p, q, c.root) ELSE GatherFlits(k, q, p, c.root)
        BY <2>5 DEF Message
      <3>3. InGather(k)
        BY <2>5 DEF InGather
      <3> QED
        BY <1>1, <1>7, <3>1, <3>2, <3>3, GatherCarries DEF me
    <2>6. CASE c.op = "allreduce"
      <3>1. Script(k, p) = AllreduceScript(k, me)
        BY <1>4, <1>7, <2>6
      <3>2. m = IF d = "send" THEN GatherFlits(k, p, q, 0) \o ResultFlits(k, p, q)
                ELSE GatherFlits(k, q, p, 0) \o ResultFlits(k, q, p)
        BY <2>6 DEF Message
      <3>3. InGather(k)
        BY <2>6 DEF InGather
      <3> QED
        BY <1>1, <1>7, <3>1, <3>2, <3>3, AllreduceCarries DEF me
    <2>7. CASE c.op = "barrier"
      <3>1. Script(k, p) = BarrierScript(k, me)
        BY <1>4, <1>7, <2>7
      <3>2. m = IF d = "send" THEN BarrierFlits(k, p, q) ELSE BarrierFlits(k, q, p)
        BY <2>7 DEF Message
      <3> QED
        BY <1>1, <1>7, <3>1, <3>2, BarrierCarries DEF me
    <2>8. CASE c.op = "alltoall"
      <3>1. Script(k, p) = AlltoallScript(k, me)
        BY <1>4, <1>7, <2>8
      <3>2. m = IF d = "send" THEN AlltoallFlits(k, p, q) ELSE AlltoallFlits(k, q, p)
        BY <2>8 DEF Message
      <3> QED
        BY <1>5, <1>7, <2>8, <3>1, <3>2, AlltoallCarries DEF me
    <2> HIDE DEF m, c
    <2> QED
      BY <1>1, <2>1, <2>2, <2>3, <2>4, <2>5, <2>6, <2>7, <2>8 DEF Operation, m
  <1> QED
    BY <1>6, <1>7

\* What a process sends to another in a call is what that one expects of it.
LEMMA Matching ==
  ASSUME NEW k, IsCallNumber(k), NEW p \in Process, NEW q \in Process
  PROVE  /\ Script(k, p) \in Seq(StepSet(k))
         /\ Flow("send", p, q, k, Script(k, p)) = Flow("recv", q, p, k, Script(k, q))
         /\ Flow("send", p, q, k, Script(k, p)) \in Seq(Flit)
  <1>1. Carries("send", p, q, k, Script(k, p), Message(k, p, q))
    <2>1. Carries("send", p, q, k, Script(k, p), IF "send" = "send" THEN Message(k, p, q) ELSE Message(k, q, p))
      BY ScriptCarries
    <2> QED
      BY <2>1
  <1>2. Carries("recv", q, p, k, Script(k, q), Message(k, p, q))
    <2>1. Carries("recv", q, p, k, Script(k, q), IF "recv" = "send" THEN Message(k, q, p) ELSE Message(k, p, q))
      BY ScriptCarries
    <2> QED
      BY <2>1
  <1> QED
    BY <1>1, <1>2 DEF Carries

-----------------------------------------------------------------------------
\* The kinds of steps in a script.

\* Scripts of single transfers.
LEMMA TransfersOnly ==
  ASSUME NEW k, IsCallNumber(k), NEW c \in Process
  PROVE  /\ \A f \in Flit : Send(c, f) \in Seq(Transfers) /\ Receive(c, f) \in Seq(Transfers)
         /\ \A a, b \in Int : SendRaw(k, c, a, b) \in Seq(Transfers) /\ RecvRaw(k, c, a, b) \in Seq(Transfers)
  <1>1. ASSUME NEW f \in Flit
        PROVE  Send(c, f) \in Seq(Transfers) /\ Receive(c, f) \in Seq(Transfers)
    <2>1. [do |-> "send", cid |-> c, flit |-> f] \in Transfers /\ [do |-> "recv", cid |-> c, flit |-> f] \in Transfers
      BY DEF Transfers
    <2> QED
      BY <2>1 DEF Send, Receive
  <1>2. ASSUME NEW a \in Int, NEW b \in Int, NEW do \in {"send", "recv"}
        PROVE  RawSteps(do, k, c, a, b) \in Seq(Transfers)
    <2> DEFINE n == (b + 1) - a
               s == RawSteps(do, k, c, a, b)
    <2>1. CASE n < 1
      <3>1. 1 .. n = 1 .. 0
        BY <2>1
      <3>2. s = [j \in 1 .. 0 |-> [do |-> do, cid |-> c, flit |-> Data(k, a + j - 1)]]
        BY <3>1 DEF RawSteps
      <3>3. s = <<>>
        BY <3>2
      <3> QED
        BY <3>3
    <2>2. CASE n >= 1
      <3>1. n \in Nat
        BY <2>2
      <3>2. \A j \in 1 .. n : a + j - 1 \in Int
        BY <3>1
      <3>3. \A j \in 1 .. n : Data(k, a + j - 1) \in Flit
        BY <3>2, FlitsTyped
      <3>4. \A j \in 1 .. n : [do |-> do, cid |-> c, flit |-> Data(k, a + j - 1)] \in Transfers
        BY <3>3 DEF Transfers
      <3>5. s = [j \in 1 .. n |-> [do |-> do, cid |-> c, flit |-> Data(k, a + j - 1)]]
        BY DEF RawSteps
      <3> HIDE DEF s, n
      <3>6. s \in [1 .. n -> Transfers]
        BY <3>4, <3>5
      <3>7. s \in Seq(Transfers)
        BY <3>1, <3>6, FunctionIsList
      <3> QED
        BY <3>7 DEF s
    <2>3. n < 1 \/ n >= 1
      OBVIOUS
    <2> QED
      BY <2>1, <2>2, <2>3
  <1>3. ASSUME NEW a \in Int, NEW b \in Int
        PROVE  SendRaw(k, c, a, b) \in Seq(Transfers) /\ RecvRaw(k, c, a, b) \in Seq(Transfers)
    <2>1. RawSteps("send", k, c, a, b) \in Seq(Transfers) /\ RawSteps("recv", k, c, a, b) \in Seq(Transfers)
      BY <1>2
    <2> QED
      BY <2>1, RawIs
  <1> QED
    BY <1>1, <1>3

\* The script of a call that gathers.
LEMMA GatherScriptIs ==
  ASSUME NEW k, IsCallNumber(k), InGather(k), NEW p \in Members(k)
  PROVE  \E after \in Seq(Transfers) :
           Script(k, p) = IF p = CidFromComm(k, GatherRoot(k)) THEN GatherStep(k, GatherRoot(k)) \o after
                          ELSE Receive(CidFromComm(k, GatherRoot(k)), Ack(k)) \o after
  <1> DEFINE root == GatherRoot(k)
             c == CidFromComm(k, root)
             me == GroupRank(k, p)
             G == GroupSize(k)
             l == PartLength(k, me)
  <1>0. 0 \in Ranks(k) /\ root \in Ranks(k)
    BY GroupIs DEF Ranks, GatherRoot
  <1>1. c \in Process /\ (me = root <=> p = c) /\ l \in Nat /\ G \in Nat
    BY <1>0, GroupIs
  <1>2. 1 \in Int /\ l \in Int
    BY <1>1
  <1>3. /\ SendRaw(k, c, 1, l) \in Seq(Transfers) /\ RecvRaw(k, c, 1, l) \in Seq(Transfers)
    BY <1>1, <1>2, TransfersOnly
  <1>4. CASE program[k].op = "gather"
    <2>1. Script(k, p) = GatherScript(k, me, root)
      BY <1>4 DEF Script, Members, Comm, GatherRoot
    <2>2. CASE p = c
      <3>1. GatherScript(k, me, root) = GatherStep(k, root)
        BY <1>1, <2>2 DEF GatherScript
      <3>2. Carries("send", p, p, k, GatherStep(k, root),
                    IF "send" = "send" THEN GatherFlits(k, p, p, root) ELSE GatherFlits(k, p, p, root))
        BY <1>0, <1>1, <2>2, GatherStepCarries
      <3>3. GatherStep(k, root) \in Seq(StepSet(k))
        BY <3>2 DEF Carries
      <3>4. GatherStep(k, root) \o <<>> = GatherStep(k, root)
        BY <3>3, ConcatEmptySeq
      <3>5. <<>> \in Seq(Transfers)
        OBVIOUS
      <3> QED
        BY <2>1, <2>2, <3>1, <3>4, <3>5
    <2>3. CASE p # c
      <3>1. GatherScript(k, me, root) = Receive(c, Ack(k)) \o SendRaw(k, c, 1, l)
        BY <1>1, <2>3 DEF GatherScript, GatherPart
      <3> QED
        BY <1>3, <2>1, <2>3, <3>1
    <2> QED
      BY <2>2, <2>3
  <1>5. CASE program[k].op = "allreduce"
    <2>1. Script(k, p) = AllreduceScript(k, me) /\ root = 0
      BY <1>5 DEF Script, Members, Comm, GatherRoot
    <2>2. CASE p = c
      <3> DEFINE ss == [i \in 1 .. G |-> IF i - 1 = 0 THEN <<>>
                                         ELSE SendRaw(k, CidFromComm(k, i - 1), 1, PartLength(k, i - 1))]
      <3>1. AllreduceScript(k, me) = GatherStep(k, 0) \o FlattenSeq(ss)
        BY <1>1, <2>1, <2>2 DEF AllreduceScript, ForOthers
      <3>2. \A i \in 1 .. G : ss[i] \in Seq(Transfers)
        <4> TAKE i \in 1 .. G
        <4>1. i - 1 \in Ranks(k)
          BY <1>1 DEF Ranks
        <4>2. CidFromComm(k, i - 1) \in Process /\ PartLength(k, i - 1) \in Nat
          BY <4>1, GroupIs
        <4>3. 1 \in Int /\ PartLength(k, i - 1) \in Int
          BY <4>2
        <4>4. SendRaw(k, CidFromComm(k, i - 1), 1, PartLength(k, i - 1)) \in Seq(Transfers)
          BY <4>2, <4>3, TransfersOnly
        <4>5. <<>> \in Seq(Transfers)
          OBVIOUS
        <4> QED
          BY <4>4, <4>5
      <3>3. ss = [i \in 1 .. G |-> ss[i]]
        OBVIOUS
      <3> HIDE DEF ss
      <3>4. ss \in [1 .. G -> Seq(Transfers)]
        BY <3>2, <3>3
      <3>5. ss \in Seq(Seq(Transfers))
        BY <1>1, <3>4, FunctionIsList
      <3>6. FlattenSeq(ss) \in Seq(Transfers)
        BY <3>5, FlattenTyped
      <3> QED
        BY <2>1, <2>2, <3>1, <3>6
    <2>3. CASE p # c
      <3> DEFINE A == Receive(c, Ack(k))
                 B == SendRaw(k, c, 1, l)
                 C == RecvRaw(k, c, 1, l)
      <3>1. AllreduceScript(k, me) = (A \o B) \o C
        BY <1>1, <2>1, <2>3 DEF AllreduceScript, GatherPart
      <3>2. A \in Seq(Transfers) /\ B \in Seq(Transfers) /\ C \in Seq(Transfers)
        BY <1>1, <1>3, FlitsTyped, TransfersOnly
      <3> HIDE DEF A, B, C
      <3>3. (A \o B) \o C = A \o (B \o C)
        BY <3>2, Regroup
      <3>4. B \o C \in Seq(Transfers)
        BY <3>2, ConcatProperties
      <3> QED
        BY <2>1, <2>3, <3>1, <3>3, <3>4 DEF A
    <2> QED
      BY <2>2, <2>3
  <1> QED
    BY <1>4, <1>5 DEF InGather

\* The script of MPI_Alltoall ends with its loop.
LEMMA AlltoallScriptIs ==
  ASSUME NEW k, IsCallNumber(k), program[k].op = "alltoall", NEW p \in Process
  PROVE  \E first \in Seq(Transfers) : Script(k, p) = first \o Exchange(k, p)
  <1> DEFINE f == Data(k, 1)
             c == CidFromComm(k, 0)
             G == GroupSize(k)
             g(r) == Data(k, IF r = 1 THEN 2 ELSE 1)
             ss == [i \in 1 .. G |-> IF i - 1 = 0 THEN <<>> ELSE Send(CidFromComm(k, i - 1), g(i - 1))]
             next == CidFromComm(k, (p + 1) % G)
             prev == CidFromComm(k, (p + G - 1) % G)
  <1>0. 0 \in Ranks(k)
    BY GroupIs DEF Ranks
  <1>1. p \in Members(k) /\ GroupRank(k, p) = p /\ G \in Nat /\ p \in Ranks(k)
    BY RingIsWorld, WorldIs, GroupIs
  <1>2. next \in Process /\ prev \in Process /\ c \in Process
    <2>1. next \in Members(k) /\ prev \in Members(k)
      BY <1>1, RingOf
    <2> QED
      BY <1>0, <2>1, GroupIs
  <1>3. f \in Flit /\ \A r : g(r) \in Flit
    <2>1. Data(k, 1) \in Flit /\ Data(k, 2) \in Flit
      BY FlitsTyped
    <2> QED
      BY <2>1
  <1>4. Script(k, p) = RingStart(k, p) \o Exchange(k, p)
    BY <1>1 DEF Script, Members, Comm, AlltoallScript
  <1>5. RingStart(k, p) = IF p = 0 THEN (Send(next, f) \o Receive(prev, f)) \o FlattenSeq(ss)
                          ELSE (Receive(prev, f) \o Send(next, f)) \o Receive(c, g(p))
    BY DEF RingStart, ForOthers
  <1>6. FlattenSeq(ss) \in Seq(Transfers)
    <2>1. \A i \in 1 .. G : ss[i] \in Seq(Transfers)
      <3> TAKE i \in 1 .. G
      <3>1. i - 1 \in Ranks(k)
        BY <1>1 DEF Ranks
      <3>2. CidFromComm(k, i - 1) \in Process /\ g(i - 1) \in Flit
        BY <1>3, <3>1, GroupIs
      <3> HIDE DEF g
      <3>3. Send(CidFromComm(k, i - 1), g(i - 1)) \in Seq(Transfers) /\ <<>> \in Seq(Transfers)
        BY <3>2, TransfersOnly
      <3> QED
        BY <3>3
    <2>2. ss = [i \in 1 .. G |-> ss[i]]
      OBVIOUS
    <2> HIDE DEF ss
    <2>3. ss \in [1 .. G -> Seq(Transfers)]
      BY <2>1, <2>2
    <2>4. ss \in Seq(Seq(Transfers))
      BY <1>1, <2>3, FunctionIsList
    <2> QED
      BY <2>4, FlattenTyped
  <1> HIDE DEF ss, next, prev, c, f, g
  <1>7. /\ Send(next, f) \in Seq(Transfers) /\ Receive(prev, f) \in Seq(Transfers)
        /\ Receive(c, g(p)) \in Seq(Transfers)
    BY <1>2, <1>3, TransfersOnly
  <1>8. /\ Send(next, f) \o Receive(prev, f) \in Seq(Transfers) /\ Receive(prev, f) \o Send(next, f) \in Seq(Transfers)
    BY <1>7, ConcatProperties
  <1>9. /\ (Send(next, f) \o Receive(prev, f)) \o FlattenSeq(ss) \in Seq(Transfers)
        /\ (Receive(prev, f) \o Send(next, f)) \o Receive(c, g(p)) \in Seq(Transfers)
    BY <1>6, <1>7, <1>8, ConcatProperties
  <1>10. RingStart(k, p) \in Seq(Transfers)
    BY <1>5, <1>9
  <1> QED
    BY <1>4, <1>10

\* The kinds of the steps.
LEMMA StepKinds ==
  ASSUME NEW k, NEW h \in StepSet(k)
  PROVE  /\ h.do \in {"send", "recv"} => h \in Transfers
         /\ h.do = "acks" => h \in AckLoops
         /\ h.do = "gather" => h \in GatherLoops(k)
         /\ h.do = "sendrecv" => h \in PairLoops
         /\ h.do = "alltoall" => h \in RingLoops(k)
  <1>1. h \in Transfers => h.do \in {"send", "recv"}
    BY DEF Transfers
  <1>2. h \in AckLoops => h.do = "acks"
    BY DEF AckLoops
  <1>3. h \in GatherLoops(k) => h.do = "gather"
    BY DEF GatherLoops
  <1>4. h \in PairLoops => h.do = "sendrecv"
    BY DEF PairLoops
  <1>5. h \in RingLoops(k) => h.do = "alltoall"
    BY DEF RingLoops
  <1> QED
    BY <1>1, <1>2, <1>3, <1>4, <1>5 DEF StepSet

\* Only the root of a call that gathers has the loop that asks, and has it first.
GatherLoop(k) == [do |-> "gather", lens |-> GatherLens(k, GatherRoot(k)), ack |-> 0]

LEMMA GatherFirst ==
  ASSUME NEW k, IsCallNumber(k), NEW p \in Process, NEW i \in 1 .. Len(Script(k, p)),
         Script(k, p)[i].do = "gather"
  PROVE  /\ i = 1 /\ InGather(k) /\ p = CidFromComm(k, GatherRoot(k))
         /\ Script(k, p)[1] = GatherLoop(k)
  <1> DEFINE s == Script(k, p)
             c == CidFromComm(k, GatherRoot(k))
             h == GatherLoop(k)
  <1>1. s \in Seq(StepSet(k)) /\ i \in 1 .. Len(s) /\ s[i].do = "gather"
    BY Matching
  <1>2. s[i] \in StepSet(k)
    BY <1>1, ElementOfSeq
  <1>3. InGather(k)
    <2>1. s[i] \in GatherLoops(k)
      BY <1>1, <1>2, StepKinds
    <2> QED
      BY <2>1 DEF GatherLoops
  <1>4. p \in Members(k)
    <2>1. p \notin Members(k) => s = <<>>
      BY DEF Script, Members, Comm
    <2> QED
      BY <1>1, <2>1
  <1>5. PICK after \in Seq(Transfers) :
           s = IF p = c THEN GatherStep(k, GatherRoot(k)) \o after ELSE Receive(c, Ack(k)) \o after
    BY <1>3, <1>4, GatherScriptIs
  <1>6. s \notin Seq(Transfers)
    <2>1. \A t \in Transfers : t.do # "gather"
      BY DEF Transfers
    <2> HIDE DEF s
    <2> QED
      BY <1>1, <2>1, ElementOfSeq
  <1>7. c \in Process
    BY GroupIs DEF GatherRoot, Ranks
  <1>8. p = c
    <2>1. Receive(c, Ack(k)) \in Seq(Transfers)
      BY <1>7, FlitsTyped, TransfersOnly
    <2>2. Receive(c, Ack(k)) \o after \in Seq(Transfers)
      BY <2>1, ConcatProperties
    <2> HIDE DEF s
    <2> QED
      BY <1>5, <1>6, <2>2
  <1>9. GatherStep(k, GatherRoot(k)) = <<h>> \/ GatherStep(k, GatherRoot(k)) = <<>>
    BY DEF GatherStep, Loop, GatherLoop
  <1>10. CASE GatherStep(k, GatherRoot(k)) = <<>>
    <2>1. <<>> \o after = after
      BY ConcatEmptySeq
    <2> HIDE DEF s
    <2> QED
      BY <1>5, <1>6, <1>8, <1>10, <2>1
  <1>11. CASE GatherStep(k, GatherRoot(k)) = <<h>>
    <2>1. s = <<h>> \o after
      BY <1>5, <1>8, <1>11
    <2> HIDE DEF s, h
    <2>2. s[1] = h /\ \A j \in 1 .. Len(s) : j # 1 => j - 1 \in 1 .. Len(after) /\ s[j] = after[j-1]
      BY <2>1
    <2>3. i = 1
      <3> SUFFICES ASSUME i # 1 PROVE FALSE
        OBVIOUS
      <3>1. s[i] \in Transfers
        BY <1>1, <2>2, ElementOfSeq
      <3> QED
        BY <1>1, <3>1 DEF Transfers
    <2> QED
      BY <1>3, <1>8, <2>2, <2>3 DEF s, h
  <1> QED
    BY <1>9, <1>10, <1>11

\* The others begin with waiting for it.
LEMMA GatherAsks ==
  ASSUME NEW k, IsCallNumber(k), InGather(k), NEW p \in Members(k),
         p # CidFromComm(k, GatherRoot(k))
  PROVE  /\ Script(k, p) # <<>>
         /\ Head(Script(k, p)) = [do |-> "recv", cid |-> CidFromComm(k, GatherRoot(k)), flit |-> Ack(k)]
  <1>1. PICK after \in Seq(Transfers) :
           Script(k, p) = IF p = CidFromComm(k, GatherRoot(k)) THEN GatherStep(k, GatherRoot(k)) \o after
                          ELSE Receive(CidFromComm(k, GatherRoot(k)), Ack(k)) \o after
    BY GatherScriptIs
  <1> DEFINE h == [do |-> "recv", cid |-> CidFromComm(k, GatherRoot(k)), flit |-> Ack(k)]
  <1>2. Script(k, p) = <<h>> \o after
    BY <1>1 DEF Receive
  <1> HIDE DEF h
  <1>3. <<h>> \o after # <<>> /\ Head(<<h>> \o after) = h
    OBVIOUS
  <1> QED
    BY <1>2, <1>3 DEF h

\* The loop of MPI_Alltoall is the last step.
LEMMA RingLast ==
  ASSUME NEW k, IsCallNumber(k), NEW p \in Process, NEW i \in 1 .. Len(Script(k, p)),
         Script(k, p)[i].do = "alltoall"
  PROVE  i = Len(Script(k, p))
  <1> DEFINE s == Script(k, p)
  <1>1. s \in Seq(StepSet(k)) /\ i \in 1 .. Len(s) /\ s[i].do = "alltoall"
    BY Matching
  <1>2. s[i] \in StepSet(k)
    BY <1>1, ElementOfSeq
  <1>3. program[k].op = "alltoall"
    <2>1. s[i] \in RingLoops(k)
      BY <1>1, <1>2, StepKinds
    <2> QED
      BY <2>1 DEF RingLoops
  <1>4. PICK first \in Seq(Transfers) : s = first \o Exchange(k, p)
    BY <1>3, AlltoallScriptIs
  <1>5. PICK h : Exchange(k, p) = <<>> \/ Exchange(k, p) = <<h>>
    BY DEF Exchange, Loop
  <1> HIDE DEF s
  <1>6. \A j \in 1 .. Len(first) : first[j].do # "alltoall"
    <2> TAKE j \in 1 .. Len(first)
    <2>1. first[j] \in Transfers
      BY ElementOfSeq
    <2> QED
      BY <2>1 DEF Transfers
  <1>7. CASE Exchange(k, p) = <<>>
    <2>1. s = first
      BY <1>4, <1>7, ConcatEmptySeq
    <2> QED
      BY <1>1, <1>6, <2>1
  <1>8. CASE Exchange(k, p) = <<h>>
    <2>1. s = first \o <<h>>
      BY <1>4, <1>8
    <2>2. Len(s) = Len(first) + 1 /\ \A j \in 1 .. Len(first) : s[j] = first[j]
      BY <2>1
    <2>3. i = Len(s)
      <3> SUFFICES ASSUME i # Len(s) PROVE FALSE
        OBVIOUS
      <3>1. i \in 1 .. Len(first)
        BY <1>1, <2>2
      <3> QED
        BY <1>1, <1>6, <2>2, <3>1
    <2> QED
      BY <2>3 DEF s
  <1> QED
    BY <1>5, <1>7, <1>8

-----------------------------------------------------------------------------
\* The flits of the calls after c.
LaterFlows(d, p, q, c) == [j \in 1 .. Len(program) - c |-> CallFlows(d, p, q)[c+j]]

LEMMA LaterList ==
  ASSUME program \in Programs, NEW c \in 0 .. Len(program), NEW p \in Process, NEW q \in Process,
         NEW d \in {"send", "recv"}
  PROVE  /\ Len(program) \in Nat
         /\ LaterFlows(d, p, q, c) \in Seq(Seq(Flit)) /\ Len(LaterFlows(d, p, q, c)) = Len(program) - c
         /\ \A j \in 1 .. Len(program) - c :
              LaterFlows(d, p, q, c)[j] = Flow(d, p, q, c + j, Script(c + j, p))
         /\ Later(d, p, q, c) = FlattenSeq(LaterFlows(d, p, q, c)) /\ Later(d, p, q, c) \in Seq(Flit)
  <1> DEFINE n == Len(program) - c
             F == LaterFlows(d, p, q, c)
  <1>1. program \in Seq(Parameters) /\ Len(program) \in Nat /\ n \in Nat
    <2>1. program \in Seq(Parameters)
      BY CallsAssumption
    <2> QED
      BY <2>1
  <1>2. \A j \in 1 .. n : Flow(d, p, q, c + j, Script(c + j, p)) \in Seq(Flit)
    <2> TAKE j \in 1 .. n
    <2>1. IsCallNumber(c + j)
      BY <1>1 DEF IsCallNumber
    <2>2. Script(c + j, p) \in Seq(StepSet(c + j))
      BY <2>1, Matching
    <2> QED
      BY <2>1, <2>2, FlowList
  <1>3. F = [j \in 1 .. n |-> Flow(d, p, q, c + j, Script(c + j, p))]
    <2>1. \A j \in 1 .. n : CallFlows(d, p, q)[c+j] = Flow(d, p, q, c + j, Script(c + j, p))
      <3> TAKE j \in 1 .. n
      <3>1. c + j \in 1 .. Len(program)
        BY <1>1
      <3> QED
        BY <3>1 DEF CallFlows
    <2> QED
      BY <2>1 DEF LaterFlows
  <1>4. Later(d, p, q, c) = FlattenSeq(F)
    BY DEF Later, LaterFlows
  <1> HIDE DEF F, n
  <1>5. F \in [1 .. n -> Seq(Flit)]
    BY <1>2, <1>3
  <1>6. F \in Seq(Seq(Flit)) /\ Len(F) = n
    BY <1>1, <1>5, FunctionIsList
  <1>7. FlattenSeq(F) \in Seq(Flit)
    BY <1>6, FlattenTyped
  <1> QED
    BY <1>1, <1>3, <1>4, <1>6, <1>7 DEF F, n

LEMMA LaterNext ==
  ASSUME program \in Programs, NEW c \in 0 .. Len(program) - 1, NEW p \in Process, NEW q \in Process,
         NEW d \in {"send", "recv"}
  PROVE  /\ IsCallNumber(c + 1)
         /\ Later(d, p, q, c) = Flow(d, p, q, c + 1, Script(c + 1, p)) \o Later(d, p, q, c + 1)
         /\ Flow(d, p, q, c + 1, Script(c + 1, p)) \in Seq(Flit) /\ Later(d, p, q, c + 1) \in Seq(Flit)
         /\ Later(d, p, q, c) \in Seq(Flit)
  <1> DEFINE n == Len(program) - c
             F == LaterFlows(d, p, q, c)
             T == LaterFlows(d, p, q, c + 1)
  <1>0. Len(program) \in Nat
    <2>1. program \in Seq(Parameters)
      BY CallsAssumption
    <2> QED
      BY <2>1
  <1>1. /\ n \in Nat /\ n >= 1 /\ c \in Int /\ c \in 0 .. Len(program) /\ c + 1 \in 0 .. Len(program)
        /\ Len(program) - c = n /\ Len(program) - (c + 1) = n - 1
    BY <1>0
  <1>2. IsCallNumber(c + 1)
    BY <1>0 DEF IsCallNumber
  <1> HIDE DEF n
  <1>3. /\ F \in Seq(Seq(Flit)) /\ Len(F) = n /\ Later(d, p, q, c) = FlattenSeq(F) /\ FlattenSeq(F) \in Seq(Flit)
        /\ \A j \in 1 .. n : F[j] = Flow(d, p, q, c + j, Script(c + j, p))
    BY <1>0, <1>1, LaterList
  <1>4. /\ T \in Seq(Seq(Flit)) /\ Len(T) = n - 1 /\ Later(d, p, q, c + 1) = FlattenSeq(T)
        /\ FlattenSeq(T) \in Seq(Flit)
        /\ \A j \in 1 .. n - 1 : T[j] = Flow(d, p, q, (c + 1) + j, Script((c + 1) + j, p))
    <2> DEFINE e == c + 1
               U == LaterFlows(d, p, q, e)
    <2>1. e \in 0 .. Len(program) /\ Len(program) - e = n - 1
      BY <1>1
    <2> HIDE DEF e
    <2>2. /\ U \in Seq(Seq(Flit)) /\ Len(U) = Len(program) - e /\ Later(d, p, q, e) = FlattenSeq(U)
          /\ Later(d, p, q, e) \in Seq(Flit)
          /\ \A j \in 1 .. Len(program) - e : U[j] = Flow(d, p, q, e + j, Script(e + j, p))
      BY <2>1, LaterList
    <2> HIDE DEF U
    <2>3. /\ Len(U) = n - 1 /\ FlattenSeq(U) \in Seq(Flit)
          /\ \A j \in 1 .. n - 1 : U[j] = Flow(d, p, q, e + j, Script(e + j, p))
      BY <2>1, <2>2
    <2> QED
      BY <2>2, <2>3 DEF e, U
  <1>5. \A j \in 1 .. n - 1 : j + 1 \in 1 .. n /\ c + (j + 1) = (c + 1) + j
    BY <1>0, <1>1
  <1>6. \A j \in 1 .. n - 1 : T[j] = F[j+1]
    <2> HIDE DEF F, T, n
    <2> QED
      BY <1>3, <1>4, <1>5
  <1> DEFINE S == Seq(Flit)
  <1>7. F \in Seq(S) /\ T \in Seq(S)
    BY <1>3, <1>4
  <1>8. F[1] = Flow(d, p, q, c + 1, Script(c + 1, p)) /\ F[1] \in Seq(Flit)
    <2>1. 1 \in 1 .. n
      BY <1>0, <1>1
    <2> HIDE DEF F, n
    <2> QED
      BY <1>3, <2>1, ElementOfSeq
  <1> HIDE DEF S, F, T, n
  <1>9. Tail(F) = T
    <2>1. Tail(F) \in Seq(S) /\ Len(Tail(F)) = n - 1 /\ \A j \in 1 .. n - 1 : Tail(F)[j] = F[j+1]
      BY <1>1, <1>3, <1>7
    <2> QED
      BY <1>4, <1>6, <1>7, <2>1, SeqEqual
  <1>10. F # <<>>
    BY <1>1, <1>3
  <1>11. FlattenSeq(F) = F[1] \o FlattenSeq(Tail(F))
    BY <1>3, <1>10, FlattenFirst
  <1> QED
    BY <1>2, <1>3, <1>4, <1>8, <1>9, <1>11

LEMMA LaterNone ==
  ASSUME program \in Programs, NEW p \in Process, NEW q \in Process, NEW d \in {"send", "recv"}
  PROVE  Later(d, p, q, Len(program)) = <<>>
  <1>0. Len(program) \in Nat
    <2>1. program \in Seq(Parameters)
      BY CallsAssumption
    <2> QED
      BY <2>1
  <1> DEFINE F == LaterFlows(d, p, q, Len(program))
  <1>1. Len(program) \in 0 .. Len(program) /\ Len(program) - Len(program) = 0
    BY <1>0
  <1>2. F \in Seq(Seq(Flit)) /\ Len(F) = 0 /\ Later(d, p, q, Len(program)) = FlattenSeq(F)
    BY <1>1, LaterList
  <1> HIDE DEF F
  <1>3. F = <<>>
    BY <1>2
  <1> QED
    BY <1>2, <1>3, FlattenEmpty

\* They are fewer the more calls are done,
LEMMA LaterShrinks ==
  ASSUME program \in Programs, NEW c \in 0 .. Len(program), NEW e \in c .. Len(program),
         NEW p \in Process, NEW q \in Process, NEW d \in {"send", "recv"}
  PROVE  Len(Later(d, p, q, e)) <= Len(Later(d, p, q, c))
  <1> DEFINE N == Len(program)
             P == {n \in Nat : c + n <= N => Len(Later(d, p, q, c + n)) <= Len(Later(d, p, q, c))}
  <1>0. N \in Nat /\ c \in Nat /\ c + 0 = c
    <2>1. program \in Seq(Parameters)
      BY CallsAssumption
    <2> QED
      BY <2>1
  <1>1. 0 \in P
    <2>1. Later(d, p, q, c) \in Seq(Flit)
      BY LaterList
    <2>2. Len(Later(d, p, q, c)) <= Len(Later(d, p, q, c))
      BY <2>1
    <2> QED
      BY <1>0, <2>2
  <1>2. ASSUME NEW n \in Nat, n \in P PROVE n + 1 \in P
    <2> SUFFICES ASSUME c + (n + 1) <= N
                 PROVE  Len(Later(d, p, q, c + (n + 1))) <= Len(Later(d, p, q, c))
      OBVIOUS
    <2>1. c + n \in 0 .. N - 1 /\ (c + n) + 1 = c + (n + 1) /\ c + n <= N
      BY <1>0
    <2> DEFINE x == c + n
               a == Later(d, p, q, x)
               b == Later(d, p, q, x + 1)
               f == Flow(d, p, q, x + 1, Script(x + 1, p))
    <2>2. a = f \o b /\ f \in Seq(Flit) /\ b \in Seq(Flit) /\ a \in Seq(Flit)
      BY <2>1, LaterNext
    <2>3. Len(a) <= Len(Later(d, p, q, c)) /\ Later(d, p, q, c) \in Seq(Flit)
      BY <1>2, <2>1, LaterList
    <2> HIDE DEF f, a, b
    <2>4. Len(b) <= Len(a)
      BY <2>2
    <2>5. Len(a) \in Nat /\ Len(b) \in Nat /\ Len(Later(d, p, q, c)) \in Nat
      BY <2>2, <2>3
    <2>6. Len(b) <= Len(Later(d, p, q, c))
      BY <2>3, <2>4, <2>5
    <2> QED
      BY <2>1, <2>6 DEF b
  <1>3. \A n \in Nat : n \in P
    <2> HIDE DEF P
    <2> QED
      BY <1>1, <1>2, Induction
  <1>4. e - c \in Nat /\ c + (e - c) = e /\ e <= N
    BY <1>0
  <1> QED
    BY <1>3, <1>4

\* and what a process sends is what the other one expects.
LEMMA LaterMatches ==
  ASSUME program \in Programs, NEW c \in 0 .. Len(program), NEW p \in Process, NEW q \in Process
  PROVE  Later("send", p, q, c) = Later("recv", q, p, c)
  <1> DEFINE n == Len(program) - c
             F == LaterFlows("send", p, q, c)
             T == LaterFlows("recv", q, p, c)
  <1>0. Len(program) \in Nat
    <2>1. program \in Seq(Parameters)
      BY CallsAssumption
    <2> QED
      BY <2>1
  <1>1. Later("send", p, q, c) = FlattenSeq(F) /\ Later("recv", q, p, c) = FlattenSeq(T)
    BY LaterList
  <1>2. ASSUME NEW j \in 1 .. n
        PROVE  Flow("send", p, q, c + j, Script(c + j, p)) = Flow("recv", q, p, c + j, Script(c + j, q))
    <2>1. IsCallNumber(c + j)
      BY <1>0 DEF IsCallNumber
    <2> QED
      BY <2>1, Matching
  <1>3. F = T
    <2>1. \A j \in 1 .. n : CallFlows("send", p, q)[c+j] = CallFlows("recv", q, p)[c+j]
      <3> TAKE j \in 1 .. n
      <3>1. c + j \in 1 .. Len(program)
        BY <1>0
      <3> QED
        BY <1>2, <3>1 DEF CallFlows
    <2> QED
      BY <2>1 DEF LaterFlows
  <1> HIDE DEF F, T
  <1> QED
    BY <1>1, <1>3

-----------------------------------------------------------------------------
\* What a step of the program leaves alone.

LEMMA ScriptStays ==
  ASSUME program' = program, NEW CONSTANT k, NEW CONSTANT p
  PROVE  Script(k, p)' = Script(k, p)
  BY SMTT(100) DEF Script, Comm, CidFromComm, GroupSize, GroupRank, PartLength, SendScript, RecvScript,
     SendrecvScript, BcastScript, ScatterScript, GatherScript, AllreduceScript, BarrierScript,
     AlltoallScript, SendRaw, RecvRaw, Send, Receive, ForOthers, Data, HeadFlit, Ack, Loop, Finished,
     GatherStep, GatherPart, GatherLens, RecvAcked, SendAcked, RingStart, Exchange, InStart, Left

LEMMA FlowStays ==
  ASSUME program' = program, NEW CONSTANT d, NEW CONSTANT p, NEW CONSTANT q, NEW CONSTANT k, NEW CONSTANT s
  PROVE  Flow(d, p, q, k, s)' = Flow(d, p, q, k, s)
  BY SMTT(100) DEF Flow, StepFlow, DataSeq, Data, Ack, PartLength, GroupRank, GroupSize, CidFromComm, Comm

LEMMA LaterStays ==
  ASSUME program' = program, NEW CONSTANT d, NEW CONSTANT p, NEW CONSTANT q, NEW CONSTANT c
  PROVE  Later(d, p, q, c)' = Later(d, p, q, c)
  <1>1. ASSUME NEW CONSTANT k
        PROVE  Flow(d, p, q, k, Script(k, p))' = Flow(d, p, q, k, Script(k, p))
    <2>1. Script(k, p)' = Script(k, p)
      BY ScriptStays
    <2> QED
      BY <2>1, SMTT(100) DEF Flow, StepFlow, DataSeq, Data, Ack, PartLength, GroupRank, GroupSize, CidFromComm, Comm
  <1>2. CallFlows(d, p, q)' = CallFlows(d, p, q)
    BY <1>1 DEF CallFlows
  <1> QED
    BY <1>2 DEF Later

-----------------------------------------------------------------------------
\* The invariant.

\* The flits that process p will send to q, or receive from it, if the steps s of
\* call k are left.
Coming(d, p, q, k, s) == Flow(d, p, q, k, s) \o Later(d, p, q, k)

\* A process whose part is asked for waits for that, or has begun.
Asked(p, k, s) ==
  LET root == CidFromComm(k, GatherRoot(k)) IN
  InGather(k) /\ p \in Members(k) /\ p # root =>
    s = Script(k, p) \/ Len(Flow("recv", p, root, k, s)) < Len(Flow("recv", p, root, k, Script(k, p)))

\* The loop that gathers is the first step, and has received nothing from those
\* that have not been asked.
GatherOk(k, h) == \A q \in Process : h.ack <= q => h.lens[q] = GatherLens(k, GatherRoot(k))[q]
Gathering(p, k, s) ==
  \A i \in 1 .. Len(s) : s[i].do = "gather" =>
    /\ i = 1 /\ InGather(k) /\ p = CidFromComm(k, GatherRoot(k))
    /\ Script(k, p) # <<>> /\ Head(Script(k, p)) = GatherLoop(k) /\ Tail(s) = Tail(Script(k, p))
    /\ GatherOk(k, s[1])

\* What is left of a call.
ScriptOk(p, k, s) ==
  IF k = 0 THEN s = <<>>
  ELSE /\ s \in Seq(StepSet(k))
       /\ \A d \in {"send", "recv"}, q \in Process : Len(Flow(d, p, q, k, s)) <= Len(Flow(d, p, q, k, Script(k, p)))
       /\ Asked(p, k, s) /\ Gathering(p, k, s)
       /\ \A i \in 1 .. Len(s) : s[i].do = "alltoall" => i = Len(s)

\* The inductive invariant.
CallsInv ==
  /\ program \in Programs /\ ~aborted /\ ~mixed
  /\ calls \in [Process -> 0 .. Len(program)]
  /\ script = [p \in Process |-> script[p]]
  /\ chan \in [Process -> [Process -> Seq(Flit)]]
  /\ \A p \in Process : ScriptOk(p, calls[p], script[p])
  /\ \A p, q \in Process :
       chan[p][q] \o Coming("send", p, q, calls[p], script[p]) = Coming("recv", q, p, calls[q], script[q])

-----------------------------------------------------------------------------
LEMMA ComingStays ==
  ASSUME program' = program, NEW CONSTANT d, NEW CONSTANT p, NEW CONSTANT q, NEW CONSTANT k, NEW CONSTANT s
  PROVE  Coming(d, p, q, k, s)' = Coming(d, p, q, k, s)
  BY FlowStays, LaterStays DEF Coming

LEMMA ScriptOkStays ==
  ASSUME program' = program, NEW CONSTANT p, NEW CONSTANT k, NEW CONSTANT s
  PROVE  ScriptOk(p, k, s)' <=> ScriptOk(p, k, s)
  <1>1. /\ GatherRoot(k)' = GatherRoot(k) /\ InGather(k)' = InGather(k) /\ Members(k)' = Members(k)
        /\ CidFromComm(k, GatherRoot(k))' = CidFromComm(k, GatherRoot(k))
        /\ Script(k, p)' = Script(k, p) /\ StepSet(k)' = StepSet(k)
    BY ScriptStays DEF GatherRoot, InGather, Members, CidFromComm, Comm, StepSet, Transfers, AckLoops,
       GatherLoops, PairLoops, RingLoops, Flit
  <1>2. GatherLens(k, GatherRoot(k))' = GatherLens(k, GatherRoot(k))
    BY <1>1 DEF GatherLens, GatherRoot, GroupRank, GroupSize, CidFromComm, Comm, PartLength
  <1>3. GatherLoop(k)' = GatherLoop(k)
    BY <1>2 DEF GatherLoop
  <1>4. \A d, q : /\ Flow(d, p, q, k, s)' = Flow(d, p, q, k, s)
                  /\ Flow(d, p, q, k, Script(k, p))' = Flow(d, p, q, k, Script(k, p))
    BY <1>1, FlowStays
  <1>5. Asked(p, k, s)' <=> Asked(p, k, s)
    BY <1>1, <1>4 DEF Asked
  <1>6. Gathering(p, k, s)' <=> Gathering(p, k, s)
    BY <1>1, <1>2, <1>3 DEF Gathering, GatherOk
  <1> QED
    BY <1>1, <1>4, <1>5, <1>6 DEF ScriptOk

\* What is coming is made of flits.
LEMMA ComingTyped ==
  ASSUME program \in Programs, NEW k \in 0 .. Len(program), NEW s, NEW p \in Process, NEW q \in Process,
         NEW d \in {"send", "recv"}, ScriptOk(p, k, s)
  PROVE  /\ Flow(d, p, q, k, s) \in Seq(Flit) /\ Later(d, p, q, k) \in Seq(Flit)
         /\ Coming(d, p, q, k, s) \in Seq(Flit)
         /\ Len(Coming(d, p, q, k, s)) = Len(Flow(d, p, q, k, s)) + Len(Later(d, p, q, k))
         /\ k # 0 => IsCallNumber(k) /\ s \in Seq(StepSet(k))
         /\ s # <<>> => k # 0
  <1>0. Len(program) \in Nat
    <2>1. program \in Seq(Parameters)
      BY CallsAssumption
    <2> QED
      BY <2>1
  <1>1. k # 0 => IsCallNumber(k) /\ s \in Seq(StepSet(k))
    BY <1>0 DEF IsCallNumber, ScriptOk
  <1>2. k = 0 => s = <<>>
    BY DEF ScriptOk
  <1>3. Flow(d, p, q, k, s) \in Seq(Flit)
    <2>1. CASE k = 0
      <3>1. s = <<>>
        BY <1>2, <2>1
      <3>2. Flow(d, p, q, k, <<>>) = <<>>
        BY FlowEmpty
      <3> QED
        BY <3>1, <3>2, NoFlits
    <2>2. CASE k # 0
      BY <1>1, <2>2, FlowList
    <2> QED
      BY <2>1, <2>2
  <1>4. Later(d, p, q, k) \in Seq(Flit)
    BY LaterList
  <1> QED
    BY <1>1, <1>2, <1>3, <1>4 DEF Coming

\* Sequences of flits.
LEMMA FlitsRegroup == \A a, b, c \in Seq(Flit) : (a \o b) \o c = a \o (b \o c) /\ a \o b \in Seq(Flit)
  BY Regroup, ConcatProperties

LEMMA FlitAppended ==
  ASSUME NEW a \in Seq(Flit), NEW u \in Seq(Flit), NEW f \in Flit
  PROVE  Append(a, f) \o u = a \o (<<f>> \o u)
  OBVIOUS

LEMMA FlitTaken ==
  ASSUME NEW a \in Seq(Flit), NEW u \in Seq(Flit), NEW v \in Seq(Flit), NEW f \in Flit,
         a # <<>>, a \o u = <<f>> \o v
  PROVE  Head(a) = f /\ Tail(a) \o u = v
  <1>1. (a \o u)[1] = a[1] /\ (<<f>> \o v)[1] = f /\ Head(a) = a[1]
    OBVIOUS
  <1>2. Tail(a \o u) = Tail(a) \o u /\ Tail(<<f>> \o v) = v
    <2>1. Tail(<<f>> \o v) = v
      OBVIOUS
    <2>2. a = <<Head(a)>> \o Tail(a) /\ Tail(a) \in Seq(Flit) /\ Head(a) \in Flit
      OBVIOUS
    <2> DEFINE h == Head(a)
               t == Tail(a)
    <2> HIDE DEF h, t
    <2>3. a \o u = <<h>> \o (t \o u)
      BY <2>2, FlitsRegroup DEF h, t
    <2>4. Tail(<<h>> \o (t \o u)) = t \o u
      BY <2>2 DEF h, t
    <2> QED
      BY <2>1, <2>3, <2>4 DEF h, t
  <1> QED
    BY <1>1, <1>2

-----------------------------------------------------------------------------
\* What is left of a call after a step.

\* The step h may become u, nothing or a loop of the same kind,
StepBecomes(p, k, h, u) ==
  /\ u \in Seq(StepSet(k)) /\ Len(u) <= 1
  /\ h.do \in {"send", "recv"} => u = <<>>
  /\ \A i \in 1 .. Len(u) : u[i].do = h.do /\ (h.do = "gather" => GatherOk(k, u[i]))

Moved(d, c, f, e, q) == IF e = d /\ q = c THEN <<f>> ELSE <<>>

\* and in between p sends to c the flit f (d is "send"), receives it from c ("recv"), or
\* does neither.
Puts(d, p, k, h, u, c, f) ==
  /\ c \in Process /\ f \in Flit
  /\ \A e \in {"send", "recv"}, q \in Process :
       StepFlow(e, p, q, k, h) = Moved(d, c, f, e, q) \o Flow(e, p, q, k, u)

\* The first of the steps s becomes u.
Moves(d, p, k, s, u, c, f) ==
  /\ s \in Seq(StepSet(k)) /\ s # <<>>
  /\ StepBecomes(p, k, Head(s), u) /\ Puts(d, p, k, Head(s), u, c, f)

\* Of the flits of the steps s come first the flits x, then those of the steps t.
Splits(e, p, q, k, s, x, t) ==
  /\ x \in Seq(Flit) /\ t \in Seq(StepSet(k)) /\ Flow(e, p, q, k, t) \in Seq(Flit)
  /\ Flow(e, p, q, k, s) = x \o Flow(e, p, q, k, t)

\* What is left after a step.
LEMMA StepLeaves ==
  ASSUME NEW k, IsCallNumber(k), NEW p \in Process, NEW s, NEW d, NEW u, NEW c, NEW f,
         Moves(d, p, k, s, u, c, f),
         NEW e \in {"send", "recv"}, NEW q \in Process
  PROVE  Splits(e, p, q, k, s, Moved(d, c, f, e, q), u \o Tail(s))
  <1> DEFINE x == Moved(d, c, f, e, q)
             t == u \o Tail(s)
  <1>0. s \in Seq(StepSet(k)) /\ s # <<>>
    BY DEF Moves
  <1>1. f \in Flit /\ StepFlow(e, p, q, k, Head(s)) = x \o Flow(e, p, q, k, u)
    BY DEF Puts, Moves
  <1>2. u \in Seq(StepSet(k))
    BY DEF StepBecomes, Moves
  <1>3. Tail(s) \in Seq(StepSet(k))
    BY <1>0
  <1>4. x \in Seq(Flit)
    BY <1>1 DEF Moved
  <1>5. Flow(e, p, q, k, s) = StepFlow(e, p, q, k, Head(s)) \o Flow(e, p, q, k, Tail(s))
    BY <1>0, FlowFirst
  <1>6. /\ t \in Seq(StepSet(k)) /\ Flow(e, p, q, k, t) = Flow(e, p, q, k, u) \o Flow(e, p, q, k, Tail(s))
        /\ Flow(e, p, q, k, u) \in Seq(Flit) /\ Flow(e, p, q, k, Tail(s)) \in Seq(Flit)
    <2> DEFINE v == Tail(s)
    <2>1. v \in Seq(StepSet(k)) /\ t = u \o v
      BY <1>3
    <2> HIDE DEF v, t
    <2>2. /\ u \o v \in Seq(StepSet(k))
          /\ Flow(e, p, q, k, u \o v) = Flow(e, p, q, k, u) \o Flow(e, p, q, k, v)
          /\ Flow(e, p, q, k, u) \in Seq(Flit) /\ Flow(e, p, q, k, v) \in Seq(Flit)
      BY <1>2, <2>1, FlowTwo
    <2> QED
      BY <2>1, <2>2 DEF v
  <1> HIDE DEF x, t
  <1>7. /\ (x \o Flow(e, p, q, k, u)) \o Flow(e, p, q, k, Tail(s)) = x \o (Flow(e, p, q, k, u) \o Flow(e, p, q, k, Tail(s)))
        /\ Flow(e, p, q, k, u) \o Flow(e, p, q, k, Tail(s)) \in Seq(Flit)
    BY <1>4, <1>6, FlitsRegroup
  <1>8. Flow(e, p, q, k, s) = x \o Flow(e, p, q, k, t) /\ Flow(e, p, q, k, t) \in Seq(Flit)
    BY <1>1, <1>5, <1>6, <1>7
  <1> QED
    BY <1>4, <1>6, <1>8 DEF x, t, Splits

\* The places of what is left.
LEMMA PlacesLeft ==
  ASSUME NEW S, NEW s \in Seq(S), s # <<>>, NEW u \in Seq(S), Len(u) <= 1, NEW i \in 1 .. Len(u \o Tail(s))
  PROVE  /\ i <= Len(u) => i = 1 /\ Len(u) = 1 /\ (u \o Tail(s))[i] = u[1] /\ Tail(u \o Tail(s)) = Tail(s)
         /\ i > Len(u) => i - Len(u) + 1 \in 2 .. Len(s) /\ (u \o Tail(s))[i] = s[i - Len(u) + 1]
         /\ Len(u \o Tail(s)) = Len(u) + Len(s) - 1
         /\ Head(s) = s[1] /\ Len(s) \in Nat \ {0} /\ Len(u) \in {0, 1}
  <1>1. Tail(s) \in Seq(S) /\ Len(Tail(s)) = Len(s) - 1 /\ \A j \in 1 .. Len(s) - 1 : Tail(s)[j] = s[j+1]
    OBVIOUS
  <1>2. Len(u) \in {0, 1} /\ Head(s) = s[1] /\ Len(s) \in Nat \ {0}
    <2> DEFINE m == Len(u)
               n == Len(s)
    <2>1. m \in Nat /\ m <= 1 /\ n \in Nat /\ n # 0 /\ Head(s) = s[1]
      OBVIOUS
    <2> HIDE DEF m, n
    <2>2. m \in {0, 1} /\ n \in Nat \ {0}
      BY <2>1
    <2> QED
      BY <2>1, <2>2 DEF m, n
  <1> DEFINE t == Tail(s)
  <1> HIDE DEF t
  <1>3. Len(u \o t) = Len(u) + Len(t) /\ t \in Seq(S)
    BY <1>1 DEF t
  <1>4. i \in 1 .. Len(u) + Len(t)
    BY <1>3 DEF t
  <1>5. ASSUME i <= Len(u) PROVE i = 1 /\ Len(u) = 1 /\ (u \o t)[i] = u[1] /\ Tail(u \o t) = t
    <2>1. i = 1 /\ Len(u) = 1 /\ (u \o t)[i] = u[1]
      BY <1>2, <1>3, <1>4, <1>5
    <2>2. u = <<u[1]>> /\ u[1] \in S
      BY <2>1
    <2>3. Tail(<<u[1]>> \o t) = t
      BY <2>2, <1>3
    <2> QED
      BY <2>1, <2>2, <2>3
  <1>6. ASSUME i > Len(u) PROVE i - Len(u) \in 1 .. Len(t) /\ (u \o t)[i] = t[i - Len(u)]
    BY <1>2, <1>3, <1>4, <1>6
  <1>7. ASSUME i > Len(u) PROVE i - Len(u) + 1 \in 2 .. Len(s) /\ (u \o t)[i] = s[i - Len(u) + 1]
    BY <1>1, <1>2, <1>6, <1>7 DEF t
  <1> QED
    BY <1>1, <1>2, <1>3, <1>5, <1>7 DEF t

LEMMA ScriptOkKept ==
  ASSUME NEW k, IsCallNumber(k), NEW p \in Process, NEW s, ScriptOk(p, k, s),
         NEW d, NEW u, NEW c, NEW f, Moves(d, p, k, s, u, c, f)
  PROVE  ScriptOk(p, k, u \o Tail(s))
  <1>0. k # 0 /\ k \in Nat /\ program \in Programs
    BY DEF IsCallNumber
  <1>1. /\ s \in Seq(StepSet(k)) /\ Asked(p, k, s) /\ Gathering(p, k, s)
        /\ \A e \in {"send", "recv"}, q \in Process : Len(Flow(e, p, q, k, s)) <= Len(Flow(e, p, q, k, Script(k, p)))
        /\ \A i \in 1 .. Len(s) : s[i].do = "alltoall" => i = Len(s)
    BY <1>0 DEF ScriptOk
  <1>2. u \in Seq(StepSet(k)) /\ Len(u) <= 1 /\ s # <<>>
    BY DEF StepBecomes, Moves
  <1> DEFINE t == u \o Tail(s)
  <1>3. t \in Seq(StepSet(k))
    BY <1>1, <1>2
  <1>4. ASSUME NEW e \in {"send", "recv"}, NEW q \in Process
        PROVE  /\ Flow(e, p, q, k, t) \in Seq(Flit)
               /\ Flow(e, p, q, k, s) = Moved(d, c, f, e, q) \o Flow(e, p, q, k, t)
               /\ Moved(d, c, f, e, q) \in Seq(Flit)
    <2>1. Splits(e, p, q, k, s, Moved(d, c, f, e, q), u \o Tail(s))
      BY StepLeaves
    <2> QED
      BY <2>1 DEF Splits
  <1>5. Script(k, p) \in Seq(StepSet(k))
    BY Matching
  <1>6. ASSUME NEW e \in {"send", "recv"}, NEW q \in Process
        PROVE  /\ Len(Flow(e, p, q, k, t)) <= Len(Flow(e, p, q, k, s))
               /\ Len(Flow(e, p, q, k, t)) \in Nat /\ Len(Flow(e, p, q, k, s)) \in Nat
               /\ Len(Flow(e, p, q, k, Script(k, p))) \in Nat
               /\ Len(Flow(e, p, q, k, t)) <= Len(Flow(e, p, q, k, Script(k, p)))
    <2> DEFINE x == Moved(d, c, f, e, q)
               m == Flow(e, p, q, k, t)
               n == Flow(e, p, q, k, s)
               o == Flow(e, p, q, k, Script(k, p))
    <2>1. m \in Seq(Flit) /\ n = x \o m /\ x \in Seq(Flit)
      BY <1>4
    <2>2. Len(n) <= Len(o)
      BY <1>1
    <2>3. o \in Seq(Flit)
      BY <1>5, FlowList
    <2> HIDE DEF x, m, n, o
    <2>4. Len(m) <= Len(n) /\ Len(m) \in Nat /\ Len(n) \in Nat /\ Len(o) \in Nat
      BY <2>1, <2>3
    <2>5. Len(m) <= Len(o)
      BY <2>2, <2>4
    <2> QED
      BY <2>4, <2>5 DEF m, n, o
  <1>7. Asked(p, k, t)
    <2> DEFINE root == CidFromComm(k, GatherRoot(k))
    <2>1. SUFFICES ASSUME InGather(k), p \in Members(k), p # root
                   PROVE  Len(Flow("recv", p, root, k, t)) < Len(Flow("recv", p, root, k, Script(k, p)))
      BY DEF Asked
    <2>0. root \in Process
      <3>1. Head(Script(k, p)) = [do |-> "recv", cid |-> root, flit |-> Ack(k)] /\ Script(k, p) # <<>>
        BY <2>1, GatherAsks
      <3>2. Head(Script(k, p)) \in StepSet(k) /\ Head(Script(k, p)).do = "recv" /\ Head(Script(k, p)).cid = root
        BY <3>1, <1>5
      <3>3. Head(Script(k, p)) \in Transfers
        BY <3>2, StepKinds
      <3> QED
        BY <3>2, <3>3 DEF Transfers
    <2>2. s = Script(k, p) \/ Len(Flow("recv", p, root, k, s)) < Len(Flow("recv", p, root, k, Script(k, p)))
      BY <1>1, <2>1 DEF Asked
    <2>3. CASE s = Script(k, p)
      <3>1. Head(s) = [do |-> "recv", cid |-> root, flit |-> Ack(k)]
        BY <2>1, <2>3, GatherAsks
      <3>2. u = <<>>
        BY <3>1 DEF StepBecomes, Moves
      <3>3. StepFlow("recv", p, root, k, Head(s)) = <<Ack(k)>>
        BY <3>1 DEF StepFlow
      <3>4. Flow("recv", p, root, k, s) = <<Ack(k)>> \o Flow("recv", p, root, k, Tail(s))
        <4>1. s \in Seq(StepSet(k)) /\ root \in Process
          BY <1>1, <2>0
        <4> HIDE DEF root
        <4>2. Flow("recv", p, root, k, s) = StepFlow("recv", p, root, k, Head(s)) \o Flow("recv", p, root, k, Tail(s))
          BY <4>1, <1>2, FlowFirst
        <4> QED
          BY <3>3, <4>2
      <3>5. t = Tail(s)
        BY <1>1, <3>2
      <3>6. Flow("recv", p, root, k, t) \in Seq(Flit)
        BY <1>4, <2>0
      <3>7. <<Ack(k)>> \in Seq(Flit)
        BY FlitsTyped
      <3> DEFINE m == Flow("recv", p, root, k, t)
                 a == Ack(k)
      <3>8. Flow("recv", p, root, k, s) = <<a>> \o m /\ m \in Seq(Flit) /\ <<a>> \in Seq(Flit)
        BY <3>4, <3>5, <3>6, <3>7
      <3> HIDE DEF m, a
      <3>9. Len(m) < Len(<<a>> \o m)
        BY <3>8
      <3> QED
        BY <2>3, <3>8, <3>9 DEF m
    <2>4. CASE Len(Flow("recv", p, root, k, s)) < Len(Flow("recv", p, root, k, Script(k, p)))
      <3> DEFINE m == Len(Flow("recv", p, root, k, t))
                 n == Len(Flow("recv", p, root, k, s))
                 o == Len(Flow("recv", p, root, k, Script(k, p)))
      <3>1. m <= n /\ m \in Nat /\ n \in Nat /\ o \in Nat /\ n < o
        BY <1>6, <2>0, <2>4
      <3> HIDE DEF m, n, o
      <3>2. m < o
        BY <3>1
      <3> QED
        BY <3>2 DEF m, o
    <2> QED
      BY <2>2, <2>3, <2>4
  <1>8. Gathering(p, k, t)
    <2>1. SUFFICES ASSUME NEW i \in 1 .. Len(t), t[i].do = "gather"
                   PROVE  /\ i = 1 /\ InGather(k) /\ p = CidFromComm(k, GatherRoot(k))
                          /\ Script(k, p) # <<>> /\ Head(Script(k, p)) = GatherLoop(k)
                          /\ Tail(t) = Tail(Script(k, p))
                          /\ GatherOk(k, t[1])
      BY DEF Gathering
    <2>2. CASE i <= Len(u)
      <3>1. i = 1 /\ Len(u) = 1 /\ t[i] = u[1] /\ Tail(t) = Tail(s) /\ Head(s) = s[1] /\ 1 \in 1 .. Len(s)
        BY <1>1, <1>2, <2>2, PlacesLeft
      <3>2. u[1].do = Head(s).do /\ (Head(s).do = "gather" => GatherOk(k, u[1]))
        BY <3>1 DEF StepBecomes, Moves
      <3>3. s[1].do = "gather" /\ GatherOk(k, t[1])
        BY <2>1, <3>1, <3>2
      <3> QED
        BY <1>1, <3>1, <3>3 DEF Gathering
    <2>3. CASE i > Len(u)
      <3>1. i - Len(u) + 1 \in 2 .. Len(s) /\ t[i] = s[i - Len(u) + 1]
        BY <1>1, <1>2, <2>3, PlacesLeft
      <3>2. i - Len(u) + 1 \in 1 .. Len(s) /\ i - Len(u) + 1 # 1
        BY <3>1
      <3> QED
        BY <1>1, <2>1, <3>1, <3>2 DEF Gathering
    <2> QED
      BY <1>2, <2>2, <2>3
  <1>9. ASSUME NEW i \in 1 .. Len(t), t[i].do = "alltoall" PROVE i = Len(t)
    <2>0. Len(t) = Len(u) + Len(s) - 1 /\ Len(u) \in {0, 1} /\ Len(s) \in Nat \ {0}
      BY <1>1, <1>2, PlacesLeft
    <2>1. CASE i <= Len(u)
      <3>1. i = 1 /\ Len(u) = 1 /\ t[i] = u[1] /\ Head(s) = s[1]
        BY <1>1, <1>2, <2>1, PlacesLeft
      <3>2. u[1].do = Head(s).do
        BY <3>1 DEF StepBecomes, Moves
      <3>3. 1 = Len(s)
        BY <1>1, <1>9, <2>0, <3>1, <3>2
      <3> QED
        BY <2>0, <3>1, <3>3
    <2>2. CASE i > Len(u)
      <3>1. i - Len(u) + 1 \in 2 .. Len(s) /\ t[i] = s[i - Len(u) + 1]
        BY <1>1, <1>2, <2>2, PlacesLeft
      <3>2. i - Len(u) + 1 \in 1 .. Len(s)
        BY <3>1
      <3>3. i - Len(u) + 1 = Len(s)
        BY <1>1, <1>9, <3>1, <3>2
      <3> QED
        BY <2>0, <3>3
    <2> QED
      BY <2>0, <2>1, <2>2
  <1> QED
    BY <1>0, <1>3, <1>6, <1>7, <1>8, <1>9 DEF ScriptOk

-----------------------------------------------------------------------------
\* A step keeps the invariant.

\* The channels after a step.
Channels(d, p, c, f) ==
  /\ chan' \in [Process -> [Process -> Seq(Flit)]]
  /\ \A a, b \in Process :
       /\ d = "send" /\ a = p /\ b = c => chan'[a][b] = Append(chan[a][b], f)
       /\ d = "recv" /\ a = c /\ b = p => chan[a][b] # <<>> /\ chan'[a][b] = Tail(chan[a][b])
       /\ ~(d = "send" /\ a = p /\ b = c) /\ ~(d = "recv" /\ a = c /\ b = p) => chan'[a][b] = chan[a][b]

\* The flits m are first the flits x, then the flits n.
Joins(m, x, n) == x \in Seq(Flit) /\ n \in Seq(Flit) /\ m = x \o n

LEMMA TailJoined ==
  ASSUME NEW a \in Seq(Flit), NEW u \in Seq(Flit), a # <<>>
  PROVE  Tail(a \o u) = Tail(a) \o u
  <1>1. a = <<Head(a)>> \o Tail(a) /\ Tail(a) \in Seq(Flit) /\ Head(a) \in Flit
    OBVIOUS
  <1> DEFINE h == Head(a)
             t == Tail(a)
  <1> HIDE DEF h, t
  <1>2. a \o u = <<h>> \o (t \o u)
    BY <1>1, FlitsRegroup DEF h, t
  <1>3. Tail(<<h>> \o (t \o u)) = t \o u
    BY <1>1 DEF h, t
  <1> QED
    BY <1>2, <1>3 DEF h, t

LEMMA JoinTaken ==
  ASSUME NEW a \in Seq(Flit), NEW u \in Seq(Flit), NEW f \in Flit, NEW v, NEW x, x = <<f>>, NEW m,
         a # <<>>, m = a \o u, Joins(m, x, v)
  PROVE  Tail(a) \o u = v
  <1>1. m = <<f>> \o v /\ v \in Seq(Flit)
    BY DEF Joins
  <1>2. Tail(<<f>> \o v) = v
    BY <1>1
  <1>3. Tail(m) = v
    BY <1>1, <1>2
  <1>4. Tail(a \o u) = Tail(a) \o u
    BY TailJoined
  <1> QED
    BY <1>3, <1>4

\* What a process sends and receives in its next steps is the same as what it would
\* send and receive otherwise.
LEMMA ComingMoves ==
  ASSUME program \in Programs, NEW k \in 1 .. Len(program), NEW p \in Process, NEW s, ScriptOk(p, k, s),
         NEW d, NEW u, NEW c, NEW f, Moves(d, p, k, s, u, c, f),
         NEW e \in {"send", "recv"}, NEW q \in Process
  PROVE  Joins(Coming(e, p, q, k, s), Moved(d, c, f, e, q), Coming(e, p, q, k, u \o Tail(s)))
  <1> DEFINE x == Moved(d, c, f, e, q)
             t == u \o Tail(s)
             m == Flow(e, p, q, k, t)
             n == Later(e, p, q, k)
  <1>1. IsCallNumber(k)
    BY DEF IsCallNumber
  <1>2. Splits(e, p, q, k, s, x, t)
    BY <1>1, StepLeaves
  <1>3. x \in Seq(Flit) /\ m \in Seq(Flit) /\ Flow(e, p, q, k, s) = x \o m
    BY <1>2 DEF Splits
  <1>4. Len(program) \in Nat
    BY CallsAssumption
  <1>5. k \in 0 .. Len(program)
    BY <1>4
  <1>6. n \in Seq(Flit)
    BY <1>5, LaterList
  <1>7. Coming(e, p, q, k, s) = (x \o m) \o n /\ Coming(e, p, q, k, t) = m \o n
    BY <1>3 DEF Coming
  <1> HIDE DEF x, t, m, n
  <1>8. (x \o m) \o n = x \o (m \o n) /\ m \o n \in Seq(Flit)
    BY <1>3, <1>6, FlitsRegroup
  <1>9. x \in Seq(Flit) /\ Coming(e, p, q, k, t) \in Seq(Flit) /\ Coming(e, p, q, k, s) = x \o Coming(e, p, q, k, t)
    BY <1>3, <1>7, <1>8
  <1> QED
    BY <1>9 DEF x, t, Joins

\* The head of a channel is the flit that is waited for.
LEMMA TakesTheirs ==
  ASSUME CallsInv, NEW p \in Process, NEW u, NEW c \in Process, NEW f,
         Moves("recv", p, calls[p], script[p], u, c, f), chan[c][p] # <<>>
  PROVE  Head(chan[c][p]) = f
  <1>1. /\ program \in Programs /\ calls[p] \in 0 .. Len(program) /\ calls[c] \in 0 .. Len(program)
        /\ ScriptOk(p, calls[p], script[p]) /\ ScriptOk(c, calls[c], script[c])
        /\ chan[c][p] \in Seq(Flit)
        /\ chan[c][p] \o Coming("send", c, p, calls[c], script[c]) = Coming("recv", p, c, calls[p], script[p])
    BY DEF CallsInv
  <1>2. script[p] # <<>> /\ f \in Flit
    BY DEF Moves, Puts
  <1>3. Coming("send", c, p, calls[c], script[c]) \in Seq(Flit)
    BY <1>1, ComingTyped
  <1>4. calls[p] # 0 /\ Len(program) \in Nat
    BY <1>1, <1>2, CallsAssumption DEF ScriptOk
  <1>5. calls[p] \in 1 .. Len(program)
    BY <1>1, <1>4
  <1> DEFINE k == calls[p]
             s == script[p]
             t == u \o Tail(s)
             y == Coming("recv", p, c, k, t)
             v == Coming("send", c, p, calls[c], script[c])
             ch == chan[c][p]
  <1>6. Moved("recv", c, f, "recv", c) \o y = Coming("recv", p, c, k, s) /\ y \in Seq(Flit)
    <2>1. k \in 1 .. Len(program) /\ ScriptOk(p, k, s) /\ Moves("recv", p, k, s, u, c, f)
      BY <1>1, <1>5
    <2>2. Joins(Coming("recv", p, c, k, s), Moved("recv", c, f, "recv", c), Coming("recv", p, c, k, t))
      <3> HIDE DEF k, s
      <3> QED
        BY <1>1, <2>1, ComingMoves
    <2> QED
      BY <2>2 DEF Joins
  <1>7. Moved("recv", c, f, "recv", c) = <<f>>
    BY DEF Moved
  <1>8. ch # <<>> /\ ch \o v = <<f>> \o y /\ ch \in Seq(Flit) /\ v \in Seq(Flit) /\ y \in Seq(Flit)
    BY <1>1, <1>3, <1>6, <1>7
  <1> HIDE DEF ch, v, y
  <1>9. Head(ch) = f
    BY <1>2, <1>8, FlitTaken
  <1> QED
    BY <1>9 DEF ch

\* A step of a call keeps the invariant.
LEMMA StepKeepsInv ==
  ASSUME CallsInv, NEW p \in Process, NEW d \in {"send", "recv", "none"}, NEW u, NEW c, NEW f,
         Moves(d, p, calls[p], script[p], u, c, f), Channels(d, p, c, f),
         program' = program, calls' = calls, script' = [script EXCEPT ![p] = u \o Tail(@)],
         ~aborted', ~mixed'
  PROVE  CallsInv'
  <1> DEFINE k == calls[p]
             s == script[p]
             t == u \o Tail(s)
  <1>1. /\ program \in Programs /\ calls \in [Process -> 0 .. Len(program)]
        /\ script = [r \in Process |-> script[r]]
        /\ chan \in [Process -> [Process -> Seq(Flit)]]
        /\ \A r \in Process : ScriptOk(r, calls[r], script[r])
        /\ \A a, b \in Process :
             chan[a][b] \o Coming("send", a, b, calls[a], script[a]) = Coming("recv", b, a, calls[b], script[b])
    BY DEF CallsInv
  <1>2. s # <<>> /\ f \in Flit /\ c \in Process
    BY DEF Moves, Puts
  <1>3. Len(program) \in Nat
    BY <1>1, CallsAssumption
  <1>4. k \in 1 .. Len(program)
    <2>1. k \in 0 .. Len(program) /\ ScriptOk(p, k, s)
      BY <1>1
    <2>2. k # 0
      BY <1>2, <2>1 DEF ScriptOk
    <2> QED
      BY <1>3, <2>1, <2>2
  <1>5. IsCallNumber(k)
    BY <1>1, <1>4 DEF IsCallNumber
  <1>6. Moves(d, p, k, s, u, c, f) /\ ScriptOk(p, k, s)
    BY <1>1
  <1>7. script' = [r \in Process |-> IF r = p THEN t ELSE script[r]]
    BY <1>1
  <1>8. script' = [r \in Process |-> script'[r]]
    BY <1>7
  <1>9. ASSUME NEW r \in Process PROVE ScriptOk(r, calls[r], script'[r])
    <2>1. CASE r = p
      <3>1. ScriptOk(p, k, t)
        <4> HIDE DEF k, s
        <4> QED
          BY <1>5, <1>6, ScriptOkKept
      <3> QED
        BY <1>7, <2>1, <3>1
    <2>2. CASE r # p
      BY <1>1, <1>7, <2>2
    <2> QED
      BY <2>1, <2>2
  <1>10. ASSUME NEW r \in Process PROVE ScriptOk(r, calls[r], script[r])'
    <2>1. ScriptOk(r, calls'[r], script'[r])
      BY <1>9
    <2> QED
      BY <2>1, ScriptOkStays
  <1>11. ASSUME NEW e \in {"send", "recv"}, NEW r \in Process, NEW q \in Process
         PROVE  /\ r = p => /\ Moved(d, c, f, e, q) \in Seq(Flit)
                            /\ Coming(e, r, q, calls[r], script[r])
                                 = Moved(d, c, f, e, q) \o Coming(e, r, q, calls[r], script'[r])
                /\ r # p => Coming(e, r, q, calls[r], script[r]) = Coming(e, r, q, calls[r], script'[r])
                /\ Coming(e, r, q, calls[r], script'[r]) \in Seq(Flit)
                /\ Coming(e, r, q, calls[r], script[r]) \in Seq(Flit)
    <2>1. calls[r] \in 0 .. Len(program) /\ ScriptOk(r, calls[r], script[r]) /\ ScriptOk(r, calls[r], script'[r])
      BY <1>1, <1>9
    <2>2. /\ Coming(e, r, q, calls[r], script'[r]) \in Seq(Flit)
          /\ Coming(e, r, q, calls[r], script[r]) \in Seq(Flit)
      BY <1>1, <2>1, ComingTyped
    <2>3. CASE r = p
      <3>1. /\ Moved(d, c, f, e, q) \in Seq(Flit)
            /\ Coming(e, p, q, k, s) = Moved(d, c, f, e, q) \o Coming(e, p, q, k, u \o Tail(s))
        <4>1. Joins(Coming(e, p, q, k, s), Moved(d, c, f, e, q), Coming(e, p, q, k, u \o Tail(s)))
          <5> HIDE DEF k, s
          <5> QED
            BY <1>1, <1>4, <1>6, ComingMoves
        <4> QED
          BY <4>1 DEF Joins
      <3>2. script'[p] = u \o Tail(s)
        BY <1>7
      <3> QED
        BY <2>2, <2>3, <3>1, <3>2
    <2>4. CASE r # p
      <3>1. script'[r] = script[r]
        BY <1>7, <2>4
      <3> QED
        BY <2>2, <2>4, <3>1
    <2> QED
      BY <2>3, <2>4
  <1>12. ASSUME NEW a \in Process, NEW b \in Process
         PROVE  chan'[a][b] \o Coming("send", a, b, calls[a], script'[a]) = Coming("recv", b, a, calls[b], script'[b])
    <2> DEFINE ch == chan[a][b]
               ch1 == chan'[a][b]
               v == Coming("send", a, b, calls[a], script[a])
               v1 == Coming("send", a, b, calls[a], script'[a])
               w == Coming("recv", b, a, calls[b], script[b])
               w1 == Coming("recv", b, a, calls[b], script'[b])
    <2>1. /\ ch \in Seq(Flit) /\ ch1 \in Seq(Flit) /\ v \in Seq(Flit) /\ v1 \in Seq(Flit)
          /\ w \in Seq(Flit) /\ w1 \in Seq(Flit) /\ ch \o v = w
      <3>1. v \in Seq(Flit) /\ v1 \in Seq(Flit)
        BY <1>11
      <3>2. w \in Seq(Flit) /\ w1 \in Seq(Flit)
        BY <1>11
      <3>3. ch \in Seq(Flit) /\ ch \o v = w
        BY <1>1
      <3>4. chan' \in [Process -> [Process -> Seq(Flit)]]
        BY DEF Channels
      <3>5. ch1 \in Seq(Flit)
        BY <3>4
      <3> QED
        BY <3>1, <3>2, <3>3, <3>5
    <2>2. /\ d = "send" /\ a = p /\ b = c => v = <<f>> \o v1
          /\ ~(d = "send" /\ a = p /\ b = c) => v = v1
      <3>1. CASE a = p
        <4>1. v = Moved(d, c, f, "send", b) \o v1
          BY <1>11, <3>1
        <4>2. /\ d = "send" /\ b = c => Moved(d, c, f, "send", b) = <<f>>
              /\ ~(d = "send" /\ b = c) => Moved(d, c, f, "send", b) = <<>>
          BY DEF Moved
        <4> HIDE DEF v, v1
        <4>3. <<>> \o v1 = v1
          BY <2>1, NoFlits
        <4> QED
          BY <3>1, <4>1, <4>2, <4>3
      <3>2. CASE a # p
        BY <1>11, <3>2
      <3> QED
        BY <3>1, <3>2
    <2>3. /\ d = "recv" /\ b = p /\ a = c => w = <<f>> \o w1
          /\ ~(d = "recv" /\ b = p /\ a = c) => w = w1
      <3>1. CASE b = p
        <4>1. w = Moved(d, c, f, "recv", a) \o w1
          BY <1>11, <3>1
        <4>2. /\ d = "recv" /\ a = c => Moved(d, c, f, "recv", a) = <<f>>
              /\ ~(d = "recv" /\ a = c) => Moved(d, c, f, "recv", a) = <<>>
          BY DEF Moved
        <4> HIDE DEF w, w1
        <4>3. <<>> \o w1 = w1
          BY <2>1, NoFlits
        <4> QED
          BY <3>1, <4>1, <4>2, <4>3
      <3>2. CASE b # p
        BY <1>11, <3>2
      <3> QED
        BY <3>1, <3>2
    <2>4. /\ d = "send" /\ a = p /\ b = c => ch1 = Append(ch, f)
          /\ d = "recv" /\ a = c /\ b = p => ch # <<>> /\ ch1 = Tail(ch)
          /\ ~(d = "send" /\ a = p /\ b = c) /\ ~(d = "recv" /\ a = c /\ b = p) => ch1 = ch
      BY DEF Channels
    <2> HIDE DEF ch, ch1, v, v1, w, w1
    <2>5. ch1 \o v1 = w1
      <3>1. CASE d = "send" /\ a = p /\ b = c
        <4>1. ch1 = Append(ch, f) /\ v = <<f>> \o v1 /\ w = w1
          BY <2>2, <2>3, <2>4, <3>1
        <4>2. Append(ch, f) \o v1 = ch \o (<<f>> \o v1)
          BY <1>2, <2>1, FlitAppended
        <4> QED
          BY <2>1, <4>1, <4>2
      <3>2. CASE d = "recv" /\ a = c /\ b = p
        <4>1. ch # <<>> /\ ch1 = Tail(ch) /\ v = v1 /\ w = <<f>> \o w1
          BY <2>2, <2>3, <2>4, <3>2
        <4>2. ch \o v = <<f>> \o w1
          BY <2>1, <4>1
        <4>3. Tail(ch) \o v = w1
          <5> DEFINE x == <<f>>
          <5>1. f \in Flit /\ ch # <<>> /\ ch \in Seq(Flit) /\ v \in Seq(Flit) /\ x \in Seq(Flit) /\ x = <<f>>
            BY <1>2, <2>1, <4>1
          <5>2. w = x \o w1 /\ w1 \in Seq(Flit) /\ w = ch \o v
            BY <2>1, <4>1
          <5> HIDE DEF x
          <5>3. Joins(w, x, w1)
            BY <5>1, <5>2 DEF Joins
          <5>4. w = ch \o v
            BY <5>2
          <5> QED
            BY <5>1, <5>3, <5>4, JoinTaken
        <4> QED
          BY <4>1, <4>3
      <3>3. CASE ~(d = "send" /\ a = p /\ b = c) /\ ~(d = "recv" /\ a = c /\ b = p)
        BY <2>1, <2>2, <2>3, <2>4, <3>3
      <3> QED
        BY <3>1, <3>2, <3>3
    <2> QED
      BY <2>5 DEF ch1, v1, w1
  <1>13. ASSUME NEW a \in Process, NEW b \in Process
         PROVE  (chan[a][b] \o Coming("send", a, b, calls[a], script[a]) = Coming("recv", b, a, calls[b], script[b]))'
    <2>1. chan'[a][b] \o Coming("send", a, b, calls'[a], script'[a]) = Coming("recv", b, a, calls'[b], script'[b])
      BY <1>12
    <2>2. /\ Coming("send", a, b, calls[a], script[a])' = Coming("send", a, b, calls'[a], script'[a])
          /\ Coming("recv", b, a, calls[b], script[b])' = Coming("recv", b, a, calls'[b], script'[b])
      BY ComingStays
    <2> QED
      BY <2>1, <2>2
  <1>14. chan' \in [Process -> [Process -> Seq(Flit)]]
    BY DEF Channels
  <1> QED
    BY <1>1, <1>8, <1>10, <1>13, <1>14 DEF CallsInv

\* The step that a process has come to.
LEMMA StepIs ==
  ASSUME CallsInv, NEW p \in Process, script[p] # <<>>
  PROVE  /\ IsCallNumber(calls[p]) /\ calls[p] \in 1 .. Len(program)
         /\ ScriptOk(p, calls[p], script[p])
         /\ script[p] \in Seq(StepSet(calls[p])) /\ Head(script[p]) \in StepSet(calls[p])
         /\ Head(script[p]) = script[p][1] /\ 1 \in 1 .. Len(script[p])
         /\ chan \in [Process -> [Process -> Seq(Flit)]]
         /\ script = [r \in Process |-> script[r]]
  <1>1. /\ program \in Programs /\ calls[p] \in 0 .. Len(program) /\ ScriptOk(p, calls[p], script[p])
        /\ chan \in [Process -> [Process -> Seq(Flit)]] /\ script = [r \in Process |-> script[r]]
    BY DEF CallsInv
  <1>2. calls[p] # 0
    BY <1>1 DEF ScriptOk
  <1>3. Len(program) \in Nat
    BY <1>1, CallsAssumption
  <1>4. calls[p] \in 1 .. Len(program)
    BY <1>1, <1>2, <1>3
  <1>5. script[p] \in Seq(StepSet(calls[p]))
    BY <1>1, <1>2 DEF ScriptOk
  <1>6. Head(script[p]) \in StepSet(calls[p]) /\ Head(script[p]) = script[p][1] /\ 1 \in 1 .. Len(script[p])
    BY <1>5
  <1> QED
    BY <1>1, <1>4, <1>5, <1>6 DEF IsCallNumber

LEMMA SendAction ==
  ASSUME CallsInv, NEW p \in Process, NEW u, NEW c, NEW f,
         Moves("send", p, calls[p], script[p], u, c, f), SendFlit(p, c, f), Continue(p, u),
         UNCHANGED <<program, calls, aborted, mixed>>
  PROVE  CallsInv'
  <1>1. chan \in [Process -> [Process -> Seq(Flit)]] /\ ~aborted /\ ~mixed
    BY DEF CallsInv
  <1>2. c \in Process /\ f \in Flit
    BY DEF Moves, Puts
  <1>3. chan' = [chan EXCEPT ![p][c] = Append(@, f)]
    BY DEF SendFlit
  <1>4. chan[p][c] \in Seq(Flit) /\ Append(chan[p][c], f) \in Seq(Flit)
    BY <1>1, <1>2
  <1>5. chan' \in [Process -> [Process -> Seq(Flit)]]
    BY <1>1, <1>2, <1>3, <1>4
  <1>6. Channels("send", p, c, f)
    BY <1>1, <1>2, <1>3, <1>5 DEF Channels
  <1> QED
    BY <1>1, <1>6, StepKeepsInv DEF Continue

LEMMA TakeAction ==
  ASSUME CallsInv, NEW p \in Process, NEW u, NEW c, NEW f,
         Moves("recv", p, calls[p], script[p], u, c, f), TakeFlit(p, c, f), Continue(p, u),
         UNCHANGED <<program, calls>>
  PROVE  CallsInv'
  <1>1. chan \in [Process -> [Process -> Seq(Flit)]] /\ ~aborted /\ ~mixed
    BY DEF CallsInv
  <1>2. c \in Process /\ f \in Flit
    BY DEF Moves, Puts
  <1>3. chan[c][p] # <<>> /\ chan' = [chan EXCEPT ![c][p] = Tail(@)]
    BY DEF TakeFlit, Probe
  <1>4. Head(chan[c][p]) = f
    BY <1>2, <1>3, TakesTheirs
  <1>5. ~aborted' /\ ~mixed'
    BY <1>1, <1>4 DEF TakeFlit
  <1>6. chan[c][p] \in Seq(Flit) /\ Tail(chan[c][p]) \in Seq(Flit)
    BY <1>1, <1>2, <1>3
  <1>7. chan' \in [Process -> [Process -> Seq(Flit)]]
    BY <1>1, <1>2, <1>3, <1>6
  <1>8. Channels("recv", p, c, f)
    BY <1>1, <1>2, <1>3, <1>7 DEF Channels
  <1> QED
    BY <1>5, <1>8, StepKeepsInv DEF Continue

LEMMA RestAction ==
  ASSUME CallsInv, NEW p \in Process, NEW u, NEW c, NEW f,
         Moves("none", p, calls[p], script[p], u, c, f), Continue(p, u),
         UNCHANGED <<program, calls, chan, aborted, mixed>>
  PROVE  CallsInv'
  <1>1. chan \in [Process -> [Process -> Seq(Flit)]] /\ ~aborted /\ ~mixed
    BY DEF CallsInv
  <1>2. Channels("none", p, c, f)
    BY <1>1 DEF Channels
  <1> QED
    BY <1>1, <1>2, StepKeepsInv DEF Continue

\* The flits of a loop before and after a round.
LEMMA LoopMoves ==
  ASSUME CallsInv, NEW p \in Process, script[p] # <<>>, NEW d, NEW g, NEW u, NEW c \in Process, NEW f \in Flit,
         g \in StepSet(calls[p]), g.do = Head(script[p]).do, g.do \notin {"send", "recv"},
         g.do = "gather" => GatherOk(calls[p], g),
         u = Loop(g) \/ u = <<g>>,
         \A e \in {"send", "recv"}, q \in Process :
           StepFlow(e, p, q, calls[p], Head(script[p])) = Moved(d, c, f, e, q) \o StepFlow(e, p, q, calls[p], g)
  PROVE  Moves(d, p, calls[p], script[p], u, c, f)
  <1> DEFINE k == calls[p]
             s == script[p]
  <1>1. IsCallNumber(k) /\ s \in Seq(StepSet(k)) /\ s # <<>>
    BY StepIs
  <1>2. u = <<>> \/ u = <<g>>
    BY DEF Loop
  <1>3. u \in Seq(StepSet(k)) /\ Len(u) <= 1
    <2> DEFINE S == StepSet(k)
    <2>1. g \in S
      OBVIOUS
    <2> HIDE DEF S
    <2>2. CASE u = <<>>
      BY <2>2
    <2>3. CASE u = <<g>>
      BY <2>1, <2>3
    <2> QED
      BY <1>2, <2>2, <2>3 DEF S
  <1>4. \A i \in 1 .. Len(u) : u[i] = g
    BY <1>2
  <1>5. StepBecomes(p, k, Head(s), u)
    <2>1. Head(s).do \notin {"send", "recv"}
      OBVIOUS
    <2>2. \A i \in 1 .. Len(u) : u[i].do = Head(s).do /\ (Head(s).do = "gather" => GatherOk(k, u[i]))
      BY <1>4
    <2> QED
      BY <1>3, <2>1, <2>2 DEF StepBecomes
  <1>6. ASSUME NEW e \in {"send", "recv"}, NEW q \in Process
        PROVE  Flow(e, p, q, k, u) = StepFlow(e, p, q, k, g)
    <2>1. g \in StepSet(k) /\ g.do \notin {"send", "recv"}
      OBVIOUS
    <2> HIDE DEF k
    <2>2. CASE u = Loop(g)
      BY <1>1, <2>1, <2>2, LoopFlow
    <2>3. CASE u = <<g>>
      BY <1>1, <2>1, <2>3, FlowOne
    <2> QED
      BY <2>2, <2>3
  <1>7. Puts(d, p, k, Head(s), u, c, f)
    BY <1>6 DEF Puts
  <1> QED
    BY <1>1, <1>5, <1>7 DEF Moves

LEMMA SingleMoves ==
  ASSUME CallsInv, NEW p \in Process, script[p] # <<>>, Head(script[p]).do \in {"send", "recv"}
  PROVE  LET h == Head(script[p]) IN Moves(h.do, p, calls[p], script[p], <<>>, h.cid, h.flit)
  <1> DEFINE k == calls[p]
             s == script[p]
             h == Head(s)
  <1>1. IsCallNumber(k) /\ s \in Seq(StepSet(k)) /\ s # <<>> /\ h \in StepSet(k)
    BY StepIs
  <1>2. h.do \in {"send", "recv"}
    OBVIOUS
  <1> HIDE DEF h, k
  <1>3. h \in Transfers
    BY <1>1, <1>2, StepKinds
  <1>4. h.cid \in Process /\ h.flit \in Flit
    BY <1>3 DEF Transfers
  <1>5. ASSUME NEW e \in {"send", "recv"}, NEW q \in Process
        PROVE  StepFlow(e, p, q, k, h) = Moved(h.do, h.cid, h.flit, e, q) \o Flow(e, p, q, k, <<>>)
    <2>1. Flow(e, p, q, k, <<>>) = <<>>
      BY FlowEmpty
    <2>2. StepFlow(e, p, q, k, h) = Moved(h.do, h.cid, h.flit, e, q)
      BY <1>2 DEF StepFlow, Moved
    <2>3. Moved(h.do, h.cid, h.flit, e, q) \in Seq(Flit)
      BY <1>4 DEF Moved
    <2> QED
      BY <2>1, <2>2, <2>3, NoFlits
  <1>6. Puts(h.do, p, k, h, <<>>, h.cid, h.flit)
    BY <1>4, <1>5 DEF Puts
  <1>7. StepBecomes(p, k, h, <<>>)
    BY DEF StepBecomes
  <1>8. Moves(h.do, p, k, s, <<>>, h.cid, h.flit)
    BY <1>1, <1>6, <1>7 DEF Moves, h
  <1> QED
    BY <1>8 DEF h, k

LEMMA SendStepKeeps == ASSUME CallsInv, NEW p \in Process, SendStep(p) PROVE CallsInv'
  <1>1. script[p] # <<>> /\ Head(script[p]).do = "send"
    BY DEF SendStep, AtStep
  <1>2. Moves("send", p, calls[p], script[p], <<>>, Head(script[p]).cid, Head(script[p]).flit)
    BY <1>1, SingleMoves
  <1> QED
    BY <1>2, SendAction DEF SendStep

LEMMA RecvStepKeeps == ASSUME CallsInv, NEW p \in Process, RecvStep(p) PROVE CallsInv'
  <1>1. script[p] # <<>> /\ Head(script[p]).do = "recv"
    BY DEF RecvStep, AtStep
  <1>2. Moves("recv", p, calls[p], script[p], <<>>, Head(script[p]).cid, Head(script[p]).flit)
    BY <1>1, SingleMoves
  <1> QED
    BY <1>2, TakeAction DEF RecvStep

-----------------------------------------------------------------------------
\* The loops.

LEMMA WaitForAckKeeps == ASSUME CallsInv, NEW p \in Process, WaitForAck(p) PROVE CallsInv'
  <1> DEFINE k == calls[p]
             h == Head(script[p])
             G(q) == [h EXCEPT !.from = @ \ {q}]
  <1>1. script[p] # <<>> /\ h.do = "acks"
    BY DEF WaitForAck, AtStep
  <1>2. PICK c \in h.from : TakeFlit(p, c, Ack(k)) /\ Continue(p, Loop(G(c)))
    BY DEF WaitForAck
  <1>3. IsCallNumber(k) /\ h \in StepSet(k)
    BY <1>1, StepIs
  <1> DEFINE g == G(c)
  <1>4. h \in AckLoops
    <2> HIDE DEF h
    <2> QED
      BY <1>1, <1>3, StepKinds
  <1>5. c \in Process /\ g \in AckLoops /\ g.do = "acks" /\ g.from = h.from \ {c} /\ h.from \subseteq Process
    <2> HIDE DEF h
    <2> QED
      BY <1>2, <1>4 DEF AckLoops
  <1>6. g \in StepSet(k) /\ Ack(k) \in Flit
    BY <1>3, <1>5, FlitsTyped DEF StepSet
  <1>7. ASSUME NEW e \in {"send", "recv"}, NEW q \in Process
        PROVE  StepFlow(e, p, q, k, h) = Moved("recv", c, Ack(k), e, q) \o StepFlow(e, p, q, k, g)
    <2>1. StepFlow(e, p, q, k, h) = IF e = "recv" /\ q \in h.from THEN <<Ack(k)>> ELSE <<>>
      <3> HIDE DEF h
      <3> QED
        BY <1>1 DEF StepFlow
    <2>2. StepFlow(e, p, q, k, g) = IF e = "recv" /\ q \in h.from \ {c} THEN <<Ack(k)>> ELSE <<>>
      <3> HIDE DEF g
      <3> QED
        BY <1>5 DEF StepFlow
    <2>3. Moved("recv", c, Ack(k), e, q) = IF e = "recv" /\ q = c THEN <<Ack(k)>> ELSE <<>>
      BY DEF Moved
    <2> DEFINE a == Ack(k)
    <2>4. <<a>> \o <<>> = <<a>> /\ <<>> \o <<a>> = <<a>> /\ <<>> \o <<>> = <<>>
      <3>1. <<a>> \in Seq(Flit)
        BY <1>6
      <3> HIDE DEF a
      <3> QED
        BY <3>1, NoFlits
    <2> HIDE DEF k, h, g, a
    <2> QED
      BY <1>2, <2>1, <2>2, <2>3, <2>4 DEF a
  <1>8. Moves("recv", p, calls[p], script[p], Loop(g), c, Ack(k))
    <2>1. g.do = h.do /\ g.do \notin {"send", "recv"} /\ g.do # "gather"
      BY <1>1, <1>5
    <2>2. script[p] # <<>> /\ c \in Process /\ Ack(k) \in Flit /\ g \in StepSet(k)
      BY <1>1, <1>5, <1>6
    <2> HIDE DEF g
    <2> QED
      BY <1>7, <2>1, <2>2, LoopMoves
  <1> QED
    BY <1>2, <1>8, TakeAction DEF WaitForAck

\* The flits of the loop of MPI_Sendrecv.
LEMMA PairFlow ==
  ASSUME NEW k, NEW h \in PairLoops, NEW p, NEW q
  PROVE  /\ StepFlow("send", p, q, k, h) = IF h.to = q THEN DataSeq(k, h.slen - h.sleft + 1, h.slen) ELSE <<>>
         /\ StepFlow("recv", p, q, k, h) = IF h.from = q THEN DataSeq(k, h.rlen - h.rleft + 1, h.rlen) ELSE <<>>
  <1>1. h.do = "sendrecv"
    BY DEF PairLoops
  <1> QED
    BY <1>1 DEF StepFlow

\* The data that is left after one flit more.
LEMMA DataShrinks ==
  ASSUME NEW k, IsCallNumber(k), NEW n \in Nat, NEW m \in Nat \ {0}
  PROVE  /\ DataSeq(k, n - m + 1, n) = <<Data(k, n - m + 1)>> \o DataSeq(k, n - (m - 1) + 1, n)
         /\ Data(k, n - m + 1) \in Flit /\ DataSeq(k, n - m + 1, n) \in Seq(Flit)
         /\ m - 1 \in Nat
  <1>1. k \in Nat
    BY GroupIs
  <1>2. n - m + 1 \in Int /\ n \in Int /\ n - m + 1 <= n /\ (n - m + 1) + 1 = n - (m - 1) + 1 /\ m - 1 \in Nat
    OBVIOUS
  <1> DEFINE a == n - m + 1
             b == n - (m - 1) + 1
  <1>3. a \in Int /\ n \in Int /\ a <= n /\ a + 1 = b
    BY <1>2
  <1> HIDE DEF a, b
  <1>4. DataSeq(k, a, n) = <<Data(k, a)>> \o DataSeq(k, a + 1, n) /\ DataSeq(k, a, n) \in Seq(Flit)
    BY <1>1, <1>3, DataSeqTyped
  <1>5. Data(k, a) \in Flit
    BY <1>3, FlitsTyped
  <1> QED
    BY <1>2, <1>3, <1>4, <1>5 DEF a, b

LEMMA ExchangeSendKeeps == ASSUME CallsInv, NEW p \in Process, ExchangeSend(p) PROVE CallsInv'
  <1> DEFINE k == calls[p]
             h == Head(script[p])
             g == [h EXCEPT !.sleft = @ - 1]
             f == Data(k, h.slen - h.sleft + 1)
  <1>1. script[p] # <<>> /\ h.do = "sendrecv" /\ h.sleft > 0
    BY DEF ExchangeSend, AtStep
  <1>2. SendFlit(p, h.to, f) /\ Continue(p, Loop(g))
    BY DEF ExchangeSend
  <1>3. IsCallNumber(k) /\ h \in StepSet(k)
    BY <1>1, StepIs
  <1>4. h \in PairLoops
    <2> HIDE DEF h
    <2> QED
      BY <1>1, <1>3, StepKinds
  <1>5. /\ h.to \in Process /\ g \in PairLoops /\ g.do = "sendrecv"
        /\ g.to = h.to /\ g.from = h.from /\ g.slen = h.slen /\ g.sleft = h.sleft - 1
        /\ g.rlen = h.rlen /\ g.rleft = h.rleft
        /\ h.slen \in Nat /\ h.sleft \in Nat \ {0} /\ h.rlen \in Nat /\ h.rleft \in Nat
    <2> HIDE DEF h
    <2> QED
      BY <1>1, <1>4 DEF PairLoops
  <1>6. /\ f \in Flit /\ DataSeq(k, h.slen - h.sleft + 1, h.slen) \in Seq(Flit)
        /\ DataSeq(k, h.slen - h.sleft + 1, h.slen) = <<f>> \o DataSeq(k, h.slen - (h.sleft - 1) + 1, h.slen)
    <2> HIDE DEF h, k
    <2> QED
      BY <1>3, <1>5, DataShrinks
  <1>7. g \in StepSet(k)
    BY <1>5 DEF StepSet
  <1>8. ASSUME NEW e \in {"send", "recv"}, NEW q \in Process
        PROVE  StepFlow(e, p, q, k, h) = Moved("send", h.to, f, e, q) \o StepFlow(e, p, q, k, g)
    <2>1. StepFlow(e, p, q, k, g) \in Seq(Flit)
      <3> HIDE DEF g, k
      <3> QED
        BY <1>3, <1>7, StepFlowTyped
    <2>2. <<>> \o StepFlow(e, p, q, k, g) = StepFlow(e, p, q, k, g)
      BY <2>1, NoFlits
    <2>3. Moved("send", h.to, f, e, q) = IF e = "send" /\ q = h.to THEN <<f>> ELSE <<>>
      BY DEF Moved
    <2>4. /\ StepFlow("send", p, q, k, h) = IF h.to = q THEN DataSeq(k, h.slen - h.sleft + 1, h.slen) ELSE <<>>
          /\ StepFlow("recv", p, q, k, h) = IF h.from = q THEN DataSeq(k, h.rlen - h.rleft + 1, h.rlen) ELSE <<>>
      <3> HIDE DEF h, k
      <3> QED
        BY <1>4, PairFlow
    <2>5. /\ StepFlow("send", p, q, k, g) = IF h.to = q THEN DataSeq(k, h.slen - (h.sleft - 1) + 1, h.slen) ELSE <<>>
          /\ StepFlow("recv", p, q, k, g) = IF h.from = q THEN DataSeq(k, h.rlen - h.rleft + 1, h.rlen) ELSE <<>>
      <3> HIDE DEF g, k
      <3> QED
        BY <1>5, PairFlow
    <2>6. CASE e = "send" /\ q = h.to
      BY <1>6, <2>3, <2>4, <2>5, <2>6
    <2>7. CASE ~(e = "send" /\ q = h.to)
      <3>1. StepFlow(e, p, q, k, h) = StepFlow(e, p, q, k, g)
        BY <2>4, <2>5, <2>7
      <3>2. Moved("send", h.to, f, e, q) = <<>>
        BY <2>3, <2>7
      <3> QED
        BY <2>2, <3>1, <3>2
    <2> QED
      BY <2>6, <2>7
  <1>9. Moves("send", p, calls[p], script[p], Loop(g), h.to, f)
    <2>1. g.do = h.do /\ g.do \notin {"send", "recv"} /\ g.do # "gather"
      BY <1>1, <1>5
    <2>2. script[p] # <<>> /\ h.to \in Process /\ f \in Flit /\ g \in StepSet(k)
      BY <1>1, <1>5, <1>6, <1>7
    <2> HIDE DEF g, f
    <2> QED
      BY <1>8, <2>1, <2>2, LoopMoves
  <1> QED
    BY <1>2, <1>9, SendAction DEF ExchangeSend

LEMMA ExchangeRecvKeeps == ASSUME CallsInv, NEW p \in Process, ExchangeRecv(p) PROVE CallsInv'
  <1> DEFINE k == calls[p]
             h == Head(script[p])
             g == [h EXCEPT !.rleft = @ - 1]
             f == Data(k, h.rlen - h.rleft + 1)
  <1>1. script[p] # <<>> /\ h.do = "sendrecv" /\ h.rleft > 0
    BY DEF ExchangeRecv, AtStep
  <1>2. TakeFlit(p, h.from, f) /\ Continue(p, Loop(g))
    BY DEF ExchangeRecv
  <1>3. IsCallNumber(k) /\ h \in StepSet(k)
    BY <1>1, StepIs
  <1>4. h \in PairLoops
    <2> HIDE DEF h
    <2> QED
      BY <1>1, <1>3, StepKinds
  <1>5. /\ h.from \in Process /\ g \in PairLoops /\ g.do = "sendrecv"
        /\ g.to = h.to /\ g.from = h.from /\ g.rlen = h.rlen /\ g.rleft = h.rleft - 1
        /\ g.slen = h.slen /\ g.sleft = h.sleft
        /\ h.rlen \in Nat /\ h.rleft \in Nat \ {0} /\ h.slen \in Nat /\ h.sleft \in Nat
    <2> HIDE DEF h
    <2> QED
      BY <1>1, <1>4 DEF PairLoops
  <1>6. /\ f \in Flit /\ DataSeq(k, h.rlen - h.rleft + 1, h.rlen) \in Seq(Flit)
        /\ DataSeq(k, h.rlen - h.rleft + 1, h.rlen) = <<f>> \o DataSeq(k, h.rlen - (h.rleft - 1) + 1, h.rlen)
    <2> HIDE DEF h, k
    <2> QED
      BY <1>3, <1>5, DataShrinks
  <1>7. g \in StepSet(k)
    BY <1>5 DEF StepSet
  <1>8. ASSUME NEW e \in {"send", "recv"}, NEW q \in Process
        PROVE  StepFlow(e, p, q, k, h) = Moved("recv", h.from, f, e, q) \o StepFlow(e, p, q, k, g)
    <2>1. StepFlow(e, p, q, k, g) \in Seq(Flit)
      <3> HIDE DEF g, k
      <3> QED
        BY <1>3, <1>7, StepFlowTyped
    <2>2. <<>> \o StepFlow(e, p, q, k, g) = StepFlow(e, p, q, k, g)
      BY <2>1, NoFlits
    <2>3. Moved("recv", h.from, f, e, q) = IF e = "recv" /\ q = h.from THEN <<f>> ELSE <<>>
      BY DEF Moved
    <2>4. /\ StepFlow("send", p, q, k, h) = IF h.to = q THEN DataSeq(k, h.slen - h.sleft + 1, h.slen) ELSE <<>>
          /\ StepFlow("recv", p, q, k, h) = IF h.from = q THEN DataSeq(k, h.rlen - h.rleft + 1, h.rlen) ELSE <<>>
      <3> HIDE DEF h, k
      <3> QED
        BY <1>4, PairFlow
    <2>5. /\ StepFlow("send", p, q, k, g) = IF h.to = q THEN DataSeq(k, h.slen - h.sleft + 1, h.slen) ELSE <<>>
          /\ StepFlow("recv", p, q, k, g) = IF h.from = q THEN DataSeq(k, h.rlen - (h.rleft - 1) + 1, h.rlen) ELSE <<>>
      <3> HIDE DEF g, k
      <3> QED
        BY <1>5, PairFlow
    <2>6. CASE e = "recv" /\ q = h.from
      BY <1>6, <2>3, <2>4, <2>5, <2>6
    <2>7. CASE ~(e = "recv" /\ q = h.from)
      <3>1. StepFlow(e, p, q, k, h) = StepFlow(e, p, q, k, g)
        BY <2>4, <2>5, <2>7
      <3>2. Moved("recv", h.from, f, e, q) = <<>>
        BY <2>3, <2>7
      <3> QED
        BY <2>2, <3>1, <3>2
    <2> QED
      BY <2>6, <2>7
  <1>9. Moves("recv", p, calls[p], script[p], Loop(g), h.from, f)
    <2>1. g.do = h.do /\ g.do \notin {"send", "recv"} /\ g.do # "gather"
      BY <1>1, <1>5
    <2>2. script[p] # <<>> /\ h.from \in Process /\ f \in Flit /\ g \in StepSet(k)
      BY <1>1, <1>5, <1>6, <1>7
    <2> HIDE DEF g, f
    <2> QED
      BY <1>8, <2>1, <2>2, LoopMoves
  <1> QED
    BY <1>2, <1>9, TakeAction DEF ExchangeRecv

\* MPI_Alltoall is only used at the end of a program.
AlltoallLast == \A pr \in Programs : \A i \in 1 .. Len(pr) - 1 : pr[i].op # "alltoall"

\* The flits of the loop of MPI_Alltoall.
LEMMA RingFlow ==
  ASSUME NEW k, NEW h \in RingLoops(k), NEW p, NEW q
  PROVE  /\ StepFlow("send", p, q, k, h) = DataSeq(k, PartLength(k, q) - h.slens[q] + 1, PartLength(k, q))
         /\ StepFlow("recv", p, q, k, h) = DataSeq(k, PartLength(k, p) - h.rlens[q] + 1, PartLength(k, p))
  <1>1. h.do = "alltoall"
    BY DEF RingLoops
  <1> QED
    BY <1>1 DEF StepFlow

LEMMA RingIs ==
  ASSUME CallsInv, NEW p \in Process, script[p] # <<>>, Head(script[p]).do = "alltoall"
  PROVE  /\ Head(script[p]) \in RingLoops(calls[p]) /\ IsCallNumber(calls[p]) /\ IsWorld(calls[p])
         /\ program[calls[p]].op = "alltoall"
         /\ \A q \in Process : /\ CidFromComm(calls[p], q) = q /\ GroupRank(calls[p], q) = q
                               /\ PartLength(calls[p], q) \in Nat
         /\ script[p] = <<Head(script[p])>>
  <1> DEFINE k == calls[p]
             s == script[p]
             h == Head(s)
  <1>1. /\ IsCallNumber(k) /\ h \in StepSet(k) /\ s \in Seq(StepSet(k)) /\ k # 0
        /\ ScriptOk(p, k, s) /\ h = s[1] /\ 1 \in 1 .. Len(s)
    <2>1. IsCallNumber(k) => k # 0
      BY DEF IsCallNumber
    <2> QED
      BY <2>1, StepIs
  <1>2. h \in RingLoops(k)
    <2> HIDE DEF h, k
    <2> QED
      BY <1>1, StepKinds DEF h
  <1>3. program[k].op = "alltoall"
    BY <1>2 DEF RingLoops
  <1>4. IsWorld(k)
    <2> HIDE DEF k
    <2> QED
      BY <1>1, <1>3, RingIsWorld
  <1>5. \A q \in Process : CidFromComm(k, q) = q /\ GroupRank(k, q) = q /\ PartLength(k, q) \in Nat
    <2> HIDE DEF k
    <2> QED
      BY <1>1, <1>4, WorldIs
  <1>6. Len(s) = 1
    BY <1>1 DEF ScriptOk
  <1>7. s = <<h>>
    BY <1>1, <1>6
  <1> QED
    BY <1>1, <1>2, <1>3, <1>4, <1>5, <1>7

LEMMA AlltoallSendKeeps == ASSUME CallsInv, NEW p \in Process, AlltoallSend(p) PROVE CallsInv'
  <1> DEFINE k == calls[p]
             h == Head(script[p])
             G(r) == [h EXCEPT !.slens[r] = @ - 1]
             F(r) == Data(k, PartLength(k, r) - h.slens[r] + 1)
  <1>1. script[p] # <<>> /\ h.do = "alltoall"
    BY DEF AlltoallSend, AtStep
  <1>2. PICK c \in DOMAIN h.slens : h.slens[c] # 0 /\ SendFlit(p, CidFromComm(k, c), F(c)) /\ Continue(p, Loop(G(c)))
    BY DEF AlltoallSend
  <1> DEFINE g == G(c)
             f == F(c)
  <1>3. /\ h \in RingLoops(k) /\ IsCallNumber(k) /\ program[k].op = "alltoall"
        /\ \A q \in Process : CidFromComm(k, q) = q /\ PartLength(k, q) \in Nat
    BY <1>1, RingIs
  <1>4. /\ c \in Process /\ g \in RingLoops(k) /\ g.do = "alltoall"
        /\ g.slens = [h.slens EXCEPT ![c] = @ - 1] /\ g.rlens = h.rlens
        /\ h.slens \in [Process -> Nat] /\ h.slens[c] \in Nat \ {0}
    <2> HIDE DEF h
    <2>1. h.slens \in [Process -> Nat] /\ h.rlens \in [Process -> Nat] /\ h.do = "alltoall"
      BY <1>3 DEF RingLoops
    <2>2. c \in Process /\ h.slens[c] \in Nat \ {0} /\ h.slens[c] - 1 \in Nat
      BY <1>2, <2>1
    <2>3. /\ g.slens = [h.slens EXCEPT ![c] = @ - 1] /\ g.rlens = h.rlens /\ g.do = "alltoall"
          /\ g = [do |-> "alltoall", slens |-> [h.slens EXCEPT ![c] = @ - 1], rlens |-> h.rlens]
      BY <1>3, <2>1 DEF RingLoops
    <2>4. [h.slens EXCEPT ![c] = @ - 1] \in [Process -> Nat]
      BY <2>1, <2>2
    <2>5. g \in RingLoops(k)
      BY <1>3, <2>1, <2>3, <2>4 DEF RingLoops
    <2> QED
      BY <2>1, <2>2, <2>3, <2>5
  <1>5. /\ f \in Flit /\ DataSeq(k, PartLength(k, c) - h.slens[c] + 1, PartLength(k, c)) \in Seq(Flit)
        /\ DataSeq(k, PartLength(k, c) - h.slens[c] + 1, PartLength(k, c))
             = <<f>> \o DataSeq(k, PartLength(k, c) - (h.slens[c] - 1) + 1, PartLength(k, c))
    <2>1. PartLength(k, c) \in Nat /\ h.slens[c] \in Nat \ {0}
      BY <1>3, <1>4
    <2> HIDE DEF h, k
    <2> QED
      BY <1>3, <2>1, DataShrinks
  <1>6. g \in StepSet(k)
    BY <1>4 DEF StepSet
  <1>7. ASSUME NEW e \in {"send", "recv"}, NEW q \in Process
        PROVE  StepFlow(e, p, q, k, h) = Moved("send", c, f, e, q) \o StepFlow(e, p, q, k, g)
    <2>1. StepFlow(e, p, q, k, g) \in Seq(Flit)
      <3> HIDE DEF g, k
      <3> QED
        BY <1>3, <1>6, StepFlowTyped
    <2>2. <<>> \o StepFlow(e, p, q, k, g) = StepFlow(e, p, q, k, g)
      BY <2>1, NoFlits
    <2>3. Moved("send", c, f, e, q) = IF e = "send" /\ q = c THEN <<f>> ELSE <<>>
      BY DEF Moved
    <2>4. /\ StepFlow("send", p, q, k, h) = DataSeq(k, PartLength(k, q) - h.slens[q] + 1, PartLength(k, q))
          /\ StepFlow("recv", p, q, k, h) = DataSeq(k, PartLength(k, p) - h.rlens[q] + 1, PartLength(k, p))
      <3> HIDE DEF h, k
      <3> QED
        BY <1>3, RingFlow
    <2>5. /\ StepFlow("send", p, q, k, g) = DataSeq(k, PartLength(k, q) - g.slens[q] + 1, PartLength(k, q))
          /\ StepFlow("recv", p, q, k, g) = DataSeq(k, PartLength(k, p) - g.rlens[q] + 1, PartLength(k, p))
      <3> HIDE DEF g, k
      <3> QED
        BY <1>4, RingFlow
    <2>6. /\ g.rlens = h.rlens /\ g.slens[c] = h.slens[c] - 1 /\ (q # c => g.slens[q] = h.slens[q])
      <3> HIDE DEF g, h
      <3> QED
        BY <1>4
    <2> HIDE DEF g, h, f
    <2>7. CASE e = "send" /\ q = c
      <3>1. DataSeq(k, PartLength(k, q) - g.slens[q] + 1, PartLength(k, q))
              = DataSeq(k, PartLength(k, c) - (h.slens[c] - 1) + 1, PartLength(k, c))
        BY <2>6, <2>7
      <3>2. StepFlow(e, p, q, k, g) = DataSeq(k, PartLength(k, c) - (h.slens[c] - 1) + 1, PartLength(k, c))
        BY <2>5, <2>7, <3>1
      <3>3. StepFlow(e, p, q, k, h) = DataSeq(k, PartLength(k, c) - h.slens[c] + 1, PartLength(k, c))
        BY <2>4, <2>7
      <3>4. Moved("send", c, f, e, q) = <<f>>
        BY <2>3, <2>7
      <3> QED
        BY <1>5, <3>2, <3>3, <3>4 DEF f, h
    <2>8. CASE ~(e = "send" /\ q = c)
      <3>1. StepFlow(e, p, q, k, h) = StepFlow(e, p, q, k, g)
        BY <2>4, <2>5, <2>6, <2>8
      <3>2. Moved("send", c, f, e, q) = <<>>
        BY <2>3, <2>8
      <3> QED
        BY <2>2, <3>1, <3>2
    <2> QED
      BY <2>7, <2>8
  <1>8. Moves("send", p, calls[p], script[p], Loop(g), c, f)
    <2>1. g.do = h.do /\ g.do \notin {"send", "recv"} /\ g.do # "gather"
      BY <1>1, <1>4
    <2>2. script[p] # <<>> /\ c \in Process /\ f \in Flit /\ g \in StepSet(k)
      BY <1>1, <1>4, <1>5, <1>6
    <2> HIDE DEF g, f
    <2> QED
      BY <1>7, <2>1, <2>2, LoopMoves
  <1>9. SendFlit(p, c, f)
    BY <1>2, <1>3, <1>4
  <1>10. UNCHANGED <<program, calls, aborted, mixed>>
    BY DEF AlltoallSend
  <1> HIDE DEF g, f
  <1> QED
    BY <1>2, <1>8, <1>9, <1>10, SendAction DEF g

LEMMA AlltoallRecvKeeps ==
  ASSUME CallsInv, AlltoallLast, NEW p \in Process, AlltoallRecv(p)
  PROVE  CallsInv'
  <1> DEFINE k == calls[p]
             h == Head(script[p])
             G(r) == [h EXCEPT !.rlens[GroupRank(k, r)] = Left(@, 1)]
             F(r) == Data(k, PartLength(k, GroupRank(k, p)) - h.rlens[GroupRank(k, r)] + 1)
  <1>1. script[p] # <<>> /\ h.do = "alltoall"
    BY DEF AlltoallRecv, AtStep
  <1>2. /\ h \in RingLoops(k) /\ IsCallNumber(k) /\ program[k].op = "alltoall" /\ IsWorld(k)
        /\ \A q \in Process : GroupRank(k, q) = q /\ PartLength(k, q) \in Nat
        /\ script[p] = <<h>>
    BY <1>1, RingIs
  <1>3. PICK c \in Process : Probe(p, c) /\ TakeFlit(p, c, F(c)) /\ Continue(p, Loop(G(c)))
    BY <1>2 DEF AlltoallRecv, RankKnown
  <1> DEFINE g == [h EXCEPT !.rlens[c] = @ - 1]
             f == Data(k, PartLength(k, p) - h.rlens[c] + 1)
  <1>4. f = F(c) /\ GroupRank(k, c) = c
    BY <1>2
  <1>5. h.rlens \in [Process -> Nat] /\ h.slens \in [Process -> Nat] /\ h.do = "alltoall"
    <2> HIDE DEF h
    <2> QED
      BY <1>2 DEF RingLoops
  <1>6. program \in Programs /\ k \in 1 .. Len(program) /\ Len(program) \in Nat
    BY <1>2, CallsAssumption DEF IsCallNumber
  \* This is the last call, so only what it has still to receive is on the way.
  <1>7. k = Len(program)
    <2>1. k \notin 1 .. Len(program) - 1
      BY <1>2, <1>6 DEF AlltoallLast
    <2> HIDE DEF k
    <2> QED
      BY <1>6, <2>1
  <1>8. h.rlens[c] # 0
    <2>1. SUFFICES ASSUME h.rlens[c] = 0 PROVE FALSE
      OBVIOUS
    <2>2. StepFlow("recv", p, c, k, h) = <<>>
      <3>1. StepFlow("recv", p, c, k, h) = DataSeq(k, PartLength(k, p) - h.rlens[c] + 1, PartLength(k, p))
        <4> HIDE DEF h, k
        <4> QED
          BY <1>2, RingFlow
      <3>2. DataSeq(k, PartLength(k, p) - 0 + 1, PartLength(k, p)) = <<>>
        <4>1. k \in Nat /\ PartLength(k, p) \in Nat
          BY <1>2, <1>6
        <4> HIDE DEF k
        <4> QED
          BY <4>1, DataNone
      <3> QED
        BY <2>1, <3>1, <3>2
    <2>3. Flow("recv", p, c, k, script[p]) = <<>>
      <3>1. h \in StepSet(k)
        BY <1>2 DEF StepSet
      <3>2. Flow("recv", p, c, k, <<h>>) = StepFlow("recv", p, c, k, h)
        <4> HIDE DEF h, k
        <4> QED
          BY <1>2, <3>1, FlowOne
      <3> QED
        BY <1>2, <2>2, <3>2
    <2>4. Coming("recv", p, c, k, script[p]) = <<>>
      <3>1. Later("recv", p, c, Len(program)) = <<>>
        BY <1>6, LaterNone
      <3> QED
        BY <1>7, <2>3, <3>1, NoFlits DEF Coming
    <2>5. /\ chan[c][p] \in Seq(Flit) /\ chan[c][p] # <<>>
          /\ chan[c][p] \o Coming("send", c, p, calls[c], script[c]) = <<>>
          /\ calls[c] \in 0 .. Len(program) /\ ScriptOk(c, calls[c], script[c])
      BY <1>3, <2>4 DEF CallsInv, Probe
    <2>6. Coming("send", c, p, calls[c], script[c]) \in Seq(Flit)
      BY <1>6, <2>5, ComingTyped
    <2> DEFINE ch == chan[c][p]
               v == Coming("send", c, p, calls[c], script[c])
    <2>7. ch \in Seq(Flit) /\ v \in Seq(Flit) /\ ch # <<>> /\ ch \o v = <<>>
      BY <2>5, <2>6
    <2> HIDE DEF ch, v
    <2>8. Len(ch \o v) = Len(ch) + Len(v) /\ Len(ch) > 0 /\ Len(v) >= 0 /\ Len(ch) \in Nat /\ Len(v) \in Nat
      BY <2>7
    <2>9. Len(ch \o v) = 0
      BY <2>7
    <2> QED
      BY <2>8, <2>9
  <1>9. h.rlens[c] \in Nat \ {0} /\ Left(h.rlens[c], 1) = h.rlens[c] - 1
    <2>1. h.rlens[c] \in Nat
      BY <1>5
    <2> QED
      BY <1>8, <2>1 DEF Left
  <1>10. /\ g \in RingLoops(k) /\ g.do = "alltoall"
         /\ g.rlens = [h.rlens EXCEPT ![c] = @ - 1] /\ g.slens = h.slens
         /\ g = G(c)
    <2>1. g = [h EXCEPT !.rlens[c] = Left(@, 1)]
      <3> HIDE DEF h
      <3> QED
        BY <1>2, <1>5, <1>9 DEF RingLoops
    <2> HIDE DEF h
    <2>2. h.rlens[c] - 1 \in Nat
      BY <1>9
    <2>3. /\ g.rlens = [h.rlens EXCEPT ![c] = @ - 1] /\ g.slens = h.slens /\ g.do = "alltoall"
          /\ g = [do |-> "alltoall", slens |-> h.slens, rlens |-> [h.rlens EXCEPT ![c] = @ - 1]]
      BY <1>2, <1>5 DEF RingLoops
    <2>4. [h.rlens EXCEPT ![c] = @ - 1] \in [Process -> Nat]
      BY <1>5, <2>2
    <2>5. g \in RingLoops(k)
      BY <1>2, <1>5, <2>3, <2>4 DEF RingLoops
    <2> QED
      BY <1>4, <2>1, <2>3, <2>5
  <1>11. /\ f \in Flit /\ DataSeq(k, PartLength(k, p) - h.rlens[c] + 1, PartLength(k, p)) \in Seq(Flit)
         /\ DataSeq(k, PartLength(k, p) - h.rlens[c] + 1, PartLength(k, p))
              = <<f>> \o DataSeq(k, PartLength(k, p) - (h.rlens[c] - 1) + 1, PartLength(k, p))
    <2>1. PartLength(k, p) \in Nat /\ h.rlens[c] \in Nat \ {0}
      BY <1>2, <1>9
    <2> HIDE DEF h, k
    <2> QED
      BY <1>2, <2>1, DataShrinks
  <1>12. g \in StepSet(k)
    BY <1>10 DEF StepSet
  <1>13. ASSUME NEW e \in {"send", "recv"}, NEW q \in Process
         PROVE  StepFlow(e, p, q, k, h) = Moved("recv", c, f, e, q) \o StepFlow(e, p, q, k, g)
    <2>1. StepFlow(e, p, q, k, g) \in Seq(Flit)
      <3> HIDE DEF g, k
      <3> QED
        BY <1>2, <1>12, StepFlowTyped
    <2>2. <<>> \o StepFlow(e, p, q, k, g) = StepFlow(e, p, q, k, g)
      BY <2>1, NoFlits
    <2>3. Moved("recv", c, f, e, q) = IF e = "recv" /\ q = c THEN <<f>> ELSE <<>>
      BY DEF Moved
    <2>4. /\ StepFlow("send", p, q, k, h) = DataSeq(k, PartLength(k, q) - h.slens[q] + 1, PartLength(k, q))
          /\ StepFlow("recv", p, q, k, h) = DataSeq(k, PartLength(k, p) - h.rlens[q] + 1, PartLength(k, p))
      <3> HIDE DEF h, k
      <3> QED
        BY <1>2, RingFlow
    <2>5. /\ StepFlow("send", p, q, k, g) = DataSeq(k, PartLength(k, q) - g.slens[q] + 1, PartLength(k, q))
          /\ StepFlow("recv", p, q, k, g) = DataSeq(k, PartLength(k, p) - g.rlens[q] + 1, PartLength(k, p))
      <3>1. g \in RingLoops(k)
        BY <1>10
      <3> HIDE DEF g, k
      <3> QED
        BY <3>1, RingFlow
    <2>6. /\ g.slens = h.slens /\ g.rlens[c] = h.rlens[c] - 1 /\ (q # c => g.rlens[q] = h.rlens[q])
      <3> HIDE DEF g, h
      <3> QED
        BY <1>5, <1>10
    <2> HIDE DEF g, h, f
    <2>7. CASE e = "recv" /\ q = c
      <3>1. DataSeq(k, PartLength(k, p) - g.rlens[q] + 1, PartLength(k, p))
              = DataSeq(k, PartLength(k, p) - (h.rlens[c] - 1) + 1, PartLength(k, p))
        BY <2>6, <2>7
      <3>2. StepFlow(e, p, q, k, g) = DataSeq(k, PartLength(k, p) - (h.rlens[c] - 1) + 1, PartLength(k, p))
        BY <2>5, <2>7, <3>1
      <3>3. StepFlow(e, p, q, k, h) = DataSeq(k, PartLength(k, p) - h.rlens[c] + 1, PartLength(k, p))
        BY <2>4, <2>7
      <3>4. Moved("recv", c, f, e, q) = <<f>>
        BY <2>3, <2>7
      <3> QED
        BY <1>11, <3>2, <3>3, <3>4 DEF f, h
    <2>8. CASE ~(e = "recv" /\ q = c)
      <3>1. StepFlow(e, p, q, k, h) = StepFlow(e, p, q, k, g)
        BY <2>4, <2>5, <2>6, <2>8
      <3>2. Moved("recv", c, f, e, q) = <<>>
        BY <2>3, <2>8
      <3> QED
        BY <2>2, <3>1, <3>2
    <2> QED
      BY <2>7, <2>8
  <1>14. Moves("recv", p, calls[p], script[p], Loop(g), c, f)
    <2>1. g.do = h.do /\ g.do \notin {"send", "recv"} /\ g.do # "gather"
      BY <1>1, <1>10
    <2>2. script[p] # <<>> /\ c \in Process /\ f \in Flit /\ g \in StepSet(k)
      BY <1>1, <1>11, <1>12
    <2> HIDE DEF g, f
    <2> QED
      BY <1>13, <2>1, <2>2, LoopMoves
  <1>15. TakeFlit(p, c, f) /\ Continue(p, Loop(g)) /\ UNCHANGED <<program, calls>>
    BY <1>3, <1>4, <1>10 DEF AlltoallRecv
  <1> HIDE DEF g, f
  <1> QED
    BY <1>14, <1>15, TakeAction

\* The flits of the loop that gathers.
LEMMA CollectFlow ==
  ASSUME NEW k, NEW h \in GatherLoops(k), NEW p, NEW q
  PROVE  /\ h.lens[q] = 0 => StepFlow("send", p, q, k, h) = <<>> /\ StepFlow("recv", p, q, k, h) = <<>>
         /\ h.lens[q] # 0 => /\ StepFlow("send", p, q, k, h) = (IF h.ack <= q THEN <<Ack(k)>> ELSE <<>>)
                             /\ StepFlow("recv", p, q, k, h) =
                                  DataSeq(k, PartLength(k, GroupRank(k, q)) - h.lens[q] + 1, PartLength(k, GroupRank(k, q)))
  <1>1. h.do = "gather"
    BY DEF GatherLoops
  <1> QED
    BY <1>1 DEF StepFlow

LEMMA GatheringIs ==
  ASSUME CallsInv, NEW p \in Process, script[p] # <<>>, Head(script[p]).do = "gather"
  PROVE  /\ Head(script[p]) \in GatherLoops(calls[p]) /\ IsCallNumber(calls[p]) /\ InGather(calls[p])
         /\ calls[p] \in 1 .. Len(program)
         /\ p = CidFromComm(calls[p], GatherRoot(calls[p])) /\ GatherOk(calls[p], Head(script[p]))
         /\ Script(calls[p], p) # <<>> /\ Head(Script(calls[p], p)) = GatherLoop(calls[p])
         /\ Tail(script[p]) = Tail(Script(calls[p], p))
         /\ Head(script[p]).lens \in [Process -> Nat] /\ Head(script[p]).ack \in Nat
         /\ \A q \in Process : Head(script[p]).lens[q] # 0 => q \in Members(calls[p])
  <1> DEFINE k == calls[p]
             s == script[p]
             h == Head(s)
  <1>1. /\ IsCallNumber(k) /\ h \in StepSet(k) /\ k # 0 /\ k \in 1 .. Len(program)
        /\ ScriptOk(p, k, s) /\ h = s[1] /\ 1 \in 1 .. Len(s)
    <2>1. IsCallNumber(k) => k # 0
      BY DEF IsCallNumber
    <2> QED
      BY <2>1, StepIs
  <1>2. h \in GatherLoops(k)
    <2>1. h.do = "gather"
      OBVIOUS
    <2> HIDE DEF h, k
    <2> QED
      BY <1>1, <2>1, StepKinds
  <1>3. Gathering(p, k, s)
    BY <1>1 DEF ScriptOk
  <1>4. /\ InGather(k) /\ p = CidFromComm(k, GatherRoot(k)) /\ GatherOk(k, s[1])
        /\ Script(k, p) # <<>> /\ Head(Script(k, p)) = GatherLoop(k) /\ Tail(s) = Tail(Script(k, p))
    BY <1>1, <1>3 DEF Gathering
  <1>5. h.lens \in [Process -> Nat] /\ h.ack \in Nat /\ \A q \in Process : h.lens[q] # 0 => q \in Members(k)
    <2> HIDE DEF h, k
    <2> QED
      BY <1>2 DEF GatherLoops
  <1> QED
    BY <1>1, <1>2, <1>4, <1>5

LEMMA GatherStartKeeps == ASSUME CallsInv, NEW p \in Process, GatherStart(p) PROVE CallsInv'
  <1> DEFINE k == calls[p]
             h == Head(script[p])
             g == [h EXCEPT !.ack = @ + 1]
             c == h.ack
             f == Ack(k)
             d == IF h.lens[c] = 0 THEN "none" ELSE "send"
  <1>1. script[p] # <<>> /\ h.do = "gather" /\ h.ack < Size
    BY DEF GatherStart, AtStep
  <1>2. /\ h \in GatherLoops(k) /\ IsCallNumber(k) /\ GatherOk(k, h)
        /\ h.lens \in [Process -> Nat] /\ h.ack \in Nat
    BY <1>1, GatheringIs
  <1>3. c \in Process /\ f \in Flit
    <2>1. c \in 0 .. Size - 1
      <3> HIDE DEF h
      <3> QED
        BY <1>1, <1>2, CallsAssumption
    <2>2. f \in Flit
      <3> HIDE DEF k
      <3> QED
        BY <1>2, FlitsTyped
    <2> QED
      BY <2>1, <2>2 DEF Process
  <1>4. g \in GatherLoops(k) /\ g.do = "gather" /\ g.lens = h.lens /\ g.ack = h.ack + 1
    <2> HIDE DEF h
    <2> QED
      BY <1>2 DEF GatherLoops
  <1>5. GatherOk(k, g)
    <2>1. \A q \in Process : h.ack + 1 <= q => h.ack <= q
      <3> HIDE DEF h
      <3> QED
        BY <1>2 DEF Process
    <2> HIDE DEF h, g
    <2> QED
      BY <1>2, <1>4, <2>1 DEF GatherOk
  <1>6. g \in StepSet(k)
    BY <1>4 DEF StepSet
  <1>7. ASSUME NEW e \in {"send", "recv"}, NEW q \in Process
        PROVE  StepFlow(e, p, q, k, h) = Moved(d, c, f, e, q) \o StepFlow(e, p, q, k, g)
    <2>1. StepFlow(e, p, q, k, g) \in Seq(Flit)
      <3> HIDE DEF g, k
      <3> QED
        BY <1>2, <1>6, StepFlowTyped
    <2>2. /\ <<>> \o StepFlow(e, p, q, k, g) = StepFlow(e, p, q, k, g)
          /\ <<f>> \o <<>> = <<f>>
      <3>1. <<f>> \in Seq(Flit)
        BY <1>3
      <3> HIDE DEF f
      <3> QED
        BY <2>1, <3>1, NoFlits
    <2>3. Moved(d, c, f, e, q) = IF e = d /\ q = c THEN <<f>> ELSE <<>>
      BY DEF Moved
    <2>4. /\ h.lens[q] = 0 => StepFlow("send", p, q, k, h) = <<>> /\ StepFlow("recv", p, q, k, h) = <<>>
          /\ h.lens[q] # 0 => /\ StepFlow("send", p, q, k, h) = (IF h.ack <= q THEN <<Ack(k)>> ELSE <<>>)
                              /\ StepFlow("recv", p, q, k, h) =
                                   DataSeq(k, PartLength(k, GroupRank(k, q)) - h.lens[q] + 1, PartLength(k, GroupRank(k, q)))
      <3> HIDE DEF h, k
      <3> QED
        BY <1>2, CollectFlow
    <2>5. /\ h.lens[q] = 0 => StepFlow("send", p, q, k, g) = <<>> /\ StepFlow("recv", p, q, k, g) = <<>>
          /\ h.lens[q] # 0 => /\ StepFlow("send", p, q, k, g) = (IF h.ack + 1 <= q THEN <<Ack(k)>> ELSE <<>>)
                              /\ StepFlow("recv", p, q, k, g) =
                                   DataSeq(k, PartLength(k, GroupRank(k, q)) - h.lens[q] + 1, PartLength(k, GroupRank(k, q)))
      <3>1. g \in GatherLoops(k) /\ g.lens = h.lens /\ g.ack = h.ack + 1
        BY <1>4
      <3> HIDE DEF g, k, h
      <3> QED
        BY <3>1, CollectFlow
    <2>6. h.ack \in Nat /\ q \in Nat
      BY <1>2, CallsAssumption DEF Process
    <2>7. c = h.ack /\ f = Ack(k)
      OBVIOUS
    <2>8. d = IF h.lens[c] = 0 THEN "none" ELSE "send"
      OBVIOUS
    <2> DEFINE l == h.lens[q]
    <2>9. q = c => h.lens[c] = l
      OBVIOUS
    <2> HIDE DEF g, h, f, c, d, l
    <2>10. CASE e = d /\ q = c
      <3>1. e = "send" /\ h.lens[q] # 0
        BY <2>8, <2>9, <2>10 DEF l
      <3>2. h.ack <= q /\ ~(h.ack + 1 <= q)
        BY <2>6, <2>7, <2>10
      <3>3. StepFlow(e, p, q, k, h) = <<f>> /\ StepFlow(e, p, q, k, g) = <<>>
        BY <2>4, <2>5, <2>7, <3>1, <3>2
      <3>4. Moved(d, c, f, e, q) = <<f>>
        BY <2>3, <2>10
      <3> QED
        BY <2>2, <3>3, <3>4
    <2>11. CASE ~(e = d /\ q = c)
      <3>1. Moved(d, c, f, e, q) = <<>>
        BY <2>3, <2>11
      <3>2. StepFlow(e, p, q, k, h) = StepFlow(e, p, q, k, g)
        <4>1. CASE e = "recv"
          BY <2>4, <2>5, <4>1
        <4>2. CASE e = "send" /\ h.lens[q] = 0
          BY <2>4, <2>5, <4>2
        <4>3. CASE e = "send" /\ h.lens[q] # 0
          <5>1. q # c
            BY <2>8, <2>9, <2>11, <4>3 DEF l
          <5>2. h.ack <= q <=> h.ack + 1 <= q
            BY <2>6, <2>7, <5>1
          <5> QED
            BY <2>4, <2>5, <4>3, <5>2
        <4> QED
          BY <4>1, <4>2, <4>3
      <3> QED
        BY <2>2, <3>1, <3>2
    <2> QED
      BY <2>10, <2>11
  <1>8. Moves(d, p, calls[p], script[p], <<g>>, c, f)
    <2>1. g.do = h.do /\ g.do \notin {"send", "recv"} /\ GatherOk(calls[p], g)
      BY <1>1, <1>4, <1>5
    <2>2. script[p] # <<>> /\ c \in Process /\ f \in Flit /\ g \in StepSet(k)
      BY <1>1, <1>3, <1>6
    <2> HIDE DEF g, f, c, d
    <2> QED
      BY <1>7, <2>1, <2>2, LoopMoves
  <1>9. Continue(p, <<g>>) /\ UNCHANGED <<program, calls, aborted, mixed>>
    BY DEF GatherStart
  <1>10. CASE h.lens[c] = 0
    <2>1. UNCHANGED chan /\ Moves("none", p, calls[p], script[p], <<g>>, c, f)
      BY <1>8, <1>10 DEF GatherStart
    <2> HIDE DEF g, f, c, h
    <2> QED
      BY <1>9, <2>1, RestAction
  <1>11. CASE h.lens[c] # 0
    <2>1. SendFlit(p, c, f) /\ Moves("send", p, calls[p], script[p], <<g>>, c, f)
      BY <1>8, <1>11 DEF GatherStart
    <2> HIDE DEF g, f, c, h
    <2> QED
      BY <1>9, <2>1, SendAction
  <1> QED
    BY <1>10, <1>11

\* What is to come at the beginning of a call.
LEMMA ComingFirst ==
  ASSUME program \in Programs, NEW k \in 1 .. Len(program), NEW e \in {"send", "recv"},
         NEW p \in Process, NEW q \in Process
  PROVE  Coming(e, p, q, k, Script(k, p)) = Later(e, p, q, k - 1)
  <1>1. Len(program) \in Nat
    BY CallsAssumption
  <1>2. k - 1 \in 0 .. Len(program) - 1 /\ (k - 1) + 1 = k
    BY <1>1
  <1> DEFINE c == k - 1
  <1>3. c \in 0 .. Len(program) - 1 /\ c + 1 = k
    BY <1>2
  <1> HIDE DEF c
  <1>4. Later(e, p, q, c) = Flow(e, p, q, c + 1, Script(c + 1, p)) \o Later(e, p, q, c + 1)
    BY <1>3, LaterNext
  <1> QED
    BY <1>3, <1>4 DEF Coming, c

\* The flits of the first step of a script, and of the others.
Begins(e, p, q, k, s) ==
  /\ Flow(e, p, q, k, s) = StepFlow(e, p, q, k, Head(s)) \o Flow(e, p, q, k, Tail(s))
  /\ Flow(e, p, q, k, Tail(s)) \in Seq(Flit)

LEMMA ScriptFirst ==
  ASSUME NEW k, IsCallNumber(k), NEW p \in Process, NEW q \in Process, NEW e,
         NEW s \in Seq(StepSet(k)), s # <<>>
  PROVE  Begins(e, p, q, k, s)
  <1>1. Tail(s) \in Seq(StepSet(k))
    OBVIOUS
  <1> DEFINE t == Tail(s)
  <1>2. t \in Seq(StepSet(k))
    BY <1>1
  <1> HIDE DEF t
  <1>3. Flow(e, p, q, k, t) \in Seq(Flit)
    BY <1>2, FlowList
  <1>4. Flow(e, p, q, k, s) = StepFlow(e, p, q, k, Head(s)) \o Flow(e, p, q, k, Tail(s))
    BY FlowFirst
  <1> QED
    BY <1>3, <1>4 DEF t, Begins

LEMMA AskedReceives ==
  ASSUME NEW k, IsCallNumber(k), InGather(k), NEW q \in Members(k), q \in Process, NEW p \in Process,
         p = CidFromComm(k, GatherRoot(k)), q # p
  PROVE  Len(Flow("recv", q, p, k, Script(k, q))) > 0
  <1>1. Script(k, q) # <<>> /\ Head(Script(k, q)) = [do |-> "recv", cid |-> p, flit |-> Ack(k)]
    BY GatherAsks
  <1>2. Script(k, q) \in Seq(StepSet(k))
    BY Matching
  <1>3. /\ Flow("recv", q, p, k, Script(k, q))
            = StepFlow("recv", q, p, k, Head(Script(k, q))) \o Flow("recv", q, p, k, Tail(Script(k, q)))
        /\ Flow("recv", q, p, k, Tail(Script(k, q))) \in Seq(Flit)
    <2>1. Script(k, q) # <<>>
      BY <1>1
    <2>2. Begins("recv", q, p, k, Script(k, q))
      BY <1>2, <2>1, ScriptFirst
    <2> QED
      BY <2>2 DEF Begins
  <1>4. StepFlow("recv", q, p, k, Head(Script(k, q))) = <<Ack(k)>>
    BY <1>1 DEF StepFlow
  <1>5. Ack(k) \in Flit
    BY FlitsTyped
  <1> DEFINE m == Flow("recv", q, p, k, Tail(Script(k, q)))
             a == Ack(k)
  <1>6. Flow("recv", q, p, k, Script(k, q)) = <<a>> \o m /\ m \in Seq(Flit) /\ a \in Flit
    BY <1>3, <1>4, <1>5
  <1> HIDE DEF m, a
  <1>7. Len(<<a>> \o m) > 0
    BY <1>6
  <1> QED
    BY <1>6, <1>7

\* Nothing is on the way from a process that has not been asked.
LEMMA NotAsked ==
  ASSUME CallsInv, NEW p \in Process, script[p] # <<>>, Head(script[p]).do = "gather",
         NEW q \in Process, Head(script[p]).lens[q] # 0, Head(script[p]).ack <= q
  PROVE  chan[q][p] = <<>>
  <1> DEFINE k == calls[p]
             s == script[p]
             h == Head(s)
             root == CidFromComm(k, GatherRoot(k))
             c == calls[q]
             w == script[q]
  <1>1. /\ h \in GatherLoops(k) /\ IsCallNumber(k) /\ InGather(k) /\ k \in 1 .. Len(program)
        /\ p = root /\ GatherOk(k, h)
        /\ Script(k, p) # <<>> /\ Head(Script(k, p)) = GatherLoop(k) /\ Tail(s) = Tail(Script(k, p))
        /\ q \in Members(k)
    BY GatheringIs
  <1>2. /\ program \in Programs /\ Len(program) \in Nat /\ c \in 0 .. Len(program) /\ ScriptOk(q, c, w)
        /\ chan[p][q] \in Seq(Flit) /\ chan[q][p] \in Seq(Flit)
        /\ chan[p][q] \o Coming("send", p, q, k, s) = Coming("recv", q, p, c, w)
        /\ chan[q][p] \o Coming("send", q, p, c, w) = Coming("recv", p, q, k, s)
        /\ ScriptOk(p, k, s)
    <2>1. program \in Programs /\ Len(program) \in Nat
      BY CallsAssumption DEF CallsInv
    <2>2. /\ c \in 0 .. Len(program) /\ ScriptOk(q, c, w) /\ ScriptOk(p, k, s)
          /\ chan[p][q] \in Seq(Flit) /\ chan[q][p] \in Seq(Flit)
      BY DEF CallsInv
    <2>3. /\ chan[p][q] \o Coming("send", p, q, k, s) = Coming("recv", q, p, c, w)
          /\ chan[q][p] \o Coming("send", q, p, c, w) = Coming("recv", p, q, k, s)
      BY DEF CallsInv
    <2> QED
      BY <2>1, <2>2, <2>3
  <1>0. IsCallNumber(k)
    BY <1>1
  <1>3. GatherRoot(k) \in Ranks(k)
    <2>1. program[k].root \in Ranks(k) /\ GroupSize(k) \in Nat /\ GroupSize(k) >= 1
      <3> HIDE DEF k
      <3> QED
        BY <1>1, GroupIs
    <2> QED
      BY <2>1 DEF GatherRoot, Ranks
  <1>4. /\ GatherLens(k, GatherRoot(k))[q] # 0 /\ h.lens[q] = GatherLens(k, GatherRoot(k))[q]
        /\ q # root
        /\ GatherLens(k, GatherRoot(k)) \in [Process -> Nat]
        /\ GatherLoop(k) \in GatherLoops(k)
    <2>1. h.lens[q] = GatherLens(k, GatherRoot(k))[q]
      BY <1>1 DEF GatherOk
    <2>2. /\ GatherLoop(k) \in StepSet(k) /\ GatherLoop(k).do = "gather"
          /\ GatherLens(k, GatherRoot(k)) \in [Process -> Nat]
          /\ \A r \in Process : GatherLens(k, GatherRoot(k))[r] =
              IF r \in Members(k) /\ r # CidFromComm(k, GatherRoot(k)) THEN PartLength(k, GroupRank(k, r)) ELSE 0
      <3> HIDE DEF k
      <3> QED
        BY <1>1, <1>3, GatherLensIs DEF GatherLoop
    <2>3. q # root
      BY <2>1, <2>2
    <2>4. GatherLoop(k) \in GatherLoops(k)
      <3> HIDE DEF k
      <3> QED
        BY <2>2, StepKinds
    <2> QED
      BY <2>1, <2>2, <2>3, <2>4
  \* The root has exchanged nothing with q in this call,
  <1>5. ASSUME NEW e \in {"send", "recv"}
        PROVE  Coming(e, p, q, k, s) = Later(e, p, q, k - 1)
    <2>1. StepFlow(e, p, q, k, h) = StepFlow(e, p, q, k, GatherLoop(k))
      <3> DEFINE g == GatherLoop(k)
      <3>1. /\ g.lens = GatherLens(k, GatherRoot(k)) /\ g.ack = 0 /\ g \in GatherLoops(k)
        BY <1>4 DEF GatherLoop
      <3>2. g.ack <= q
        BY <3>1, CallsAssumption DEF Process
      <3>3. h.ack <= q /\ h.lens[q] # 0 /\ g.lens[q] = h.lens[q]
        BY <1>4, <3>1
      <3> HIDE DEF g, h, k
      <3>4. StepFlow("send", p, q, k, h) = <<Ack(k)>> /\ StepFlow("send", p, q, k, g) = <<Ack(k)>>
        BY <1>1, <3>1, <3>2, <3>3, CollectFlow
      <3>5. StepFlow("recv", p, q, k, h) = StepFlow("recv", p, q, k, g)
        BY <1>1, <3>1, <3>2, <3>3, CollectFlow
      <3> QED
        BY <3>4, <3>5 DEF g
    <2>2. Script(k, p) \in Seq(StepSet(k)) /\ s \in Seq(StepSet(k))
      <3>1. s \in Seq(StepSet(k))
        BY StepIs
      <3> HIDE DEF k, s
      <3> QED
        BY <1>1, <3>1, Matching
    <2>3. Flow(e, p, q, k, s) = StepFlow(e, p, q, k, Head(s)) \o Flow(e, p, q, k, Tail(s))
      <3>1. s # <<>>
        OBVIOUS
      <3> HIDE DEF k, s
      <3> QED
        BY <1>0, <2>2, <3>1, FlowFirst
    <2>4. Flow(e, p, q, k, Script(k, p)) = StepFlow(e, p, q, k, Head(Script(k, p))) \o Flow(e, p, q, k, Tail(Script(k, p)))
      <3>1. Script(k, p) # <<>>
        BY <1>1
      <3>2. Script(k, p) \in Seq(StepSet(k))
        BY <2>2
      <3>3. Begins(e, p, q, k, Script(k, p))
        <4> HIDE DEF k, s
        <4> QED
          BY <1>0, <3>1, <3>2, ScriptFirst
      <3> QED
        BY <3>3 DEF Begins
    <2>5. Coming(e, p, q, k, s) = Coming(e, p, q, k, Script(k, p))
      BY <1>1, <2>1, <2>3, <2>4 DEF Coming
    <2>6. Coming(e, p, q, k, Script(k, p)) = Later(e, p, q, k - 1)
      <3> HIDE DEF k
      <3> QED
        BY <1>1, <1>2, ComingFirst
    <2> QED
      BY <2>5, <2>6
  <1>6. k - 1 \in 0 .. Len(program) /\ k \in 0 .. Len(program)
    BY <1>1, <1>2
  <1>7. /\ Later("send", p, q, k - 1) = Later("recv", q, p, k - 1)
        /\ Later("send", q, p, k - 1) = Later("recv", p, q, k - 1)
        /\ Later("recv", q, p, k - 1) \in Seq(Flit) /\ Later("send", q, p, k - 1) \in Seq(Flit)
    <2> DEFINE b == k - 1
    <2>1. b \in 0 .. Len(program)
      BY <1>6
    <2> HIDE DEF b, k
    <2>2. /\ Later("send", p, q, b) = Later("recv", q, p, b)
          /\ Later("send", q, p, b) = Later("recv", p, q, b)
      BY <1>2, <2>1, LaterMatches
    <2>3. Later("recv", q, p, b) \in Seq(Flit) /\ Later("send", q, p, b) \in Seq(Flit)
      BY <1>2, <2>1, LaterList
    <2> QED
      BY <2>2, <2>3 DEF b
  <1>8. ASSUME NEW e \in {"send", "recv"}
        PROVE  /\ Coming(e, q, p, c, w) \in Seq(Flit) /\ Len(Coming(e, q, p, c, w)) = Len(Flow(e, q, p, c, w)) + Len(Later(e, q, p, c))
               /\ Flow(e, q, p, c, w) \in Seq(Flit) /\ Later(e, q, p, c) \in Seq(Flit)
    <2> HIDE DEF c, w
    <2> QED
      BY <1>2, ComingTyped
  \* so q has not begun to receive in this call,
  <1>9. Len(Coming("recv", q, p, c, w)) >= Len(Later("recv", q, p, k - 1))
    <2> DEFINE a == chan[p][q]
               m == Coming("send", p, q, k, s)
               n == Coming("recv", q, p, c, w)
    <2>1. m = Later("recv", q, p, k - 1) /\ m \in Seq(Flit) /\ a \in Seq(Flit) /\ n = a \o m
      BY <1>2, <1>5, <1>7
    <2> HIDE DEF a, m, n
    <2>2. Len(n) >= Len(m)
      BY <2>1
    <2> QED
      BY <2>1, <2>2 DEF n
  <1>10. c < k \/ (c = k /\ w = Script(k, q))
    <2>1. SUFFICES ASSUME c > k \/ (c = k /\ w # Script(k, q)) PROVE FALSE
      BY <1>1, <1>2
    <2>2. /\ Later("recv", q, p, k - 1) = Flow("recv", q, p, k, Script(k, q)) \o Later("recv", q, p, k)
          /\ Flow("recv", q, p, k, Script(k, q)) \in Seq(Flit) /\ Later("recv", q, p, k) \in Seq(Flit)
      <3> DEFINE b == k - 1
      <3>1. b \in 0 .. Len(program) - 1 /\ b + 1 = k
        BY <1>1, <1>2
      <3> HIDE DEF b
      <3>2. /\ Later("recv", q, p, b) = Flow("recv", q, p, b + 1, Script(b + 1, q)) \o Later("recv", q, p, b + 1)
            /\ Flow("recv", q, p, b + 1, Script(b + 1, q)) \in Seq(Flit) /\ Later("recv", q, p, b + 1) \in Seq(Flit)
        BY <1>2, <3>1, LaterNext
      <3> QED
        BY <3>1, <3>2 DEF b
    <2> DEFINE l0 == Len(Later("recv", q, p, k - 1))
               l1 == Len(Later("recv", q, p, k))
               lf == Len(Flow("recv", q, p, k, Script(k, q)))
               lc == Len(Coming("recv", q, p, c, w))
    <2>3. l0 = lf + l1 /\ l0 \in Nat /\ l1 \in Nat /\ lf \in Nat
      <3> DEFINE m == Flow("recv", q, p, k, Script(k, q))
                 n == Later("recv", q, p, k)
      <3>1. m \in Seq(Flit) /\ n \in Seq(Flit) /\ Later("recv", q, p, k - 1) = m \o n
        BY <2>2
      <3> HIDE DEF m, n
      <3>2. Len(m \o n) = Len(m) + Len(n) /\ Len(m \o n) \in Nat /\ Len(m) \in Nat /\ Len(n) \in Nat
        BY <3>1
      <3> QED
        BY <3>1, <3>2 DEF m, n
    <2>4. lc \in Nat /\ lc >= l0
      BY <1>8, <1>9
    <2>5. CASE c > k
      <3>1. lf > 0
        <4>1. IsCallNumber(k) /\ InGather(k) /\ q \in Members(k) /\ p = CidFromComm(k, GatherRoot(k)) /\ q # p
          BY <1>1, <1>4
        <4> HIDE DEF k, root
        <4> QED
          BY <4>1, AskedReceives
      <3>2. lc <= l1
        <4> DEFINE b == c - 1
        <4>1. b \in k .. Len(program) /\ b \in 0 .. Len(program) - 1 /\ b + 1 = c /\ c \in 1 .. Len(program) /\ c # 0
          BY <1>1, <1>2, <2>5
        <4>2. Coming("recv", q, p, c, Script(c, q)) = Later("recv", q, p, b)
          <5> HIDE DEF c
          <5> QED
            BY <1>2, <4>1, ComingFirst
        <4>3. Len(Flow("recv", q, p, c, w)) <= Len(Flow("recv", q, p, c, Script(c, q)))
          BY <1>2, <4>1 DEF ScriptOk
        <4>4. Flow("recv", q, p, c, Script(c, q)) \in Seq(Flit)
          <5>1. IsCallNumber(c)
            BY <1>2, <4>1 DEF IsCallNumber
          <5> HIDE DEF c
          <5>2. Script(c, q) \in Seq(StepSet(c))
            BY <5>1, Matching
          <5> QED
            BY <5>1, <5>2, FlowList
        <4>5. Len(Later("recv", q, p, b)) <= l1
          <5> HIDE DEF b, k
          <5> QED
            BY <1>2, <1>6, <4>1, LaterShrinks
        <4> DEFINE m == Flow("recv", q, p, c, Script(c, q))
                   n == Later("recv", q, p, c)
                   lw == Len(Flow("recv", q, p, c, w))
        <4>6. Later("recv", q, p, b) = m \o n
          BY <4>2 DEF Coming
        <4>7. m \in Seq(Flit) /\ n \in Seq(Flit) /\ lw <= Len(m) /\ lw \in Nat /\ lc = lw + Len(n)
          BY <1>8, <4>3, <4>4
        <4> HIDE DEF m, n, lw, lc, l1, b
        <4>8. Len(m \o n) = Len(m) + Len(n) /\ Len(m) \in Nat /\ Len(n) \in Nat
          BY <4>7
        <4> QED
          BY <2>3, <4>5, <4>6, <4>7, <4>8
      <3> HIDE DEF l0, l1, lf, lc
      <3> QED
        BY <2>3, <2>4, <3>1, <3>2
    <2>6. CASE c = k /\ w # Script(k, q)
      <3>1. Asked(q, k, w)
        BY <1>2, <1>1, <2>6 DEF ScriptOk
      <3>2. Len(Flow("recv", q, p, k, w)) < lf
        BY <1>1, <1>4, <2>6, <3>1 DEF Asked
      <3>3. lc = Len(Flow("recv", q, p, k, w)) + l1 /\ Len(Flow("recv", q, p, k, w)) \in Nat
        BY <1>8, <2>6
      <3> HIDE DEF l0, l1, lf, lc
      <3> QED
        BY <2>3, <2>4, <3>2, <3>3
    <2> QED
      BY <2>1, <2>5, <2>6
  \* and it has sent nothing.
  <1>11. Len(Coming("send", q, p, c, w)) >= Len(Later("send", q, p, k - 1))
    <2>1. CASE c = k /\ w = Script(k, q)
      <3>1. Coming("send", q, p, k, Script(k, q)) = Later("send", q, p, k - 1)
        <4> HIDE DEF k
        <4> QED
          BY <1>1, <1>2, ComingFirst
      <3>2. Coming("send", q, p, c, w) = Later("send", q, p, k - 1)
        BY <2>1, <3>1
      <3>3. Len(Later("send", q, p, k - 1)) \in Nat
        BY <1>7
      <3> QED
        BY <3>2, <3>3
    <2>2. CASE c < k
      <3> DEFINE b == k - 1
      <3>1. b \in c .. Len(program) /\ c \in 0 .. Len(program)
        BY <1>1, <1>2, <2>2
      <3>2. Len(Later("send", q, p, b)) <= Len(Later("send", q, p, c))
        <4> HIDE DEF b, c
        <4> QED
          BY <1>2, <3>1, LaterShrinks
      <3> DEFINE l0 == Len(Later("send", q, p, b))
                 l1 == Len(Later("send", q, p, c))
                 lw == Len(Flow("send", q, p, c, w))
                 lc == Len(Coming("send", q, p, c, w))
      <3>3. lc = lw + l1 /\ lw \in Nat /\ l1 \in Nat /\ l0 \in Nat /\ l0 <= l1
        BY <1>7, <1>8, <3>2
      <3> HIDE DEF l0, l1, lw, lc
      <3>4. lc >= l0
        BY <3>3
      <3> QED
        BY <3>4 DEF lc, l0
    <2> QED
      BY <1>10, <2>1, <2>2
  <1> DEFINE a == chan[q][p]
             m == Coming("send", q, p, c, w)
             n == Later("send", q, p, k - 1)
  <1>12. a \in Seq(Flit) /\ m \in Seq(Flit) /\ n \in Seq(Flit) /\ a \o m = n /\ Len(m) >= Len(n)
    BY <1>2, <1>5, <1>7, <1>8, <1>11
  <1> HIDE DEF a, m, n
  <1>13. Len(a \o m) = Len(a) + Len(m) /\ Len(a) \in Nat /\ Len(m) \in Nat /\ Len(n) \in Nat
    BY <1>12
  <1>14. Len(a) = 0
    BY <1>12, <1>13
  <1>15. a = <<>>
    BY <1>12, <1>14
  <1> QED
    BY <1>15 DEF a

LEMMA GatherRecvKeeps == ASSUME CallsInv, NEW p \in Process, GatherRecv(p) PROVE CallsInv'
  <1> DEFINE k == calls[p]
             h == Head(script[p])
             n(q) == PartLength(k, GroupRank(k, q))
             G(q) == [h EXCEPT !.lens[q] = @ - 1]
             F(q) == Data(k, n(q) - h.lens[q] + 1)
  <1>1. script[p] # <<>> /\ h.do = "gather"
    BY DEF GatherRecv, AtStep
  <1>2. PICK c \in Process : h.lens[c] # 0 /\ TakeFlit(p, c, F(c)) /\ Continue(p, Loop(G(c)))
    BY DEF GatherRecv
  <1> DEFINE g == G(c)
             f == F(c)
  <1>3. /\ h \in GatherLoops(k) /\ IsCallNumber(k) /\ GatherOk(k, h)
        /\ h.lens \in [Process -> Nat] /\ h.ack \in Nat
        /\ \A q \in Process : h.lens[q] # 0 => q \in Members(k)
    BY <1>1, GatheringIs
  \* Only those that have been asked have sent something.
  <1>4. ~(h.ack <= c)
    <2>1. chan[c][p] # <<>>
      BY <1>2 DEF TakeFlit, Probe
    <2> QED
      BY <1>1, <1>2, <2>1, NotAsked
  <1>5. /\ g \in GatherLoops(k) /\ g.do = "gather" /\ g.ack = h.ack
        /\ g.lens = [h.lens EXCEPT ![c] = @ - 1] /\ h.lens[c] \in Nat \ {0}
    <2>1. h.lens[c] \in Nat \ {0} /\ h.lens[c] - 1 \in Nat
      <3>1. h.lens[c] \in Nat /\ h.lens[c] # 0
        BY <1>2, <1>3
      <3> HIDE DEF h
      <3> QED
        BY <3>1
    <2>0. InGather(k)
      BY <1>3 DEF GatherLoops
    <2> HIDE DEF h
    <2>2. /\ g.do = "gather" /\ g.ack = h.ack /\ g.lens = [h.lens EXCEPT ![c] = @ - 1]
          /\ g = [do |-> "gather", lens |-> [h.lens EXCEPT ![c] = @ - 1], ack |-> h.ack]
      BY <1>3 DEF GatherLoops
    <2>3. [h.lens EXCEPT ![c] = @ - 1] \in [Process -> Nat]
      BY <1>3, <2>1
    <2>4. \A q \in Process : [h.lens EXCEPT ![c] = @ - 1][q] # 0 => q \in Members(k)
      BY <1>2, <1>3, <2>1
    <2>5. g \in GatherLoops(k)
      BY <1>3, <2>0, <2>2, <2>3, <2>4 DEF GatherLoops
    <2> QED
      BY <2>1, <2>2, <2>5
  <1>6. GatherOk(k, g)
    <2>1. \A q \in Process : h.ack <= q => q # c /\ g.lens[q] = h.lens[q]
      <3> HIDE DEF h, g
      <3> QED
        BY <1>3, <1>4, <1>5
    <2> HIDE DEF h, g
    <2> QED
      BY <1>3, <1>5, <2>1 DEF GatherOk
  <1>7. g \in StepSet(k)
    BY <1>5 DEF StepSet
  <1>8. n(c) \in Nat
    <2>1. c \in Members(k)
      BY <1>2, <1>3
    <2> HIDE DEF k
    <2>2. GroupRank(k, c) \in Ranks(k)
      BY <1>3, <2>1, GroupIs
    <2> QED
      BY <1>3, <2>2, GroupIs
  <1>9. /\ f \in Flit /\ DataSeq(k, n(c) - h.lens[c] + 1, n(c)) \in Seq(Flit)
        /\ DataSeq(k, n(c) - h.lens[c] + 1, n(c)) = <<f>> \o DataSeq(k, n(c) - (h.lens[c] - 1) + 1, n(c))
    <2>1. n(c) \in Nat /\ h.lens[c] \in Nat \ {0}
      BY <1>5, <1>8
    <2> HIDE DEF h, k, n
    <2> QED
      BY <1>3, <2>1, DataShrinks
  <1>10. ASSUME NEW e \in {"send", "recv"}, NEW q \in Process
         PROVE  StepFlow(e, p, q, k, h) = Moved("recv", c, f, e, q) \o StepFlow(e, p, q, k, g)
    <2>1. StepFlow(e, p, q, k, g) \in Seq(Flit)
      <3> HIDE DEF g, k
      <3> QED
        BY <1>3, <1>7, StepFlowTyped
    <2>2. <<>> \o StepFlow(e, p, q, k, g) = StepFlow(e, p, q, k, g)
      BY <2>1, NoFlits
    <2>3. Moved("recv", c, f, e, q) = IF e = "recv" /\ q = c THEN <<f>> ELSE <<>>
      BY DEF Moved
    <2>4. /\ h.lens[q] = 0 => StepFlow("send", p, q, k, h) = <<>> /\ StepFlow("recv", p, q, k, h) = <<>>
          /\ h.lens[q] # 0 => /\ StepFlow("send", p, q, k, h) = (IF h.ack <= q THEN <<Ack(k)>> ELSE <<>>)
                              /\ StepFlow("recv", p, q, k, h) = DataSeq(k, n(q) - h.lens[q] + 1, n(q))
      <3> HIDE DEF h, k
      <3> QED
        BY <1>3, CollectFlow
    <2>5. /\ g.lens[q] = 0 => StepFlow("send", p, q, k, g) = <<>> /\ StepFlow("recv", p, q, k, g) = <<>>
          /\ g.lens[q] # 0 => /\ StepFlow("send", p, q, k, g) = (IF g.ack <= q THEN <<Ack(k)>> ELSE <<>>)
                              /\ StepFlow("recv", p, q, k, g) = DataSeq(k, n(q) - g.lens[q] + 1, n(q))
      <3>1. g \in GatherLoops(k)
        BY <1>5
      <3> HIDE DEF g, k, h
      <3> QED
        BY <3>1, CollectFlow
    <2>6. /\ q # c => g.lens[q] = h.lens[q]
          /\ g.lens[c] = h.lens[c] - 1 /\ g.ack = h.ack /\ h.lens[c] \in Nat \ {0}
      <3> HIDE DEF h, g
      <3> QED
        BY <1>3, <1>5
    <2>7. CASE q # c
      <3>1. StepFlow(e, p, q, k, h) = StepFlow(e, p, q, k, g)
        <4> HIDE DEF h, g, n
        <4> QED
          BY <2>4, <2>5, <2>6, <2>7
      <3>2. Moved("recv", c, f, e, q) = <<>>
        BY <2>3, <2>7
      <3> QED
        BY <2>2, <3>1, <3>2
    <2>8. CASE q = c /\ e = "send"
      <3>1. StepFlow("send", p, c, k, h) = <<>> /\ StepFlow("send", p, c, k, g) = <<>>
        <4> HIDE DEF h, g, n
        <4> QED
          BY <1>2, <1>4, <2>4, <2>5, <2>6, <2>8
      <3>2. Moved("recv", c, f, e, q) = <<>>
        BY <2>3, <2>8
      <3> QED
        BY <2>2, <2>8, <3>1, <3>2
    <2>9. CASE q = c /\ e = "recv"
      <3>1. StepFlow("recv", p, c, k, h) = DataSeq(k, n(c) - h.lens[c] + 1, n(c))
        BY <1>2, <2>4, <2>9
      <3>2. StepFlow("recv", p, c, k, g) = DataSeq(k, n(c) - (h.lens[c] - 1) + 1, n(c))
        <4>1. CASE g.lens[c] # 0
          <5>1. StepFlow("recv", p, c, k, g) = DataSeq(k, n(c) - g.lens[c] + 1, n(c))
            BY <2>5, <2>9, <4>1
          <5> QED
            BY <2>6, <5>1
        <4>2. CASE g.lens[c] = 0
          <5>1. StepFlow("recv", p, c, k, g) = <<>>
            BY <2>5, <2>9, <4>2
          <5>2. DataSeq(k, n(c) - 0 + 1, n(c)) = <<>>
            <6>1. k \in Nat
              <7> HIDE DEF k
              <7> QED
                BY <1>3, GroupIs
            <6> HIDE DEF k, n
            <6> QED
              BY <1>8, <6>1, DataNone
          <5>3. h.lens[c] - 1 = 0
            BY <2>6, <4>2
          <5> QED
            BY <5>1, <5>2, <5>3
        <4> QED
          BY <4>1, <4>2
      <3>3. Moved("recv", c, f, e, q) = <<f>>
        BY <2>3, <2>9
      <3> HIDE DEF h, g, n, f
      <3> QED
        BY <1>9, <2>9, <3>1, <3>2, <3>3
    <2> QED
      BY <2>7, <2>8, <2>9
  <1>11. Moves("recv", p, calls[p], script[p], Loop(g), c, f)
    <2>1. g.do = h.do /\ g.do \notin {"send", "recv"} /\ GatherOk(calls[p], g)
      BY <1>1, <1>5, <1>6
    <2>2. script[p] # <<>> /\ c \in Process /\ f \in Flit /\ g \in StepSet(k)
      BY <1>1, <1>7, <1>9
    <2> HIDE DEF g, f
    <2> QED
      BY <1>10, <2>1, <2>2, LoopMoves
  <1>12. TakeFlit(p, c, f) /\ Continue(p, Loop(g)) /\ UNCHANGED <<program, calls>>
    BY <1>2 DEF GatherRecv
  <1> HIDE DEF g, f
  <1> QED
    BY <1>11, <1>12, TakeAction

\* A process that begins a call has all of it to do.
LEMMA BeginOk ==
  ASSUME NEW k, IsCallNumber(k), NEW p \in Process
  PROVE  ScriptOk(p, k, Script(k, p))
  <1> DEFINE s == Script(k, p)
  <1>1. k # 0 /\ s \in Seq(StepSet(k))
    BY Matching DEF IsCallNumber
  <1>2. ASSUME NEW d \in {"send", "recv"}, NEW q \in Process
        PROVE  Len(Flow(d, p, q, k, s)) <= Len(Flow(d, p, q, k, s))
    <2>1. Flow(d, p, q, k, s) \in Seq(Flit)
      BY <1>1, FlowList
    <2> DEFINE m == Flow(d, p, q, k, s)
    <2>2. m \in Seq(Flit)
      BY <2>1
    <2> HIDE DEF m
    <2>3. Len(m) <= Len(m)
      BY <2>2
    <2> QED
      BY <2>3 DEF m
  <1>3. Asked(p, k, s)
    BY DEF Asked
  <1>4. ASSUME NEW i \in 1 .. Len(s), s[i].do = "gather"
        PROVE  /\ i = 1 /\ InGather(k) /\ p = CidFromComm(k, GatherRoot(k))
               /\ s # <<>> /\ Head(s) = GatherLoop(k) /\ GatherOk(k, s[1])
    <2>1. i = 1 /\ InGather(k) /\ p = CidFromComm(k, GatherRoot(k)) /\ s[1] = GatherLoop(k)
      BY <1>4, GatherFirst
    <2>2. s # <<>> /\ Head(s) = s[1]
      <3>1. s \in Seq(StepSet(k)) /\ 1 \in 1 .. Len(s)
        BY <1>1, <1>4, <2>1
      <3> HIDE DEF s
      <3> QED
        BY <3>1
    <2>3. GatherOk(k, GatherLoop(k))
      BY DEF GatherOk, GatherLoop
    <2> QED
      BY <2>1, <2>2, <2>3
  <1>5. Gathering(p, k, s)
    <2> HIDE DEF s
    <2> QED
      BY <1>4 DEF Gathering, s
  <1>6. \A i \in 1 .. Len(s) : s[i].do = "alltoall" => i = Len(s)
    BY RingLast
  <1> QED
    BY <1>1, <1>2, <1>3, <1>5, <1>6 DEF ScriptOk

LEMMA CallKeeps == ASSUME CallsInv, NEW p \in Process, Call(p) PROVE CallsInv'
  <1> DEFINE k == calls[p]
             c == calls[p] + 1
  <1>1. /\ program \in Programs /\ ~aborted /\ ~mixed
        /\ calls \in [Process -> 0 .. Len(program)]
        /\ script = [r \in Process |-> script[r]]
        /\ chan \in [Process -> [Process -> Seq(Flit)]]
        /\ \A r \in Process : ScriptOk(r, calls[r], script[r])
        /\ \A a, b \in Process :
             chan[a][b] \o Coming("send", a, b, calls[a], script[a]) = Coming("recv", b, a, calls[b], script[b])
    BY DEF CallsInv
  <1>2. /\ script[p] = <<>> /\ calls[p] < Len(program)
        /\ calls' = [calls EXCEPT ![p] = c] /\ script' = [script EXCEPT ![p] = Script(c, p)]
        /\ program' = program /\ chan' = chan /\ aborted' = aborted /\ mixed' = mixed
    BY DEF Call
  <1>3. Len(program) \in Nat
    BY <1>1, CallsAssumption
  <1>4. k \in 0 .. Len(program) - 1 /\ c \in 1 .. Len(program) /\ c \in 0 .. Len(program)
    BY <1>1, <1>2, <1>3
  <1>5. IsCallNumber(c)
    BY <1>1, <1>4 DEF IsCallNumber
  <1>6. calls' \in [Process -> 0 .. Len(program)] /\ script' = [r \in Process |-> script'[r]]
    BY <1>1, <1>2, <1>4
  <1>7. ASSUME NEW r \in Process
        PROVE  /\ r = p => calls'[r] = c /\ script'[r] = Script(c, p)
               /\ r # p => calls'[r] = calls[r] /\ script'[r] = script[r]
    BY <1>1, <1>2
  <1>8. ASSUME NEW r \in Process PROVE ScriptOk(r, calls[r], script[r])'
    <2>1. ScriptOk(p, c, Script(c, p))
      <3> HIDE DEF c
      <3> QED
        BY <1>5, BeginOk
    <2>2. ScriptOk(r, calls'[r], script'[r])
      BY <1>1, <1>7, <2>1
    <2> QED
      BY <1>2, <2>2, ScriptOkStays
  <1>9. ASSUME NEW e \in {"send", "recv"}, NEW r \in Process, NEW q \in Process
        PROVE  Coming(e, r, q, calls'[r], script'[r]) = Coming(e, r, q, calls[r], script[r])
    <2>1. CASE r = p
      <3>1. Coming(e, p, q, k, <<>>) = Later(e, p, q, k)
        <4>1. Flow(e, p, q, k, <<>>) = <<>>
          BY FlowEmpty
        <4>2. Later(e, p, q, k) \in Seq(Flit)
          <5> HIDE DEF k
          <5>1. k \in 0 .. Len(program)
            BY <1>3, <1>4
          <5> QED
            BY <1>1, <5>1, LaterList
        <4> QED
          BY <4>1, <4>2, NoFlits DEF Coming
      <3>2. Coming(e, p, q, c, Script(c, p)) = Later(e, p, q, c - 1)
        <4> HIDE DEF c
        <4> QED
          BY <1>1, <1>4, ComingFirst
      <3>3. c - 1 = k
        BY <1>4
      <3>4. calls'[p] = c /\ script'[p] = Script(c, p)
        BY <1>7
      <3> QED
        BY <1>2, <2>1, <3>1, <3>2, <3>3, <3>4
    <2>2. CASE r # p
      BY <1>7, <2>2
    <2> QED
      BY <2>1, <2>2
  <1>10. ASSUME NEW a \in Process, NEW b \in Process
         PROVE  (chan[a][b] \o Coming("send", a, b, calls[a], script[a]) = Coming("recv", b, a, calls[b], script[b]))'
    <2>1. chan'[a][b] \o Coming("send", a, b, calls'[a], script'[a]) = Coming("recv", b, a, calls'[b], script'[b])
      <3>1. Coming("send", a, b, calls'[a], script'[a]) = Coming("send", a, b, calls[a], script[a])
        BY <1>9
      <3>2. Coming("recv", b, a, calls'[b], script'[b]) = Coming("recv", b, a, calls[b], script[b])
        BY <1>9
      <3> QED
        BY <1>1, <1>2, <3>1, <3>2
    <2>2. /\ Coming("send", a, b, calls[a], script[a])' = Coming("send", a, b, calls'[a], script'[a])
          /\ Coming("recv", b, a, calls[b], script[b])' = Coming("recv", b, a, calls'[b], script'[b])
      BY <1>2, ComingStays
    <2> QED
      BY <2>1, <2>2
  <1> QED
    BY <1>1, <1>2, <1>6, <1>8, <1>10 DEF CallsInv

\* The invariant at the beginning, in a step in which the calls rest, and in every step.
LEMMA CallsInitially == Init => CallsInv
  <1>1. SUFFICES ASSUME Init PROVE CallsInv
    OBVIOUS
  <1>2. /\ program \in Programs /\ calls = [p \in Process |-> 0] /\ script = [p \in Process |-> <<>>]
        /\ chan = [p \in Process |-> [q \in Process |-> <<>>]] /\ ~aborted /\ ~mixed
    BY <1>1 DEF Init
  <1>3. Len(program) \in Nat
    BY <1>2, CallsAssumption
  <1>4. calls \in [Process -> 0 .. Len(program)] /\ chan \in [Process -> [Process -> Seq(Flit)]]
        /\ script = [p \in Process |-> script[p]]
    <2>1. <<>> \in Seq(Flit) /\ 0 \in 0 .. Len(program)
      BY <1>3
    <2> QED
      BY <1>2, <2>1
  <1>5. ASSUME NEW p \in Process PROVE ScriptOk(p, calls[p], script[p])
    BY <1>2 DEF ScriptOk
  <1>6. ASSUME NEW d \in {"send", "recv"}, NEW p \in Process, NEW q \in Process
        PROVE  Coming(d, p, q, calls[p], script[p]) = Later(d, p, q, 0) /\ Later(d, p, q, 0) \in Seq(Flit)
    <2>1. Flow(d, p, q, 0, <<>>) = <<>>
      BY FlowEmpty
    <2>2. Later(d, p, q, 0) \in Seq(Flit)
      <3>1. 0 \in 0 .. Len(program)
        BY <1>3
      <3> QED
        BY <1>2, <3>1, LaterList
    <2>3. Coming(d, p, q, 0, <<>>) = Later(d, p, q, 0)
      BY <2>1, <2>2, NoFlits DEF Coming
    <2>4. calls[p] = 0 /\ script[p] = <<>>
      BY <1>2
    <2> QED
      BY <2>2, <2>3, <2>4
  <1>7. ASSUME NEW p \in Process, NEW q \in Process
        PROVE  chan[p][q] \o Coming("send", p, q, calls[p], script[p]) = Coming("recv", q, p, calls[q], script[q])
    <2>1. Later("send", p, q, 0) = Later("recv", q, p, 0)
      <3>1. 0 \in 0 .. Len(program)
        BY <1>3
      <3> QED
        BY <1>2, <3>1, LaterMatches
    <2>2. chan[p][q] = <<>>
      BY <1>2
    <2>3. Coming("send", p, q, calls[p], script[p]) = Later("send", p, q, 0) /\ Later("send", p, q, 0) \in Seq(Flit)
      BY <1>6
    <2>4. Coming("recv", q, p, calls[q], script[q]) = Later("recv", q, p, 0)
      BY <1>6
    <2> QED
      BY <2>1, <2>2, <2>3, <2>4, NoFlits
  <1> QED
    BY <1>2, <1>4, <1>5, <1>7 DEF CallsInv

LEMMA CallsRest == ASSUME CallsInv, UNCHANGED vars PROVE CallsInv'
  <1>1. /\ program' = program /\ calls' = calls /\ script' = script /\ chan' = chan
        /\ aborted' = aborted /\ mixed' = mixed
    BY DEF vars
  <1>2. ASSUME NEW p \in Process PROVE ScriptOk(p, calls[p], script[p])'
    <2>1. ScriptOk(p, calls'[p], script'[p])
      BY <1>1 DEF CallsInv
    <2> QED
      BY <1>1, <2>1, ScriptOkStays
  <1>3. ASSUME NEW a \in Process, NEW b \in Process
        PROVE  (chan[a][b] \o Coming("send", a, b, calls[a], script[a]) = Coming("recv", b, a, calls[b], script[b]))'
    <2>1. chan'[a][b] \o Coming("send", a, b, calls'[a], script'[a]) = Coming("recv", b, a, calls'[b], script'[b])
      BY <1>1 DEF CallsInv
    <2>2. /\ Coming("send", a, b, calls[a], script[a])' = Coming("send", a, b, calls'[a], script'[a])
          /\ Coming("recv", b, a, calls[b], script[b])' = Coming("recv", b, a, calls'[b], script'[b])
      BY <1>1, ComingStays
    <2> QED
      BY <2>1, <2>2
  <1> QED
    BY <1>1, <1>2, <1>3 DEF CallsInv

LEMMA CallsStep == ASSUME CallsInv, AlltoallLast, NEW p \in Process, Step(p) PROVE CallsInv'
  BY CallKeeps, SendStepKeeps, RecvStepKeeps, WaitForAckKeeps, GatherStartKeeps, GatherRecvKeeps,
     ExchangeSendKeeps, ExchangeRecvKeeps, AlltoallSendKeeps, AlltoallRecvKeeps DEF Step

\* After the last call everything has been received.
LEMMA CallsEmpty == ASSUME CallsInv PROVE NothingLeft
  <1>1. SUFFICES ASSUME \A r \in Process : Returned(r), NEW p \in Process, NEW q \in Process
                 PROVE  chan[p][q] = <<>>
    BY DEF NothingLeft
  <1>2. /\ program \in Programs /\ chan[p][q] \in Seq(Flit)
        /\ chan[p][q] \o Coming("send", p, q, calls[p], script[p]) = Coming("recv", q, p, calls[q], script[q])
    BY DEF CallsInv
  <1>3. ASSUME NEW d \in {"send", "recv"}, NEW a \in Process, NEW b \in Process
        PROVE  Coming(d, a, b, calls[a], script[a]) = <<>>
    <2>1. calls[a] = Len(program) /\ script[a] = <<>>
      BY <1>1 DEF Returned
    <2>2. Later(d, a, b, Len(program)) = <<>>
      BY <1>2, LaterNone
    <2>3. Flow(d, a, b, Len(program), <<>>) = <<>>
      BY FlowEmpty
    <2> QED
      BY <2>1, <2>2, <2>3, NoFlits DEF Coming
  <1>4. chan[p][q] \o <<>> = <<>>
    BY <1>2, <1>3
  <1> QED
    BY <1>2, <1>4, NoFlits
-----------------------------------------------------------------------------
\* The exchange in place: its invariant, which the other calls do not touch.
ReplaceInv == replacing \in BOOLEAN /\ (replacing => Replace!Inv /\ Replace!Balance)

LEMMA ReplaceInvInitially == LibraryInit => ReplaceInv
  BY LibraryAssumption, Replace!Initially, Replace!BalanceInitially DEF LibraryInit, ReplaceInv

LEMMA ReplaceInvKept == ReplaceInv /\ [LibraryNext]_libraryVars => ReplaceInv'
  <1>1. SUFFICES ASSUME ReplaceInv, [LibraryNext]_libraryVars
                 PROVE  ReplaceInv'
    OBVIOUS
  <1>2. CASE UNCHANGED libraryVars
    <2>1. UNCHANGED Replace!vars /\ replacing' = replacing
      BY <1>2 DEF libraryVars, replaceVars, Replace!vars
    <2> QED
      BY <1>1, <2>1, Replace!StutterKeeps, Replace!BalanceStutters DEF ReplaceInv
  <1>3. ASSUME NEW p \in Process, LibraryStep(p)
        PROVE  ReplaceInv'
    <2>1. p \in Replace!Process
      BY DEF Process, Replace!Process
    <2> QED
      BY <1>1, <1>3, <2>1, LibraryAssumption, Replace!StepKeeps, Replace!BalanceStep
         DEF LibraryStep, ReplaceInv
  <1> QED
    BY <1>1, <1>2, <1>3 DEF LibraryNext

\* In the library, too, MPI_Sendrecv_replace sends the data of before the call,
\* for every number of processes and whatever else the program may call.
THEOREM LibrarySendsOriginal == LibrarySpec => []SendsOriginal
  <1>1. ReplaceInv => SendsOriginal
    BY LibraryAssumption, Replace!ChannelsHoldData DEF ReplaceInv, SendsOriginal
  <1> QED
    BY <1>1, ReplaceInvInitially, ReplaceInvKept, PTL DEF LibrarySpec

\* In the library, too, an exchange in place never comes to a state in which all
\* processes wait for one another.
THEOREM LibraryExchangeGoesOn == LibrarySpec => []ExchangeGoesOn
  <1>1. ReplaceInv => ExchangeGoesOn
    BY LibraryAssumption, Replace!NotEverybodyWaits DEF ReplaceInv, ExchangeGoesOn
  <1> QED
    BY <1>1, ReplaceInvInitially, ReplaceInvKept, PTL DEF LibrarySpec

-----------------------------------------------------------------------------
\* The other calls.
OtherCallsInv == replacing \in BOOLEAN /\ (~replacing => CallsInv)

LEMMA OtherCallsInitially == LibraryInit => OtherCallsInv
  BY CallsInitially DEF LibraryInit, OtherCallsInv

LEMMA OtherCallsKept ==
  ASSUME AlltoallLast
  PROVE  OtherCallsInv /\ [LibraryNext]_libraryVars => OtherCallsInv'
  <1>1. SUFFICES ASSUME OtherCallsInv, [LibraryNext]_libraryVars
                 PROVE  OtherCallsInv'
    OBVIOUS
  <1>2. CASE UNCHANGED libraryVars
    <2>1. UNCHANGED vars /\ replacing' = replacing
      BY <1>2 DEF libraryVars, callVars, vars
    <2> QED
      BY <1>1, <2>1, CallsRest DEF OtherCallsInv
  <1>3. ASSUME NEW p \in Process, LibraryStep(p)
        PROVE  OtherCallsInv'
    BY <1>1, <1>3, CallsStep DEF LibraryStep, OtherCallsInv
  <1> QED
    BY <1>1, <1>2, <1>3 DEF LibraryNext

\* Every flit is received in the call for which it was sent, and for its place in
\* the message, whatever the calls, the communicators and the lengths are.
THEOREM LibraryReceivesTheirs ==
  ASSUME AlltoallLast
  PROVE  LibrarySpec => []CallsReceiveTheirs
  <1>1. OtherCallsInv => CallsReceiveTheirs
    BY DEF OtherCallsInv, CallsReceiveTheirs, NothingMixed, CallsInv
  <1> QED
    BY <1>1, OtherCallsInitially, OtherCallsKept, PTL DEF LibrarySpec

\* When all processes have returned from all calls, no flit is on the way.
THEOREM LibraryLeavesNothing ==
  ASSUME AlltoallLast
  PROVE  LibrarySpec => []CallsLeaveNothing
  <1>1. OtherCallsInv => CallsLeaveNothing
    BY CallsEmpty DEF OtherCallsInv, CallsLeaveNothing
  <1> QED
    BY <1>1, OtherCallsInitially, OtherCallsKept, PTL DEF LibrarySpec

\* The asserts on acknowledgements and headers hold in all calls.
THEOREM LibraryAsserts ==
  ASSUME AlltoallLast
  PROVE  LibrarySpec => []AssertsHold
  <1>1. OtherCallsInv /\ ReplaceInv => AssertsHold
    <2>1. replacing /\ ReplaceInv => ~aborted
      BY DEF ReplaceInv, Replace!Inv
    <2>2. ~replacing /\ OtherCallsInv => ~aborted
      BY DEF OtherCallsInv, CallsInv
    <2> QED
      BY <2>1, <2>2 DEF OtherCallsInv, AssertsHold
  <1> QED
    BY <1>1, OtherCallsInitially, OtherCallsKept, ReplaceInvInitially, ReplaceInvKept, PTL DEF LibrarySpec
=============================================================================
