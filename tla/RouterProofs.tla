----------------------------- MODULE RouterProofs -----------------------------
(***************************************************************************)
(* What the PaterNoster routers of src/macsim/src/noc do with flits, for   *)
(* tori and buffers of every size.                                         *)
(*                                                                         *)
(* First, that pnbe0, pnbe1, pnbe2, caerus and pnoa lose no flit but those *)
(* they count as lost, and double none.  A cycle of a router is a chain of *)
(* stages; a lemma for each shows that it keeps the number of places that  *)
(* hold a given flit (Load), the exchange moves outputs to inputs of other *)
(* nodes (OverTheWires), and so the invariant Keeping holds after a cycle: *)
(* a flit that is under way is in one place of one router, any other in    *)
(* none.                                                                   *)
(*                                                                         *)
(* Second, that the schedule of pnoa keeps every place free that a flit is *)
(* put into, although nothing in pnoa.c asks.  A flit d columns away is    *)
(* sent east in cycle Departure(d) of a round and passes one router per    *)
(* cycle, so it turns north in cycle Arrival(d).  The departures of two    *)
(* distances are Width - 2 cycles apart, which is the time the nearer one  *)
(* of the flits needs, and two arrivals are Width - 1 cycles apart, in     *)
(* which the flit leaves its column.  The invariant PnoaInv says of every  *)
(* flit in a row, in a corner slot and in a column that it is where this   *)
(* schedule wants it; the lemmas follow it through the stages of a cycle   *)
(* in the order of the code.                                               *)
(*                                                                         *)
(* Third, that the formulas of pnaa for its schedule leave out no pair of  *)
(* nodes of an even torus.                                                 *)
(***************************************************************************)
EXTENDS Pnoa, SequenceTheorems, FiniteSetTheorems, WellFoundedInduction, TLAPS

CONSTANT CounterThreshold   \* of caerus

-----------------------------------------------------------------------------
\* How often a flit is in a list.

\* How often a place, or a buffer, holds the flit with number k of flow f.
One(fc, f, k) == IF IsFlit(fc, f, k) THEN 1 ELSE 0

\* The places of a list where flit k of flow f is, and their number.
Found(q, f, k) == {i \in 1 .. Len(q) : IsFlit(q[i], f, k)}
Times(q, f, k) == Cardinality(Found(q, f, k))

\* A list has finitely many places.
LEMMA TimesTyped ==
  ASSUME NEW S, NEW q \in Seq(S), NEW f, NEW k
  PROVE  IsFiniteSet(Found(q, f, k)) /\ Times(q, f, k) \in Nat
  <1>1. Len(q) \in Nat /\ IsFiniteSet(1 .. Len(q))
    BY FS_Interval
  <1>2. Found(q, f, k) \in SUBSET (1 .. Len(q))
    BY DEF Found
  <1>3. IsFiniteSet(Found(q, f, k))
    BY <1>1, <1>2, FS_Subset
  <1> QED
    BY <1>3, FS_CardinalityType DEF Times

\* A list of one place.
LEMMA TimesOne ==
  ASSUME NEW x, NEW f, NEW k
  PROVE  Times(<<x>>, f, k) = One(x, f, k)
  <1>1. Found(<<x>>, f, k) = IF IsFlit(x, f, k) THEN {1} ELSE {}
    BY DEF Found
  <1> QED
    BY <1>1, FS_EmptySet, FS_Singleton DEF Times, One

\* An empty list holds no flit.
LEMMA TimesEmpty ==
  ASSUME NEW f, NEW k
  PROVE  Times(<<>>, f, k) = 0
  <1>1. Found(<<>>, f, k) = {}
    BY DEF Found
  <1> QED
    BY <1>1, FS_EmptySet DEF Times

\* The flits of two sequences one behind the other.
LEMMA TimesConcat ==
  ASSUME NEW S, NEW p \in Seq(S), NEW q \in Seq(S), NEW f, NEW k
  PROVE  Times(p \o q, f, k) = Times(p, f, k) + Times(q, f, k)
  <1> DEFINE A == Found(p, f, k)
             B == Found(q, f, k)
             C == {i \in Len(p) + 1 .. Len(p) + Len(q) : IsFlit(q[i - Len(p)], f, k)}
             g == [i \in B |-> Len(p) + i]
  <1>1. Len(p) \in Nat /\ Len(q) \in Nat /\ Len(p \o q) = Len(p) + Len(q)
    OBVIOUS
  <1>2. \A i \in 1 .. Len(p) + Len(q) : (p \o q)[i] = IF i <= Len(p) THEN p[i] ELSE q[i - Len(p)]
    BY ConcatProperties
  <1>3. Found(p \o q, f, k) = A \cup C
    <2>1. ASSUME NEW i PROVE i \in Found(p \o q, f, k) <=> i \in A \cup C
      <3>1. CASE i \in 1 .. Len(p)
        BY <1>1, <1>2, <3>1 DEF Found
      <3>2. CASE i \in Len(p) + 1 .. Len(p) + Len(q)
        BY <1>1, <1>2, <3>2 DEF Found
      <3>3. CASE i \notin 1 .. Len(p) /\ i \notin Len(p) + 1 .. Len(p) + Len(q)
        BY <1>1, <3>3 DEF Found
      <3> QED
        BY <3>1, <3>2, <3>3
    <2> QED
      BY <2>1
  <1>4. A \cap C = {}
    BY <1>1 DEF Found
  <1>5. ExistsBijection(B, C)
    <2>1. g \in [B -> C]
      BY <1>1 DEF Found
    <2>2. \A i, j \in B : g[i] = g[j] => i = j
      BY <1>1 DEF Found
    <2>3. \A j \in C : \E i \in B : g[i] = j
      <3> TAKE j \in C
      <3>1. j - Len(p) \in B /\ Len(p) + (j - Len(p)) = j
        BY <1>1 DEF Found
      <3> QED
        BY <3>1
    <2> HIDE DEF g, B, C
    <2>4. g \in Bijection(B, C)
      BY <2>1, <2>2, <2>3 DEF Bijection, Injection, Surjection, IsInjective
    <2> QED
      BY <2>4 DEF ExistsBijection
  <1>6. IsFiniteSet(A) /\ IsFiniteSet(B) /\ Cardinality(A) \in Nat /\ Cardinality(B) \in Nat
    BY TimesTyped, FS_CardinalityType
  <1> HIDE DEF A, B, C
  <1>7. IsFiniteSet(C) /\ Cardinality(C) = Cardinality(B)
    BY <1>5, <1>6, FS_Bijection
  <1>8. Cardinality(A \cup C) = Cardinality(A) + Cardinality(C) - Cardinality(A \cap C)
    BY <1>6, <1>7, FS_Union
  <1>9. Cardinality(A \cap C) = 0
    BY <1>4, FS_EmptySet
  <1>10. Cardinality(A \cup C) = Cardinality(A) + Cardinality(B)
    BY <1>6, <1>7, <1>8, <1>9
  <1> QED
    BY <1>3, <1>10 DEF Times, A, B

\* msgenque and flitfifo_insert add one flit at the end.
LEMMA TimesAppend ==
  ASSUME NEW S, NEW q \in Seq(S), NEW x \in S, NEW f, NEW k
  PROVE  Times(Append(q, x), f, k) = Times(q, f, k) + One(x, f, k)
  <1> DEFINE e == <<x>>
  <1>1. e \in Seq(S) /\ Append(q, x) = q \o e
    BY AppendIsConcat
  <1>2. Times(e, f, k) = One(x, f, k)
    BY TimesOne
  <1> HIDE DEF e
  <1>3. Times(q \o e, f, k) = Times(q, f, k) + Times(e, f, k)
    BY <1>1, TimesConcat
  <1> QED
    BY <1>1, <1>2, <1>3

\* msgdeque and flitfifo_remove take the oldest flit.
LEMMA TimesTail ==
  ASSUME NEW S, NEW q \in Seq(S), q # <<>>, NEW f, NEW k
  PROVE  Times(q, f, k) = One(Head(q), f, k) + Times(Tail(q), f, k)
  <1> DEFINE e == <<Head(q)>>
             t == Tail(q)
  <1>1. Head(q) \in S /\ t \in Seq(S) /\ e \in Seq(S)
    OBVIOUS
  <1>2. q = e \o t
    <2> DEFINE s == e \o t
    <2>1. /\ s \in Seq(S) /\ Len(s) = Len(q)
          /\ \A i \in 1 .. Len(q) : s[i] = q[i]
      OBVIOUS
    <2> QED
      BY <2>1, SeqEqual
  <1>3. Times(e, f, k) = One(Head(q), f, k)
    BY TimesOne
  <1> HIDE DEF e, t
  <1>4. Times(e \o t, f, k) = Times(e, f, k) + Times(t, f, k)
    BY <1>1, TimesConcat
  <1> QED
    BY <1>2, <1>3, <1>4 DEF t

\* msgdeque_rank takes one flit out of the middle.
LEMMA TimesRemoved ==
  ASSUME NEW S, NEW q \in Seq(S), NEW i \in 1 .. Len(q), NEW f, NEW k
  PROVE  /\ RemoveAt(q, i) \in Seq(S)
         /\ Times(q, f, k) = Times(RemoveAt(q, i), f, k) + One(q[i], f, k)
         /\ \A j \in 1 .. Len(RemoveAt(q, i)) : \E m \in 1 .. Len(q) : RemoveAt(q, i)[j] = q[m]
  <1> DEFINE p == SubSeq(q, 1, i - 1)
             r == SubSeq(q, i + 1, Len(q))
             e == <<q[i]>>
  <1>1. /\ p \in Seq(S) /\ r \in Seq(S) /\ e \in Seq(S) /\ q[i] \in S
        /\ Len(p) = i - 1 /\ Len(r) = Len(q) - i
        /\ \A j \in 1 .. Len(p) : p[j] = q[j]
        /\ \A j \in 1 .. Len(r) : r[j] = q[i + j]
        /\ Len(q) \in Nat
    OBVIOUS
  <1>2. RemoveAt(q, i) = p \o r
    BY DEF RemoveAt
  <1>3. q = p \o (e \o r)
    <2> DEFINE t == e \o r
    <2>1. t \in Seq(S) /\ Len(t) = 1 + Len(r) /\ \A j \in 1 .. 1 + Len(r) : t[j] = q[i + j - 1]
      <3>1. /\ t \in Seq(S) /\ Len(t) = 1 + Len(r)
            /\ \A j \in 1 .. 1 + Len(r) : t[j] = IF j <= 1 THEN q[i] ELSE r[j - 1]
        BY <1>1, ConcatProperties
      <3> HIDE DEF r, p, t
      <3>2. \A j \in 1 .. 1 + Len(r) : j > 1 => r[j - 1] = q[i + j - 1]
        <4> TAKE j \in 1 .. 1 + Len(r)
        <4>1. j > 1 => j - 1 \in 1 .. Len(r) /\ i + (j - 1) = i + j - 1
          BY <1>1
        <4> QED
          BY <1>1, <4>1
      <3>3. \A j \in 1 .. 1 + Len(r) : j <= 1 => i + j - 1 = i
        BY <1>1
      <3> QED
        BY <1>1, <3>1, <3>2, <3>3
    <2> HIDE DEF t, p, r
    <2>2. /\ p \o t \in Seq(S) /\ Len(p \o t) = Len(p) + Len(t)
          /\ \A j \in 1 .. Len(p) + Len(t) : (p \o t)[j] = IF j <= Len(p) THEN p[j] ELSE t[j - Len(p)]
      BY <1>1, <2>1, ConcatProperties
    <2>3. Len(p \o t) = Len(q)
      BY <1>1, <2>1, <2>2
    <2>4. \A j \in 1 .. Len(q) : (p \o t)[j] = q[j]
      <3> TAKE j \in 1 .. Len(q)
      <3>0. j \in Nat /\ Len(p) \in Nat /\ j \in 1 .. Len(p) + Len(t)
        BY <1>1, <2>1, <2>2, <2>3
      <3>1. CASE j <= Len(p)
        <4>1. (p \o t)[j] = p[j]
          BY <2>2, <3>0, <3>1
        <4>2. j \in 1 .. Len(p)
          BY <3>0, <3>1
        <4> QED
          BY <1>1, <4>1, <4>2
      <3>2. CASE j > Len(p)
        <4>1. j - Len(p) \in 1 .. 1 + Len(r) /\ i + (j - Len(p)) - 1 = j
          BY <1>1, <3>2
        <4>2. t[j - Len(p)] = q[j]
          BY <2>1, <4>1
        <4>3. (p \o t)[j] = t[j - Len(p)]
          BY <2>2, <3>0, <3>2
        <4> QED
          BY <4>2, <4>3
      <3> QED
        BY <3>0, <3>1, <3>2
    <2>5. p \o t = q
      BY <2>2, <2>3, <2>4, SeqEqual
    <2> QED
      BY <2>5 DEF t
  <1>4. e \o r \in Seq(S) /\ Times(e, f, k) = One(q[i], f, k)
    BY <1>1, TimesOne
  <1> HIDE DEF p, r, e
  <1>5. Times(q, f, k) = Times(p, f, k) + (One(q[i], f, k) + Times(r, f, k))
    <2>1. Times(p \o (e \o r), f, k) = Times(p, f, k) + Times(e \o r, f, k)
      <3> DEFINE u == e \o r
      <3>1. u \in Seq(S)
        BY <1>4
      <3> HIDE DEF u
      <3>2. Times(p \o u, f, k) = Times(p, f, k) + Times(u, f, k)
        BY <1>1, <3>1, TimesConcat
      <3> QED
        BY <3>2 DEF u
    <2>2. Times(e \o r, f, k) = Times(e, f, k) + Times(r, f, k)
      BY <1>1, TimesConcat
    <2> QED
      BY <1>3, <1>4, <2>1, <2>2
  <1>6. Times(p \o r, f, k) = Times(p, f, k) + Times(r, f, k)
    BY <1>1, TimesConcat
  <1>7. Times(p, f, k) \in Nat /\ Times(r, f, k) \in Nat /\ One(q[i], f, k) \in Nat
    BY <1>1, TimesTyped DEF One
  <1>8. /\ p \o r \in Seq(S) /\ Len(p \o r) = Len(p) + Len(r)
        /\ \A j \in 1 .. Len(p) + Len(r) : (p \o r)[j] = IF j <= Len(p) THEN p[j] ELSE r[j - Len(p)]
    BY <1>1, ConcatProperties
  <1>9. \A j \in 1 .. Len(p \o r) : \E m \in 1 .. Len(q) : (p \o r)[j] = q[m]
    <2> TAKE j \in 1 .. Len(p \o r)
    <2>1. CASE j <= Len(p)
      <3>1. j \in 1 .. Len(p) /\ j \in 1 .. Len(q) /\ j \in 1 .. Len(p) + Len(r)
        BY <1>1, <1>8, <2>1
      <3>2. (p \o r)[j] = p[j]
        BY <1>8, <2>1, <3>1
      <3> QED
        BY <1>1, <3>1, <3>2
    <2>2. CASE j > Len(p)
      <3>1. i + (j - Len(p)) \in 1 .. Len(q) /\ j - Len(p) \in 1 .. Len(r)
        BY <1>1, <1>8, <2>2
      <3>2. (p \o r)[j] = r[j - Len(p)] /\ r[j - Len(p)] = q[i + (j - Len(p))]
        BY <1>1, <1>8, <2>2, <3>1
      <3> QED
        BY <3>1, <3>2
    <2> QED
      BY <1>8, <2>1, <2>2
  <1>10. Times(q, f, k) = Times(p \o r, f, k) + One(q[i], f, k)
    BY <1>5, <1>6, <1>7
  <1> QED
    BY <1>2, <1>8, <1>9, <1>10

\* The flits that noc_send makes, and what an input, an output or a slot may hold.
Sent == [src : Node, dest : Node, seq : Nat, marked : Marks \cup {TRUE}]
Slot == Sent \cup {NoFlit}

\* The parts of a noc_context in which a flit may be, with the locals and outputs of
\* a cycle; and contexts in which they hold what they are there for.
Parts == {"inWest", "inSouth", "inCore", "inj", "core", "corner",
          "outEast", "outNorth", "dropped", "fatal"}
Carrier(n, r) ==
  /\ Parts \subseteq DOMAIN r
  /\ r.inWest \in Slot /\ r.inSouth \in Slot /\ r.inCore \in Slot
  /\ r.inj \in Seq(Sent) /\ r.core \in Seq(Sent) /\ r.corner \in Seq(Sent)
  /\ r.outEast \in Slot /\ r.outNorth \in Slot
  /\ r.dropped \in SUBSET Sent /\ r.fatal \in BOOLEAN
  /\ \A i \in 1 .. Len(r.core) : r.core[i].dest = n

\* How often flit k of flow f is among the flits that a cycle has lost, and in how
\* many places of a router it is after its inputs have been read.
Gone(r, f, k) == IF \E fc \in r.dropped : IsFlit(fc, f, k) THEN 1 ELSE 0
Load(r, f, k) ==
  One(r.inCore, f, k) + Times(r.inj, f, k) + Times(r.core, f, k) + Times(r.corner, f, k)
  + One(r.outEast, f, k) + One(r.outNorth, f, k) + Gone(r, f, k)

\* The contexts differ in flags and timers only.
Alike(r, s) == Parts \subseteq DOMAIN s /\ \A x \in Parts : s[x] = r[x]

\* Flags and timers have no part in it.
LEMMA AlikeIs ==
  ASSUME NEW n, NEW r, NEW s, Carrier(n, r), Alike(r, s)
  PROVE  /\ Carrier(n, s) /\ s.fatal = r.fatal
         /\ s.inWest = r.inWest /\ s.inSouth = r.inSouth /\ s.inCore = r.inCore
         /\ s.outEast = r.outEast /\ s.outNorth = r.outNorth /\ s.dropped = r.dropped
         /\ s.corner = r.corner
         /\ \A f, k : Load(s, f, k) = Load(r, f, k)
  <1>1. /\ s.inWest = r.inWest /\ s.inSouth = r.inSouth /\ s.inCore = r.inCore
        /\ s.inj = r.inj /\ s.core = r.core /\ s.corner = r.corner
        /\ s.outEast = r.outEast /\ s.outNorth = r.outNorth
        /\ s.dropped = r.dropped /\ s.fatal = r.fatal
    BY DEF Alike, Parts
  <1>2. Parts \subseteq DOMAIN s
    BY DEF Alike
  <1> QED
    BY <1>1, <1>2 DEF Carrier, Load, Gone

\* A place holds a flit or not.
LEMMA OneIs ==
  /\ \A fc, f, k : One(fc, f, k) \in {0, 1}
  /\ \A f, k : One(NoFlit, f, k) = 0
  BY DEF One, IsFlit

\* The summands of Load are numbers.
LEMMA LoadTyped ==
  ASSUME NEW n, NEW r, Carrier(n, r), NEW f, NEW k
  PROVE  /\ One(r.inCore, f, k) \in Nat /\ Times(r.inj, f, k) \in Nat
         /\ Times(r.core, f, k) \in Nat /\ Times(r.corner, f, k) \in Nat
         /\ One(r.outEast, f, k) \in Nat /\ One(r.outNorth, f, k) \in Nat
         /\ Gone(r, f, k) \in Nat /\ Load(r, f, k) \in Nat
  <1>1. /\ Times(r.inj, f, k) \in Nat /\ Times(r.core, f, k) \in Nat /\ Times(r.corner, f, k) \in Nat
    BY TimesTyped DEF Carrier
  <1>2. /\ One(r.inCore, f, k) \in Nat /\ One(r.outEast, f, k) \in Nat /\ One(r.outNorth, f, k) \in Nat
        /\ Gone(r, f, k) \in Nat
    BY OneIs DEF Gone
  <1> QED
    BY <1>1, <1>2 DEF Load

\* *_updateInjectionQueue moves a flit from the queue to the core's place.
LEMMA UpdatedKeeps ==
  ASSUME NEW n, NEW r, Carrier(n, r)
  PROVE  /\ Carrier(n, Updated(r)) /\ Updated(r).fatal = r.fatal
         /\ Updated(r).inWest = r.inWest /\ Updated(r).inSouth = r.inSouth
         /\ Updated(r).outEast = r.outEast /\ Updated(r).outNorth = r.outNorth
         /\ Updated(r).dropped = r.dropped /\ Updated(r).corner = r.corner
         /\ \A f, k : Load(Updated(r), f, k) = Load(r, f, k)
  <1>1. CASE r.inCore # NoFlit
    BY <1>1 DEF Updated
  <1>2. CASE r.inCore = NoFlit
    <2> DEFINE a == Oldest(r.inj)
               b == Dequeued(r.inj)
               s == Updated(r)
    <2>1. /\ a \in Slot /\ b \in Seq(Sent)
          /\ \A f, k : Times(r.inj, f, k) = One(a, f, k) + Times(b, f, k)
      <3>1. CASE r.inj = <<>>
        BY <3>1, OneIs, TimesEmpty DEF Carrier, Slot, Oldest, Dequeued, EmptyBuffer
      <3>2. CASE r.inj # <<>>
        <4>1. a = Head(r.inj) /\ b = Tail(r.inj)
          BY <3>2 DEF Oldest, Dequeued, EmptyBuffer
        <4> QED
          BY <3>2, <4>1, TimesTail DEF Carrier, Slot
      <3> QED
        BY <3>1, <3>2
    <2>2. s = [r EXCEPT !.inCore = a, !.inj = b]
      BY <1>2 DEF Updated
    <2> HIDE DEF a, b, s
    <2>3. /\ s.inWest = r.inWest /\ s.inSouth = r.inSouth /\ s.inCore = a
          /\ s.inj = b /\ s.core = r.core /\ s.corner = r.corner
          /\ s.outEast = r.outEast /\ s.outNorth = r.outNorth
          /\ s.dropped = r.dropped /\ s.fatal = r.fatal /\ Parts \subseteq DOMAIN s
      BY <2>2 DEF Carrier, Parts
    <2>4. Carrier(n, s)
      BY <2>1, <2>3 DEF Carrier
    <2>5. ASSUME NEW f, NEW k PROVE Load(s, f, k) = Load(r, f, k)
      <3>1. /\ Times(r.inj, f, k) = One(a, f, k) + Times(b, f, k)
            /\ One(r.inCore, f, k) = 0 /\ Gone(s, f, k) = Gone(r, f, k)
        BY <1>2, <2>1, <2>3, OneIs DEF Gone
      <3> QED
        BY <2>3, <2>4, <3>1, LoadTyped DEF Load
    <2> QED
      BY <2>3, <2>4, <2>5 DEF s
  <1> QED
    BY <1>1, <1>2

-----------------------------------------------------------------------------
\* Stages that several routers share.

\* s is r but for these parts, and but for flags and timers.
Except(r, s, P) == Parts \subseteq DOMAIN s /\ \A x \in Parts \ P : s[x] = r[x]

\* A stage keeps the flits and adds fc, unless it ends the simulation.
Stage(n, r, s, fc) ==
  /\ Carrier(n, s)
  /\ r.fatal => s.fatal
  /\ ~s.fatal => \A f, k : Load(s, f, k) = Load(r, f, k) + One(fc, f, k)

\* A stage that only sets flags and timers keeps the flits.
LEMMA FlagsOnly ==
  ASSUME NEW n, NEW r, NEW s, Carrier(n, r), Except(r, s, {})
  PROVE  /\ Stage(n, r, s, NoFlit)
         /\ s.inWest = r.inWest /\ s.inSouth = r.inSouth /\ s.inCore = r.inCore
         /\ s.outEast = r.outEast /\ s.outNorth = r.outNorth /\ s.dropped = r.dropped
         /\ s.corner = r.corner
  <1>1. Alike(r, s)
    BY DEF Except, Alike
  <1>2. \A f, k : Load(r, f, k) = Load(r, f, k) + One(NoFlit, f, k)
    BY LoadTyped, OneIs
  <1> QED
    BY <1>1, <1>2, AlikeIs DEF Stage

\* The free east output takes a flit.
LEMMA EastTaken ==
  ASSUME NEW n, NEW r, NEW s, NEW fc, Carrier(n, r), fc \in Slot, r.outEast = NoFlit,
         Except(r, s, {"outEast"}), s.outEast = fc
  PROVE  /\ Stage(n, r, s, fc)
         /\ s.inWest = r.inWest /\ s.inSouth = r.inSouth /\ s.inCore = r.inCore
         /\ s.outNorth = r.outNorth /\ s.dropped = r.dropped /\ s.corner = r.corner
  <1>1. /\ s.inWest = r.inWest /\ s.inSouth = r.inSouth /\ s.inCore = r.inCore
        /\ s.inj = r.inj /\ s.core = r.core /\ s.corner = r.corner
        /\ s.outNorth = r.outNorth /\ s.dropped = r.dropped /\ s.fatal = r.fatal
        /\ Parts \subseteq DOMAIN s
    BY DEF Except, Parts
  <1>2. Carrier(n, s)
    BY <1>1 DEF Carrier
  <1>3. ASSUME NEW f, NEW k PROVE Load(s, f, k) = Load(r, f, k) + One(fc, f, k)
    <2>1. One(r.outEast, f, k) = 0 /\ Gone(s, f, k) = Gone(r, f, k) /\ One(fc, f, k) \in Nat
      BY <1>1, OneIs DEF Gone
    <2> QED
      BY <1>1, <2>1, LoadTyped DEF Load
  <1> QED
    BY <1>1, <1>2, <1>3 DEF Stage

\* The free north output takes a flit.
LEMMA NorthTaken ==
  ASSUME NEW n, NEW r, NEW s, NEW fc, Carrier(n, r), fc \in Slot, r.outNorth = NoFlit,
         Except(r, s, {"outNorth"}), s.outNorth = fc
  PROVE  /\ Stage(n, r, s, fc)
         /\ s.inWest = r.inWest /\ s.inSouth = r.inSouth /\ s.inCore = r.inCore
         /\ s.outEast = r.outEast /\ s.dropped = r.dropped /\ s.corner = r.corner
  <1>1. /\ s.inWest = r.inWest /\ s.inSouth = r.inSouth /\ s.inCore = r.inCore
        /\ s.inj = r.inj /\ s.core = r.core /\ s.corner = r.corner
        /\ s.outEast = r.outEast /\ s.dropped = r.dropped /\ s.fatal = r.fatal
        /\ Parts \subseteq DOMAIN s
    BY DEF Except, Parts
  <1>2. Carrier(n, s)
    BY <1>1 DEF Carrier
  <1>3. ASSUME NEW f, NEW k PROVE Load(s, f, k) = Load(r, f, k) + One(fc, f, k)
    <2>1. One(r.outNorth, f, k) = 0 /\ Gone(s, f, k) = Gone(r, f, k) /\ One(fc, f, k) \in Nat
      BY <1>1, OneIs DEF Gone
    <2> QED
      BY <1>1, <2>1, LoadTyped DEF Load
  <1> QED
    BY <1>1, <1>2, <1>3 DEF Stage

\* The corner buffer takes a flit.
LEMMA CornerTaken ==
  ASSUME NEW n, NEW r, NEW s, NEW fc, Carrier(n, r), fc \in Sent,
         Except(r, s, {"corner"}), s.corner = Append(r.corner, fc)
  PROVE  /\ Stage(n, r, s, fc)
         /\ s.inWest = r.inWest /\ s.inSouth = r.inSouth /\ s.inCore = r.inCore
         /\ s.outEast = r.outEast /\ s.outNorth = r.outNorth /\ s.dropped = r.dropped
  <1>1. /\ s.inWest = r.inWest /\ s.inSouth = r.inSouth /\ s.inCore = r.inCore
        /\ s.inj = r.inj /\ s.core = r.core
        /\ s.outEast = r.outEast /\ s.outNorth = r.outNorth
        /\ s.dropped = r.dropped /\ s.fatal = r.fatal
        /\ Parts \subseteq DOMAIN s
    BY DEF Except, Parts
  <1>2. Carrier(n, s)
    BY <1>1 DEF Carrier
  <1>3. ASSUME NEW f, NEW k PROVE Load(s, f, k) = Load(r, f, k) + One(fc, f, k)
    <2>1. Gone(s, f, k) = Gone(r, f, k) /\ One(fc, f, k) \in Nat
      BY <1>1, OneIs DEF Gone
    <2>2. Times(s.corner, f, k) = Times(r.corner, f, k) + One(fc, f, k)
      BY TimesAppend DEF Carrier
    <2> QED
      BY <1>1, <2>1, <2>2, LoadTyped DEF Load
  <1> QED
    BY <1>1, <1>2, <1>3 DEF Stage

\* The core buffer takes a flit for this node.
LEMMA CoreTaken ==
  ASSUME NEW n, NEW r, NEW s, NEW fc, Carrier(n, r), fc \in Sent, fc.dest = n,
         Except(r, s, {"core"}), s.core = Append(r.core, fc)
  PROVE  /\ Stage(n, r, s, fc)
         /\ s.inWest = r.inWest /\ s.inSouth = r.inSouth /\ s.inCore = r.inCore
         /\ s.outEast = r.outEast /\ s.outNorth = r.outNorth /\ s.dropped = r.dropped
         /\ s.corner = r.corner
  <1>1. /\ s.inWest = r.inWest /\ s.inSouth = r.inSouth /\ s.inCore = r.inCore
        /\ s.inj = r.inj /\ s.corner = r.corner
        /\ s.outEast = r.outEast /\ s.outNorth = r.outNorth
        /\ s.dropped = r.dropped /\ s.fatal = r.fatal
        /\ Parts \subseteq DOMAIN s
    BY DEF Except, Parts
  <1>2. Carrier(n, s)
    <2>1. s.core \in Seq(Sent) /\ \A i \in 1 .. Len(s.core) : s.core[i].dest = n
      BY DEF Carrier
    <2> QED
      BY <1>1, <2>1 DEF Carrier
  <1>3. ASSUME NEW f, NEW k PROVE Load(s, f, k) = Load(r, f, k) + One(fc, f, k)
    <2>1. Gone(s, f, k) = Gone(r, f, k) /\ One(fc, f, k) \in Nat
      BY <1>1, OneIs DEF Gone
    <2>2. Times(s.core, f, k) = Times(r.core, f, k) + One(fc, f, k)
      BY TimesAppend DEF Carrier
    <2>3. /\ One(r.inCore, f, k) \in Nat /\ Times(r.inj, f, k) \in Nat
          /\ Times(r.core, f, k) \in Nat /\ Times(r.corner, f, k) \in Nat
          /\ One(r.outEast, f, k) \in Nat /\ One(r.outNorth, f, k) \in Nat
          /\ Gone(r, f, k) \in Nat
      BY LoadTyped
    <2> QED
      BY <1>1, <2>1, <2>2, <2>3 DEF Load
  <1> QED
    BY <1>1, <1>2, <1>3 DEF Stage

\* "to core" of pnbe0, pnbe1 and pnbe2: taken, or fatal() ends the simulation.
LEMMA ToCoreKeeps ==
  ASSUME NEW n, NEW r, NEW fc, Carrier(n, r), fc \in Sent, fc.dest = n
  PROVE  LET s == ToCore(r, fc)
         IN  /\ Stage(n, r, s, fc)
             /\ s.inWest = r.inWest /\ s.inSouth = r.inSouth /\ s.inCore = r.inCore
             /\ s.outEast = r.outEast /\ s.outNorth = r.outNorth /\ s.dropped = r.dropped
  <1> DEFINE s == ToCore(r, fc)
  <1>1. CASE HasSlot(r.core, CoreSize)
    <2>1. s = [r EXCEPT !.core = Append(@, fc), !.outCore = TRUE]
      BY <1>1 DEF ToCore
    <2> HIDE DEF s
    <2>2. Except(r, s, {"core"}) /\ s.core = Append(r.core, fc)
      BY <2>1 DEF Except, Parts, Carrier
    <2> QED
      BY <2>2, CoreTaken DEF s
  <1>2. CASE ~HasSlot(r.core, CoreSize)
    <2>1. s = [r EXCEPT !.fatal = TRUE]
      BY <1>2 DEF ToCore
    <2> HIDE DEF s
    <2>2. /\ s.inWest = r.inWest /\ s.inSouth = r.inSouth /\ s.inCore = r.inCore
          /\ s.inj = r.inj /\ s.core = r.core /\ s.corner = r.corner
          /\ s.outEast = r.outEast /\ s.outNorth = r.outNorth
          /\ s.dropped = r.dropped /\ s.fatal = TRUE /\ Parts \subseteq DOMAIN s
      BY <2>1 DEF Carrier, Parts
    <2>3. Carrier(n, s)
      BY <2>2 DEF Carrier
    <2> QED
      BY <2>2, <2>3 DEF s, Stage
  <1> QED
    BY <1>1, <1>2

\* From the south to the core or to the north output.
LEMMA SouthInputKeeps ==
  ASSUME NEW n, NEW r, Carrier(n, r), r.outNorth = NoFlit
  PROVE  LET s == SouthInput(n, r)
         IN  /\ Stage(n, r, s, r.inSouth)
             /\ s.inWest = r.inWest /\ s.inCore = r.inCore
             /\ s.outEast = r.outEast /\ s.dropped = r.dropped
  <1> DEFINE s == SouthInput(n, r)
  <1>1. CASE r.inSouth = NoFlit
    <2>1. s = r /\ Except(r, r, {})
      BY <1>1 DEF SouthInput, Except, Carrier
    <2> QED
      BY <1>1, <2>1, FlagsOnly
  <1>2. CASE r.inSouth # NoFlit /\ r.inSouth.dest = n
    <2>1. s = ToCore(r, r.inSouth) /\ r.inSouth \in Sent
      BY <1>2 DEF SouthInput, Carrier, Slot
    <2> QED
      BY <1>2, <2>1, ToCoreKeeps
  <1>3. CASE r.inSouth # NoFlit /\ r.inSouth.dest # n
    <2>1. s = [r EXCEPT !.outNorth = r.inSouth]
      BY <1>3 DEF SouthInput
    <2> HIDE DEF s
    <2>2. Except(r, s, {"outNorth"}) /\ s.outNorth = r.inSouth /\ r.inSouth \in Slot
      BY <2>1 DEF Except, Parts, Carrier
    <2> QED
      BY <2>2, NorthTaken DEF s
  <1> QED
    BY <1>1, <1>2, <1>3

\* The corner buffer sends north, if the output is free.
LEMMA CornerLeft ==
  ASSUME NEW n, NEW r, NEW s, Carrier(n, r), r.corner # <<>>, r.outNorth = NoFlit,
         Except(r, s, {"corner", "outNorth"}), s.outNorth = Head(r.corner), s.corner = Tail(r.corner)
  PROVE  /\ Stage(n, r, s, NoFlit)
         /\ s.inWest = r.inWest /\ s.inSouth = r.inSouth /\ s.inCore = r.inCore
         /\ s.outEast = r.outEast /\ s.dropped = r.dropped
  <1>1. /\ s.inWest = r.inWest /\ s.inSouth = r.inSouth /\ s.inCore = r.inCore
        /\ s.inj = r.inj /\ s.core = r.core
        /\ s.outEast = r.outEast
        /\ s.dropped = r.dropped /\ s.fatal = r.fatal
        /\ Parts \subseteq DOMAIN s
    BY DEF Except, Parts
  <1>2. s.outNorth \in Slot /\ s.corner \in Seq(Sent)
    BY DEF Carrier, Slot
  <1>3. Carrier(n, s)
    BY <1>1, <1>2 DEF Carrier
  <1>4. ASSUME NEW f, NEW k PROVE Load(s, f, k) = Load(r, f, k) + One(NoFlit, f, k)
    <2>1. Gone(s, f, k) = Gone(r, f, k) /\ One(NoFlit, f, k) = 0 /\ One(r.outNorth, f, k) = 0
      BY <1>1, OneIs DEF Gone
    <2>2. Times(r.corner, f, k) = One(s.outNorth, f, k) + Times(s.corner, f, k)
      BY TimesTail DEF Carrier
    <2>3. /\ One(r.inCore, f, k) \in Nat /\ Times(r.inj, f, k) \in Nat
          /\ Times(r.core, f, k) \in Nat /\ Times(s.corner, f, k) \in Nat
          /\ One(r.outEast, f, k) \in Nat /\ One(s.outNorth, f, k) \in Nat
          /\ Gone(r, f, k) \in Nat
      BY <1>3, LoadTyped
    <2> QED
      BY <1>1, <2>1, <2>2, <2>3 DEF Load
  <1> QED
    BY <1>1, <1>3, <1>4 DEF Stage

\* The corner buffer of pnbe1 and pnbe2 sends its oldest flit north, or none.
LEMMA CornerToNorthKeeps ==
  ASSUME NEW n, NEW r, Carrier(n, r)
  PROVE  LET s == CornerToNorth(r)
         IN  /\ Stage(n, r, s, NoFlit)
             /\ s.inWest = r.inWest /\ s.inCore = r.inCore
             /\ s.outEast = r.outEast /\ s.dropped = r.dropped
  <1> DEFINE s == CornerToNorth(r)
  <1>1. CASE r.outNorth = NoFlit /\ r.corner # EmptyBuffer /\ ~MustPassNorth(r)
    <2>1. s = [r EXCEPT !.outNorth = Head(r.corner), !.corner = Tail(@), !.sentNorth = TRUE]
      BY <1>1 DEF CornerToNorth
    <2> HIDE DEF s
    <2>2. /\ Except(r, s, {"corner", "outNorth"})
          /\ s.outNorth = Head(r.corner) /\ s.corner = Tail(r.corner)
      BY <2>1 DEF Except, Parts, Carrier
    <2> QED
      BY <1>1, <2>2, CornerLeft DEF s, EmptyBuffer
  <1>2. CASE r.outNorth = NoFlit /\ (r.corner = EmptyBuffer \/ MustPassNorth(r))
    <2>1. s = [r EXCEPT !.sentNorth = FALSE]
      BY <1>2 DEF CornerToNorth
    <2> HIDE DEF s
    <2>2. Except(r, s, {})
      BY <2>1 DEF Except, Parts, Carrier
    <2> QED
      BY <2>2, FlagsOnly DEF s
  <1>3. CASE r.outNorth # NoFlit
    <2>1. s = [r EXCEPT !.signalSouth = r.corner # EmptyBuffer \/ r.isSignaledNorth]
      BY <1>3 DEF CornerToNorth
    <2> HIDE DEF s
    <2>2. Except(r, s, {})
      BY <2>1 DEF Except, Parts, Carrier
    <2> QED
      BY <2>2, FlagsOnly DEF s
  <1> QED
    BY <1>1, <1>2, <1>3

\* The core's flit goes east.
LEMMA EastSent ==
  ASSUME NEW n, NEW r, NEW s, Carrier(n, r), r.outEast = NoFlit,
         Except(r, s, {"inCore", "outEast"}), s.outEast = r.inCore, s.inCore = NoFlit
  PROVE  Stage(n, r, s, NoFlit)
  <1>1. /\ s.inWest = r.inWest /\ s.inSouth = r.inSouth
        /\ s.inj = r.inj /\ s.core = r.core /\ s.corner = r.corner
        /\ s.outNorth = r.outNorth /\ s.dropped = r.dropped /\ s.fatal = r.fatal
        /\ Parts \subseteq DOMAIN s
    BY DEF Except, Parts
  <1>2. Carrier(n, s)
    BY <1>1 DEF Carrier, Slot
  <1>3. ASSUME NEW f, NEW k PROVE Load(s, f, k) = Load(r, f, k) + One(NoFlit, f, k)
    <2>1. One(NoFlit, f, k) = 0 /\ Gone(s, f, k) = Gone(r, f, k)
      BY <1>1, OneIs DEF Gone
    <2> QED
      BY <1>1, <2>1, LoadTyped DEF Load
  <1> QED
    BY <1>1, <1>2, <1>3 DEF Stage

\* The core's flit goes into the corner buffer.
LEMMA CornerStored ==
  ASSUME NEW n, NEW r, NEW s, Carrier(n, r), r.inCore \in Sent,
         Except(r, s, {"inCore", "corner"}), s.corner = Append(r.corner, r.inCore), s.inCore = NoFlit
  PROVE  Stage(n, r, s, NoFlit)
  <1>1. /\ s.inWest = r.inWest /\ s.inSouth = r.inSouth
        /\ s.inj = r.inj /\ s.core = r.core /\ s.outEast = r.outEast
        /\ s.outNorth = r.outNorth /\ s.dropped = r.dropped /\ s.fatal = r.fatal
        /\ Parts \subseteq DOMAIN s
    BY DEF Except, Parts
  <1>2. Carrier(n, s)
    BY <1>1 DEF Carrier, Slot
  <1>3. ASSUME NEW f, NEW k PROVE Load(s, f, k) = Load(r, f, k) + One(NoFlit, f, k)
    <2>1. One(NoFlit, f, k) = 0 /\ Gone(s, f, k) = Gone(r, f, k)
      BY <1>1, OneIs DEF Gone
    <2>2. Times(s.corner, f, k) = Times(r.corner, f, k) + One(r.inCore, f, k)
      BY TimesAppend DEF Carrier
    <2>3. /\ One(r.inCore, f, k) \in Nat /\ Times(r.inj, f, k) \in Nat
          /\ Times(r.core, f, k) \in Nat /\ Times(r.corner, f, k) \in Nat
          /\ One(r.outEast, f, k) \in Nat /\ One(r.outNorth, f, k) \in Nat
          /\ Gone(r, f, k) \in Nat
      BY LoadTyped
    <2> QED
      BY <1>1, <2>1, <2>2, <2>3 DEF Load
  <1> QED
    BY <1>1, <1>2, <1>3 DEF Stage

\* Marking a flit does not make it another one.
LEMMA MarkedIs ==
  ASSUME NEW fc \in Sent
  PROVE  /\ [fc EXCEPT !.marked = TRUE] \in Sent
         /\ \A f, k : NoFlit \notin Sent => One([fc EXCEPT !.marked = TRUE], f, k) = One(fc, f, k)
  <1> DEFINE m == [fc EXCEPT !.marked = TRUE]
  <1>1. m \in Sent /\ m.src = fc.src /\ m.dest = fc.dest /\ m.seq = fc.seq
    BY DEF Sent
  <1> HIDE DEF m
  <1> QED
    BY <1>1 DEF One, IsFlit, m

\* A flit from the west goes into the corner buffer, or on to the east, marked.
LEMMA WestToCornerKeeps ==
  ASSUME NoFlit \notin Sent, NEW n, NEW r, Carrier(n, r), r.outEast = NoFlit, r.inWest \in Sent
  PROVE  Stage(n, r, WestToCorner(n, r), r.inWest)
  <1> DEFINE s == WestToCorner(n, r)
  <1>1. CASE r.hTimers[X(n)] # 0
    <2>1. s = [r EXCEPT !.outEast = r.inWest]
      BY <1>1 DEF WestToCorner
    <2> HIDE DEF s
    <2>2. Except(r, s, {"outEast"}) /\ s.outEast = r.inWest /\ r.inWest \in Slot
      BY <2>1 DEF Except, Parts, Carrier
    <2> QED
      BY <2>2, EastTaken DEF s
  <1>2. CASE r.hTimers[X(n)] = 0 /\ HasSlot(r.corner, CornerSize)
    <2>1. s = [r EXCEPT !.corner = Append(@, r.inWest), !.outCorner = TRUE]
      BY <1>2 DEF WestToCorner
    <2> HIDE DEF s
    <2>2. Except(r, s, {"corner"}) /\ s.corner = Append(r.corner, r.inWest)
      BY <2>1 DEF Except, Parts, Carrier
    <2> QED
      BY <2>2, CornerTaken DEF s
  <1>3. CASE r.hTimers[X(n)] = 0 /\ ~HasSlot(r.corner, CornerSize)
    <2> DEFINE m == [r.inWest EXCEPT !.marked = TRUE]
    <2>1. s = [r EXCEPT !.outEast = m, !.hTimers[X(n)] = Width, !.outCorner = TRUE]
      BY <1>3 DEF WestToCorner
    <2>2. m \in Slot /\ \A f, k : One(m, f, k) = One(r.inWest, f, k)
      BY MarkedIs DEF Slot
    <2> HIDE DEF s, m
    <2>3. Except(r, s, {"outEast"}) /\ s.outEast = m
      BY <2>1 DEF Except, Parts, Carrier
    <2>4. Stage(n, r, s, m)
      BY <2>2, <2>3, EastTaken
    <2> QED
      BY <2>2, <2>4 DEF s, Stage
  <1> QED
    BY <1>1, <1>2, <1>3

\* A flit of the core goes into the corner buffer, or stays.
LEMMA CoreToCornerKeeps ==
  ASSUME NEW n, NEW r, Carrier(n, r), r.inCore \in Sent
  PROVE  Stage(n, r, CoreToCorner(n, r), NoFlit)
  <1> DEFINE s == CoreToCorner(n, r)
  <1>1. CASE r.outCorner
    <2>1. s = [r EXCEPT !.signalWest = TRUE]
      BY <1>1 DEF CoreToCorner
    <2> HIDE DEF s
    <2>2. Except(r, s, {})
      BY <2>1 DEF Except, Parts, Carrier
    <2> QED
      BY <2>2, FlagsOnly DEF s
  <1>2. CASE ~r.outCorner /\ r.hTimers[X(n)] = 0 /\ HasSlot(r.corner, CornerSize)
    <2>1. s = [r EXCEPT !.corner = Append(@, r.inCore), !.inCore = NoFlit]
      BY <1>2 DEF CoreToCorner
    <2> HIDE DEF s
    <2>2. /\ Except(r, s, {"inCore", "corner"})
          /\ s.corner = Append(r.corner, r.inCore) /\ s.inCore = NoFlit
      BY <2>1 DEF Except, Parts, Carrier
    <2> QED
      BY <2>2, CornerStored DEF s
  <1>3. CASE ~r.outCorner /\ ~(r.hTimers[X(n)] = 0 /\ HasSlot(r.corner, CornerSize))
    <2>1. s = r /\ Except(r, r, {})
      BY <1>3 DEF CoreToCorner, Except, Carrier
    <2> QED
      BY <2>1, FlagsOnly
  <1> QED
    BY <1>1, <1>2, <1>3

\* A flit of the core goes east, or stays.
LEMMA CoreToEastKeeps ==
  ASSUME NEW n, NEW r, Carrier(n, r), NEW allowed \in BOOLEAN
  PROVE  Stage(n, r, CoreToEast(r, allowed), NoFlit)
  <1> DEFINE s == CoreToEast(r, allowed)
  <1>1. CASE r.outEast = NoFlit /\ allowed /\ ~MustPassEast(r)
    <2>1. s = [r EXCEPT !.outEast = r.inCore, !.inCore = NoFlit, !.sentEast = TRUE]
      BY <1>1 DEF CoreToEast
    <2> HIDE DEF s
    <2>2. /\ Except(r, s, {"inCore", "outEast"})
          /\ s.outEast = r.inCore /\ s.inCore = NoFlit
      BY <2>1 DEF Except, Parts, Carrier
    <2> QED
      BY <1>1, <2>2, EastSent DEF s
  <1>2. CASE r.outEast = NoFlit /\ ~(allowed /\ ~MustPassEast(r))
    <2>1. s = [r EXCEPT !.sentEast = FALSE]
      BY <1>2 DEF CoreToEast
    <2> HIDE DEF s
    <2>2. Except(r, s, {})
      BY <2>1 DEF Except, Parts, Carrier
    <2> QED
      BY <2>2, FlagsOnly DEF s
  <1>3. CASE r.outEast # NoFlit
    <2>1. s = [r EXCEPT !.signalWest = r.isSignaledEast \/ allowed]
      BY <1>3 DEF CoreToEast
    <2> HIDE DEF s
    <2>2. Except(r, s, {})
      BY <2>1 DEF Except, Parts, Carrier
    <2> QED
      BY <2>2, FlagsOnly DEF s
  <1> QED
    BY <1>1, <1>2, <1>3

\* Without a flit of the core only flags change.
LEMMA NoCoreInputKeeps ==
  ASSUME NEW n, NEW r, Carrier(n, r)
  PROVE  Stage(n, r, NoCoreInput(r), NoFlit)
  <1>1. Except(r, NoCoreInput(r), {})
    BY DEF NoCoreInput, Except, Parts, Carrier
  <1> QED
    BY <1>1, FlagsOnly

\* These stages change timers and flags only.
LEMMA TimersOnly ==
  ASSUME NEW n, NEW r, Carrier(n, r)
  PROVE  /\ Except(r, Remembered(n, r), {}) /\ Except(r, OwnFlit(n, r), {})
         /\ Except(r, Timeouts(r), {}) /\ Except(r, [r EXCEPT !.hTimers = Counted(@)], {})
  <1>1. Except(r, Remembered(n, r), {})
    BY DEF Remembered, Except, Parts, Carrier
  <1>2. Except(r, OwnFlit(n, r), {})
    BY DEF OwnFlit, Except, Parts, Carrier
  <1>3. Except(r, Timeouts(r), {})
    BY DEF Timeouts, Except, Parts, Carrier
  <1>4. Except(r, [r EXCEPT !.hTimers = Counted(@)], {})
    BY DEF Except, Parts, Carrier
  <1> QED
    BY <1>1, <1>2, <1>3, <1>4

-----------------------------------------------------------------------------
\* pnbe1: the stages of a cycle.

\* The router of pnbe1.c.
Be1 == INSTANCE Pnbe1

\* An instance has definitions of its own; those it shares with the other routers
\* are the same.
LEMMA Be1Shares ==
  ASSUME NEW n, NEW r, NEW fc, NEW b
  PROVE  /\ Be1!Updated(r) = Updated(r) /\ Be1!SouthInput(n, r) = SouthInput(n, r)
         /\ Be1!ToCore(r, fc) = ToCore(r, fc)
         /\ Be1!Remembered(n, r) = Remembered(n, r)
         /\ Be1!CornerToNorth(r) = CornerToNorth(r) /\ Be1!WestToCorner(n, r) = WestToCorner(n, r)
         /\ Be1!CoreToCorner(n, r) = CoreToCorner(n, r)
         /\ Be1!CoreToEast(r, b) = CoreToEast(r, b) /\ Be1!NoCoreInput(r) = NoCoreInput(r)
         /\ Be1!X(n) = X(n) /\ Be1!InColumn(n, fc) = InColumn(n, fc) /\ Be1!EmptyBuffer = EmptyBuffer
         /\ Be1!Oldest(r) = Oldest(r) /\ Be1!HasSlot(r, b) = HasSlot(r, b)
  <1>1. Be1!Updated(r) = Updated(r)
    BY DEF Be1!Updated, Updated, Be1!Oldest, Oldest, Be1!Dequeued, Dequeued, Be1!EmptyBuffer, EmptyBuffer
  <1>2. /\ Be1!SouthInput(n, r) = SouthInput(n, r) /\ Be1!ToCore(r, fc) = ToCore(r, fc)
    BY DEF Be1!SouthInput, SouthInput, Be1!ToCore, ToCore, Be1!HasSlot, HasSlot
  <1>3. Be1!Remembered(n, r) = Remembered(n, r)
    BY DEF Be1!Remembered, Remembered, Be1!InColumn, InColumn, Be1!X, X
  <1>4. Be1!CornerToNorth(r) = CornerToNorth(r)
    BY DEF Be1!CornerToNorth, CornerToNorth, Be1!MustPassNorth, MustPassNorth, Be1!EmptyBuffer, EmptyBuffer
  <1>5. Be1!WestToCorner(n, r) = WestToCorner(n, r)
    BY DEF Be1!WestToCorner, WestToCorner, Be1!HasSlot, HasSlot, Be1!X, X
  <1>6. Be1!CoreToCorner(n, r) = CoreToCorner(n, r)
    BY DEF Be1!CoreToCorner, CoreToCorner, Be1!HasSlot, HasSlot, Be1!X, X
  <1>7. Be1!CoreToEast(r, b) = CoreToEast(r, b)
    BY DEF Be1!CoreToEast, CoreToEast, Be1!MustPassEast, MustPassEast
  <1>8. Be1!NoCoreInput(r) = NoCoreInput(r)
    BY DEF Be1!NoCoreInput, NoCoreInput
  <1>9. /\ Be1!X(n) = X(n) /\ Be1!InColumn(n, fc) = InColumn(n, fc) /\ Be1!EmptyBuffer = EmptyBuffer
        /\ Be1!Oldest(r) = Oldest(r) /\ Be1!HasSlot(r, b) = HasSlot(r, b)
    BY DEF Be1!InColumn, InColumn, Be1!X, X, Be1!EmptyBuffer, EmptyBuffer, Be1!Oldest, Oldest, Be1!HasSlot, HasSlot
  <1> QED
    BY <1>1, <1>2, <1>3, <1>4, <1>5, <1>6, <1>7, <1>8, <1>9

\* Between two cycles the outputs are empty.
Between(n, r) ==
  Carrier(n, r) /\ r.outEast = NoFlit /\ r.outNorth = NoFlit /\ r.dropped = {} /\ ~r.fatal

\* The weight of a flit at a node between two cycles, and in all of them.
Weight(r, f, k) == Load(r, f, k) + One(r.inSouth, f, k) + One(r.inWest, f, k)
Weights(C, f, k) == [n \in Node |-> Weight(C[n], f, k)]

\* A cycle keeps the flits that were in the router or came into it, in one place.
CycleKeeps(n, r, s) ==
  /\ Carrier(n, s)
  /\ ~s.fatal => \A f, k : Weight(r, f, k) <= 1 => Load(s, f, k) = Weight(r, f, k)

\* The oldest flit of the corner buffer has been taken out.
Opened(n, r, s, fc) ==
  /\ Carrier(n, s) /\ s.fatal = r.fatal
  /\ s.inWest = r.inWest /\ s.outEast = r.outEast /\ s.dropped = r.dropped
  /\ \A f, k : Load(r, f, k) = Load(s, f, k) + One(fc, f, k)

\* Taking the oldest flit out of the corner buffer.
LEMMA CornerOpened ==
  ASSUME NEW n, NEW r, NEW s, Carrier(n, r), r.corner # <<>>,
         Except(r, s, {"corner"}), s.corner = Tail(r.corner)
  PROVE  Opened(n, r, s, Head(r.corner))
  <1>1. /\ s.inWest = r.inWest /\ s.inSouth = r.inSouth /\ s.inCore = r.inCore
        /\ s.inj = r.inj /\ s.core = r.core
        /\ s.outEast = r.outEast /\ s.outNorth = r.outNorth
        /\ s.dropped = r.dropped /\ s.fatal = r.fatal
        /\ Parts \subseteq DOMAIN s
    BY DEF Except, Parts
  <1>2. s.corner \in Seq(Sent)
    BY DEF Carrier
  <1>3. Carrier(n, s)
    BY <1>1, <1>2 DEF Carrier
  <1>4. ASSUME NEW f, NEW k PROVE Load(r, f, k) = Load(s, f, k) + One(Head(r.corner), f, k)
    <2>1. Gone(s, f, k) = Gone(r, f, k) /\ One(Head(r.corner), f, k) \in Nat
      BY <1>1, OneIs DEF Gone
    <2>2. Times(r.corner, f, k) = One(Head(r.corner), f, k) + Times(s.corner, f, k)
      BY TimesTail DEF Carrier
    <2>3. /\ One(r.inCore, f, k) \in Nat /\ Times(r.inj, f, k) \in Nat
          /\ Times(r.core, f, k) \in Nat /\ Times(s.corner, f, k) \in Nat
          /\ One(r.outEast, f, k) \in Nat /\ One(s.outNorth, f, k) \in Nat
          /\ Gone(r, f, k) \in Nat
      BY <1>3, LoadTyped
    <2> QED
      BY <1>1, <2>1, <2>2, <2>3 DEF Load
  <1> QED
    BY <1>1, <1>3, <1>4 DEF Opened

\* The corner buffer of pnbe1 feeds the core or the ring to the north.
LEMMA Be1CornerOutKeeps ==
  ASSUME NEW n, NEW r, Carrier(n, r)
  PROVE  LET s == Be1!CornerOut(n, r)
         IN  /\ Stage(n, r, s, NoFlit)
             /\ s.inWest = r.inWest /\ s.outEast = r.outEast /\ s.dropped = r.dropped
  <1> DEFINE s == Be1!CornerOut(n, r)
             fc == Head(r.corner)
  <1>0. r.corner # EmptyBuffer => fc \in Sent /\ Be1!Oldest(r.corner) = fc
    BY DEF Carrier, Be1!Oldest, EmptyBuffer, Be1!EmptyBuffer
  <1>1. CASE r.corner = EmptyBuffer \/ Be1!Oldest(r.corner).dest # n
    <2>1. s = CornerToNorth(r)
      BY <1>1, Be1Shares DEF Be1!CornerOut
    <2> QED
      BY <2>1, CornerToNorthKeeps
  <1>2. CASE r.corner # EmptyBuffer /\ Be1!Oldest(r.corner).dest = n /\ r.outCore
    <2>1. s = [r EXCEPT !.signalSouth = TRUE]
      BY <1>2, Be1Shares DEF Be1!CornerOut
    <2> HIDE DEF s
    <2>2. Except(r, s, {})
      BY <2>1 DEF Except, Parts, Carrier
    <2> QED
      BY <2>2, FlagsOnly DEF s
  <1>3. CASE r.corner # EmptyBuffer /\ Be1!Oldest(r.corner).dest = n /\ ~r.outCore
    <2>0. PICK u : u = [r EXCEPT !.corner = Tail(@), !.sentNorth = @ /\ r.outNorth # NoFlit]
      OBVIOUS
    <2>1. s = ToCore(u, fc)
      BY <1>3, <2>0, Be1Shares DEF Be1!CornerOut
    <2> HIDE DEF s, fc
    <2>2. Except(r, u, {"corner"}) /\ u.corner = Tail(r.corner) /\ r.corner # <<>>
      BY <1>3, <2>0 DEF Except, Parts, Carrier, EmptyBuffer
    <2>3. Opened(n, r, u, Head(r.corner))
      BY <2>2, CornerOpened
    <2>4. /\ Stage(n, u, s, fc)
          /\ s.inWest = u.inWest /\ s.outEast = u.outEast /\ s.dropped = u.dropped
      BY <1>0, <1>3, <2>1, <2>3, ToCoreKeeps DEF Opened
    <2>5. \A f, k : Load(r, f, k) + One(NoFlit, f, k) = Load(r, f, k)
      BY OneIs, LoadTyped
    <2> QED
      BY <2>3, <2>4, <2>5 DEF s, fc, Stage, Opened
  <1> QED
    BY <1>1, <1>2, <1>3

\* The west input of pnbe1.
LEMMA Be1WestInputKeeps ==
  ASSUME NoFlit \notin Sent, NEW n, NEW r, Carrier(n, r), r.outEast = NoFlit
  PROVE  Stage(n, r, Be1!WestInput(n, r), r.inWest)
  <1> DEFINE s == Be1!WestInput(n, r)
  <1>1. CASE r.inWest = NoFlit
    <2>1. s = r /\ Except(r, r, {})
      BY <1>1 DEF Be1!WestInput, Except, Carrier
    <2> QED
      BY <1>1, <2>1, FlagsOnly
  <1>2. CASE r.inWest # NoFlit /\ Be1!InColumn(n, r.inWest)
    <2>1. s = WestToCorner(n, r) /\ r.inWest \in Sent
      BY <1>2, Be1Shares DEF Be1!WestInput, Carrier, Slot
    <2> QED
      BY <2>1, WestToCornerKeeps
  <1>3. CASE r.inWest # NoFlit /\ ~Be1!InColumn(n, r.inWest)
    <2>1. s = [r EXCEPT !.outEast = r.inWest]
      BY <1>3 DEF Be1!WestInput
    <2> HIDE DEF s
    <2>2. Except(r, s, {"outEast"}) /\ s.outEast = r.inWest /\ r.inWest \in Slot
      BY <2>1 DEF Except, Parts, Carrier
    <2> QED
      BY <2>2, EastTaken DEF s
  <1> QED
    BY <1>1, <1>2, <1>3

\* The core input of pnbe1.
LEMMA Be1CoreInputKeeps ==
  ASSUME NEW n, NEW r, Carrier(n, r)
  PROVE  Stage(n, r, Be1!CoreInput(n, r), NoFlit)
  <1> DEFINE s == Be1!CoreInput(n, r)
  <1>1. CASE r.inCore = NoFlit
    <2>1. s = NoCoreInput(r)
      BY <1>1, Be1Shares DEF Be1!CoreInput
    <2> QED
      BY <2>1, NoCoreInputKeeps
  <1>2. CASE r.inCore # NoFlit /\ Be1!InColumn(n, r.inCore)
    <2>1. s = CoreToCorner(n, r) /\ r.inCore \in Sent
      BY <1>2, Be1Shares DEF Be1!CoreInput, Carrier, Slot
    <2> QED
      BY <2>1, CoreToCornerKeeps
  <1>3. CASE r.inCore # NoFlit /\ ~Be1!InColumn(n, r.inCore)
    <2> DEFINE allowed == r.hTimers[Be1!X(r.inCore.dest)] = 0
    <2>1. s = Be1!CoreToEast(r, allowed)
      BY <1>3 DEF Be1!CoreInput
    <2>2. allowed \in BOOLEAN
      OBVIOUS
    <2> HIDE DEF allowed
    <2> QED
      BY <2>1, <2>2, Be1Shares, CoreToEastKeeps
  <1> QED
    BY <1>1, <1>2, <1>3

\* pnbe1_route_one_cycle neither loses nor doubles a flit.
LEMMA Be1CycleKeeps ==
  ASSUME NoFlit \notin Sent, NEW n, Between(n, ctx[n])
  PROVE  CycleKeeps(n, ctx[n], Be1!Cycle(n))
  <1> DEFINE r == ctx[n]
             u == Updated(r)
             south == SouthInput(n, u)
             corner == Be1!CornerOut(n, south)
             rem == Remembered(n, corner)
             west == Be1!WestInput(n, rem)
             core == Be1!CoreInput(n, west)
             s == Be1!Cycle(n)
  <1>1. s = [core EXCEPT !.hTimers = Counted(@)]
    BY Be1Shares DEF Be1!Cycle, Be1!Counted, Counted, Be1!Dec, Dec
  <1>2. /\ Carrier(n, r) /\ r.outEast = NoFlit /\ r.outNorth = NoFlit /\ r.dropped = {} /\ ~r.fatal
    BY DEF Between
  <1> HIDE DEF r
  <1>3. /\ Carrier(n, u) /\ u.fatal = r.fatal /\ u.inWest = r.inWest /\ u.inSouth = r.inSouth
        /\ u.outEast = NoFlit /\ u.outNorth = NoFlit
        /\ \A f, k : Load(u, f, k) = Load(r, f, k)
    BY <1>2, UpdatedKeeps
  <1> HIDE DEF u
  <1>4. Stage(n, u, south, u.inSouth) /\ south.inWest = u.inWest /\ south.outEast = u.outEast
    BY <1>3, SouthInputKeeps
  <1> HIDE DEF south
  <1>5. Stage(n, south, corner, NoFlit) /\ corner.inWest = south.inWest /\ corner.outEast = south.outEast
    BY <1>4, Be1CornerOutKeeps DEF Stage
  <1> HIDE DEF corner
  <1>6. Stage(n, corner, rem, NoFlit) /\ rem.inWest = corner.inWest /\ rem.outEast = corner.outEast
    <2>1. Carrier(n, corner)
      BY <1>5 DEF Stage
    <2>2. Except(corner, rem, {})
      BY <2>1, TimersOnly
    <2> HIDE DEF rem
    <2> QED
      BY <2>1, <2>2, FlagsOnly
  <1> HIDE DEF rem
  <1>7. Stage(n, rem, west, rem.inWest)
    BY <1>3, <1>4, <1>5, <1>6, Be1WestInputKeeps DEF Stage
  <1> HIDE DEF west
  <1>8. Stage(n, west, core, NoFlit)
    BY <1>7, Be1CoreInputKeeps DEF Stage
  <1> HIDE DEF core, s
  <1>9. Stage(n, core, s, NoFlit)
    <2>1. Carrier(n, core)
      BY <1>8 DEF Stage
    <2>2. Except(core, s, {})
      BY <1>1, <2>1, TimersOnly
    <2> QED
      BY <2>1, <2>2, FlagsOnly
  <1>10. ASSUME ~s.fatal, NEW f, NEW k
         PROVE  Load(s, f, k) = Load(r, f, k) + One(r.inSouth, f, k) + One(r.inWest, f, k)
    <2>1. ~core.fatal /\ ~west.fatal /\ ~rem.fatal /\ ~corner.fatal /\ ~south.fatal
      BY <1>4, <1>5, <1>6, <1>7, <1>8, <1>9, <1>10 DEF Stage
    <2>2. /\ Load(south, f, k) = Load(u, f, k) + One(u.inSouth, f, k)
          /\ Load(corner, f, k) = Load(south, f, k) + One(NoFlit, f, k)
          /\ Load(rem, f, k) = Load(corner, f, k) + One(NoFlit, f, k)
          /\ Load(west, f, k) = Load(rem, f, k) + One(rem.inWest, f, k)
          /\ Load(core, f, k) = Load(west, f, k) + One(NoFlit, f, k)
          /\ Load(s, f, k) = Load(core, f, k) + One(NoFlit, f, k)
      BY <1>4, <1>5, <1>6, <1>7, <1>8, <1>9, <1>10, <2>1 DEF Stage
    <2>3. /\ One(NoFlit, f, k) = 0 /\ One(u.inSouth, f, k) \in Nat /\ One(rem.inWest, f, k) \in Nat
          /\ Load(u, f, k) \in Nat
      BY <1>3, OneIs, LoadTyped
    <2>4. rem.inWest = r.inWest /\ u.inSouth = r.inSouth /\ Load(u, f, k) = Load(r, f, k)
      BY <1>3, <1>4, <1>5, <1>6
    <2> QED
      BY <2>2, <2>3, <2>4
  <1>11. CycleKeeps(n, r, s)
    BY <1>9, <1>10 DEF CycleKeeps, Stage, Weight
  <1> QED
    BY <1>11 DEF s, r

-----------------------------------------------------------------------------
\* The exchange at the end of a cycle.

\* Exactly one node has weight 1, the others have none.
AllZero(w) == \A n \in Node : w[n] = 0
OneOnly(w) == \E n \in Node : w[n] = 1 /\ \A m \in Node \ {n} : w[m] = 0

\* Of the weights v, h stays in its node, e goes east, o goes north and g goes
\* away, which makes the weights w.
Wired(h, e, o, g, v, w) ==
  \A n \in Node :
    /\ h[n] \in Nat /\ e[n] \in Nat /\ o[n] \in Nat /\ g[n] \in Nat
    /\ v[n] = h[n] + e[n] + o[n] + g[n]
    /\ w[n] = h[n] + e[West(n)] + o[South(n)]

\* What goes over the wires of the torus is neither lost nor doubled.
LEMMA OverTheWires ==
  ASSUME NEW h, NEW e, NEW o, NEW g, NEW v, NEW w, Wired(h, e, o, g, v, w)
  PROVE  /\ AllZero(v) => AllZero(w) /\ AllZero(g)
         /\ OneOnly(v) => \/ OneOnly(w) /\ AllZero(g)
                          \/ AllZero(w) /\ \E n \in Node : g[n] = 1
  <1>0. \A n \in Node : /\ h[n] \in Nat /\ e[n] \in Nat /\ o[n] \in Nat /\ g[n] \in Nat
                        /\ v[n] = h[n] + e[n] + o[n] + g[n]
                        /\ w[n] = h[n] + e[West(n)] + o[South(n)]
    BY DEF Wired
  <1>1. \A n \in Node : West(n) \in Node /\ East(n) \in Node /\ South(n) \in Node /\ North(n) \in Node
    BY Neighbours
  <1>2. \A n \in Node : South(North(n)) = n /\ North(South(n)) = n /\ West(East(n)) = n /\ East(West(n)) = n
    BY Opposite
  <1>3. \A n \in Node : v[n] = 0 => h[n] = 0 /\ e[n] = 0 /\ o[n] = 0 /\ g[n] = 0
    <2> TAKE n \in Node
    <2>1. /\ h[n] \in Nat /\ e[n] \in Nat /\ o[n] \in Nat /\ g[n] \in Nat
          /\ v[n] = h[n] + e[n] + o[n] + g[n]
      BY <1>0
    <2> HAVE v[n] = 0
    <2>2. PICK a \in Nat, b \in Nat, c \in Nat, d \in Nat :
            h[n] = a /\ e[n] = b /\ o[n] = c /\ g[n] = d
      BY <2>1
    <2>3. a + b + c + d = 0
      BY <2>1, <2>2
    <2>4. a = 0 /\ b = 0 /\ c = 0 /\ d = 0
      BY <2>3
    <2> QED
      BY <2>2, <2>4
  <1>4. \A n \in Node : h[n] = 0 /\ e[West(n)] = 0 /\ o[South(n)] = 0 => w[n] = 0
    BY <1>0, <1>1
  <1>5. ASSUME AllZero(v) PROVE AllZero(w) /\ AllZero(g)
    BY <1>1, <1>3, <1>4, <1>5 DEF AllZero
  <1>6. ASSUME NEW n \in Node, v[n] = 1, \A m \in Node \ {n} : v[m] = 0
        PROVE  \/ OneOnly(w) /\ AllZero(g)
               \/ AllZero(w) /\ \E m \in Node : g[m] = 1
    <2>1. \A m \in Node \ {n} : h[m] = 0 /\ e[m] = 0 /\ o[m] = 0 /\ g[m] = 0
      BY <1>3, <1>6
    <2>2. \A m \in Node : (West(m) = n <=> m = East(n)) /\ (South(m) = n <=> m = North(n))
      BY <1>2
    <2>3. CASE h[n] = 1 /\ e[n] = 0 /\ o[n] = 0 /\ g[n] = 0
      <3>1. w[n] = 1
        <4>1. West(n) # n => e[West(n)] = 0
          BY <1>1, <2>1
        <4>2. South(n) # n => o[South(n)] = 0
          BY <1>1, <2>1
        <4>3. w[n] = h[n] + e[West(n)] + o[South(n)]
          BY <1>0
        <4> QED
          BY <2>3, <4>1, <4>2, <4>3
      <3>2. \A m \in Node \ {n} : w[m] = 0
        BY <1>1, <1>4, <2>1, <2>3
      <3> QED
        BY <2>1, <2>3, <3>1, <3>2 DEF OneOnly, AllZero
    <2>4. CASE h[n] = 0 /\ e[n] = 1 /\ o[n] = 0 /\ g[n] = 0
      <3>1. East(n) \in Node /\ West(East(n)) = n
        BY <1>1, <1>2
      <3>2. w[East(n)] = 1
        <4>1. h[East(n)] = 0
          BY <2>1, <2>4, <3>1
        <4>2. o[South(East(n))] = 0
          BY <1>1, <2>1, <2>4, <3>1
        <4>3. w[East(n)] = h[East(n)] + e[West(East(n))] + o[South(East(n))]
          BY <1>0, <3>1
        <4> QED
          BY <2>4, <3>1, <4>1, <4>2, <4>3
      <3>3. \A m \in Node \ {East(n)} : w[m] = 0
        BY <1>1, <1>4, <2>1, <2>2, <2>4
      <3> QED
        BY <2>1, <2>4, <3>1, <3>2, <3>3 DEF OneOnly, AllZero
    <2>5. CASE h[n] = 0 /\ e[n] = 0 /\ o[n] = 1 /\ g[n] = 0
      <3>1. North(n) \in Node /\ South(North(n)) = n
        BY <1>1, <1>2
      <3>2. w[North(n)] = 1
        <4>1. h[North(n)] = 0
          BY <2>1, <2>5, <3>1
        <4>2. e[West(North(n))] = 0
          BY <1>1, <2>1, <2>5, <3>1
        <4>3. w[North(n)] = h[North(n)] + e[West(North(n))] + o[South(North(n))]
          BY <1>0, <3>1
        <4> QED
          BY <2>5, <3>1, <4>1, <4>2, <4>3
      <3>3. \A m \in Node \ {North(n)} : w[m] = 0
        BY <1>1, <1>4, <2>1, <2>2, <2>5
      <3> QED
        BY <2>1, <2>5, <3>1, <3>2, <3>3 DEF OneOnly, AllZero
    <2>6. CASE h[n] = 0 /\ e[n] = 0 /\ o[n] = 0 /\ g[n] = 1
      <3>1. AllZero(w)
        BY <1>1, <1>4, <2>1, <2>6 DEF AllZero
      <3> QED
        BY <2>6, <3>1
    <2>7. \/ h[n] = 1 /\ e[n] = 0 /\ o[n] = 0 /\ g[n] = 0
          \/ h[n] = 0 /\ e[n] = 1 /\ o[n] = 0 /\ g[n] = 0
          \/ h[n] = 0 /\ e[n] = 0 /\ o[n] = 1 /\ g[n] = 0
          \/ h[n] = 0 /\ e[n] = 0 /\ o[n] = 0 /\ g[n] = 1
      <3>1. /\ h[n] \in Nat /\ e[n] \in Nat /\ o[n] \in Nat /\ g[n] \in Nat
            /\ v[n] = h[n] + e[n] + o[n] + g[n] /\ v[n] = 1
        BY <1>0, <1>6
      <3> QED
        BY <3>1
    <2> QED
      BY <2>3, <2>4, <2>5, <2>6, <2>7
  <1> QED
    BY <1>5, <1>6 DEF OneOnly

\* What the node that is simulated last does to the context r of n, when c is the
\* context of every node after its cycle.
HandedOver(c, n, r) ==
  /\ Parts \subseteq DOMAIN r
  /\ r.inSouth = c[South(n)].outNorth /\ r.inWest = c[West(n)].outEast
  /\ r.outNorth = NoFlit /\ r.outEast = NoFlit /\ r.dropped = {}
  /\ r.inCore = c[n].inCore /\ r.inj = c[n].inj /\ r.core = c[n].core
  /\ r.corner = c[n].corner /\ r.fatal = c[n].fatal

\* The end of a cycle does this, with or without signals.
LEMMA HandedOverIs ==
  ASSUME NEW c, NEW n \in Node, Carrier(n, c[n])
  PROVE  HandedOver(c, n, Handover(c, n)) /\ HandedOver(c, n, Signaled(c, n))
  <1> DEFINE r == Handover(c, n)
             s == Signaled(c, n)
  <1>1. HandedOver(c, n, r)
    BY DEF Handover, HandedOver, Parts, Carrier
  <1>2. s = [r EXCEPT !.isSignaledEast = c[East(n)].signalWest, !.isSignaledNorth = c[North(n)].signalSouth]
    BY DEF Signaled
  <1> HIDE DEF r, s
  <1>3. HandedOver(c, n, s)
    BY <1>1, <1>2 DEF HandedOver, Parts
  <1> QED
    BY <1>1, <1>3 DEF r, s

\* A cycle of all nodes and the exchange lead from the contexts C over c to D.
OneRound(C, c, D) ==
  \A n \in Node : CycleKeeps(n, C[n], c[n]) /\ ~c[n].fatal /\ HandedOver(c, n, D[n])

\* A flit that was in one place is in one place again, or was lost.
StillOne(C, c, D, f, k) ==
  /\ AllZero(Weights(C, f, k)) =>
       AllZero(Weights(D, f, k)) /\ \A n \in Node : Gone(c[n], f, k) = 0
  /\ OneOnly(Weights(C, f, k)) =>
       \/ OneOnly(Weights(D, f, k)) /\ \A n \in Node : Gone(c[n], f, k) = 0
       \/ AllZero(Weights(D, f, k)) /\ \E n \in Node : Gone(c[n], f, k) = 1

\* A cycle of all nodes and the exchange keep a flit in one place, or lose it.
LEMMA RoundKeeps ==
  ASSUME NEW C, NEW c, NEW D, OneRound(C, c, D)
  PROVE  /\ \A n \in Node : Between(n, D[n])
         /\ \A f, k : StillOne(C, c, D, f, k)
  <1>0. \A n \in Node : CycleKeeps(n, C[n], c[n]) /\ ~c[n].fatal /\ HandedOver(c, n, D[n])
    BY DEF OneRound
  <1>1. \A n \in Node : Carrier(n, c[n])
    BY <1>0 DEF CycleKeeps
  <1>2. ASSUME NEW n \in Node PROVE Between(n, D[n])
    <2>1. West(n) \in Node /\ South(n) \in Node
      BY Neighbours
    <2>2. c[West(n)].outEast \in Slot /\ c[South(n)].outNorth \in Slot
      BY <1>1, <2>1 DEF Carrier
    <2>3. Carrier(n, c[n]) /\ HandedOver(c, n, D[n]) /\ ~c[n].fatal
      BY <1>0, <1>1
    <2>4. NoFlit \in Slot
      BY DEF Slot
    <2> QED
      BY <2>2, <2>3, <2>4 DEF Between, Carrier, HandedOver
  <1>3. ASSUME NEW f, NEW k PROVE StillOne(C, c, D, f, k)
    <2> DEFINE h == [n \in Node |-> One(c[n].inCore, f, k) + Times(c[n].inj, f, k)
                                    + Times(c[n].core, f, k) + Times(c[n].corner, f, k)]
               e == [n \in Node |-> One(c[n].outEast, f, k)]
               o == [n \in Node |-> One(c[n].outNorth, f, k)]
               g == [n \in Node |-> Gone(c[n], f, k)]
               v == Weights(C, f, k)
               w == Weights(D, f, k)
    <2>1. ASSUME NEW n \in Node
          PROVE  /\ One(c[n].inCore, f, k) \in Nat /\ Times(c[n].inj, f, k) \in Nat
                 /\ Times(c[n].core, f, k) \in Nat /\ Times(c[n].corner, f, k) \in Nat
                 /\ One(c[n].outEast, f, k) \in Nat /\ One(c[n].outNorth, f, k) \in Nat
                 /\ Gone(c[n], f, k) \in Nat /\ Load(c[n], f, k) \in Nat
      BY <1>1, LoadTyped
    <2>2. \A n \in Node : h[n] \in Nat /\ e[n] \in Nat /\ o[n] \in Nat /\ g[n] \in Nat
      BY <2>1
    <2>3. ASSUME AllZero(v) \/ OneOnly(v), NEW n \in Node PROVE v[n] = h[n] + e[n] + o[n] + g[n]
      <3>1. v[n] = 0 \/ v[n] = 1
        <4> HIDE DEF v
        <4> QED
          BY <2>3 DEF AllZero, OneOnly
      <3>2. v[n] = Weight(C[n], f, k)
        BY DEF Weights
      <3>3. v[n] = Load(c[n], f, k)
        <4> HIDE DEF v
        <4> QED
          BY <1>0, <3>1, <3>2 DEF CycleKeeps
      <3> QED
        BY <2>1, <3>3 DEF Load
    <2>4. ASSUME NEW n \in Node PROVE w[n] = h[n] + e[West(n)] + o[South(n)]
      <3>1. West(n) \in Node /\ South(n) \in Node
        BY Neighbours
      <3>2. /\ One(D[n].inCore, f, k) = One(c[n].inCore, f, k)
            /\ Times(D[n].inj, f, k) = Times(c[n].inj, f, k)
            /\ Times(D[n].core, f, k) = Times(c[n].core, f, k)
            /\ Times(D[n].corner, f, k) = Times(c[n].corner, f, k)
            /\ One(D[n].outEast, f, k) = 0 /\ One(D[n].outNorth, f, k) = 0 /\ Gone(D[n], f, k) = 0
            /\ One(D[n].inWest, f, k) = e[West(n)] /\ One(D[n].inSouth, f, k) = o[South(n)]
        BY <1>0, <3>1, OneIs DEF HandedOver, Gone
      <3>3. h[n] \in Nat /\ e[West(n)] \in Nat /\ o[South(n)] \in Nat
        BY <2>2, <3>1
      <3>4. w[n] = Load(D[n], f, k) + One(D[n].inSouth, f, k) + One(D[n].inWest, f, k)
        BY DEF Weights, Weight
      <3>5. Load(D[n], f, k) = h[n]
        BY <2>1, <3>2 DEF Load
      <3> QED
        BY <3>2, <3>3, <3>4, <3>5
    <2> HIDE DEF h, e, o, v, w, g
    <2>5. /\ AllZero(v) => AllZero(w) /\ AllZero(g)
          /\ OneOnly(v) => \/ OneOnly(w) /\ AllZero(g)
                           \/ AllZero(w) /\ \E n \in Node : g[n] = 1
      <3>1. AllZero(v) \/ OneOnly(v) => Wired(h, e, o, g, v, w)
        BY <2>2, <2>3, <2>4 DEF Wired
      <3> QED
        BY <3>1, OverTheWires
    <2>6. /\ AllZero(g) <=> \A n \in Node : Gone(c[n], f, k) = 0
          /\ \A n \in Node : g[n] = Gone(c[n], f, k)
      BY DEF AllZero, g
    <2> QED
      BY <2>5, <2>6 DEF v, w, StillOne
  <1> QED
    BY <1>2, <1>3

-----------------------------------------------------------------------------
\* The inductive invariant, for contexts, histories and lost flits that are given.

\* Flit k of flow f is in L, the lost flits.
InLost(L, f, k) == \E fc \in L : IsFlit(fc, f, k)

\* Flit k of flow f is under way, when S, G and L are what was sent, received and lost.
Underway(S, G, L, f, k) == k <= S[f] /\ k \notin G[f] /\ ~InLost(L, f, k)

\* It is in one place of the contexts C then, and otherwise in none.
Placed(C, S, G, L, f, k) ==
  /\ k \in G[f] \/ InLost(L, f, k) => k <= S[f]
  /\ Underway(S, G, L, f, k) => OneOnly(Weights(C, f, k))
  /\ ~Underway(S, G, L, f, k) => AllZero(Weights(C, f, k))

\* The inductive invariant.
Keeping(C, S, G, L) ==
  /\ S \in [Flows -> Nat] /\ G \in [Flows -> SUBSET Nat]
  /\ C = [n \in Node |-> C[n]] /\ \A n \in Node : Between(n, C[n])
  /\ \A f \in Flows : \A k \in Nat : k >= 1 => Placed(C, S, G, L, f, k)

\* What a cycle of all nodes adds to the lost flits.
DroppedIn(c) == UNION {c[n].dropped : n \in Node}

\* noc_route_all keeps the invariant.
LEMMA KeepingOnRoute ==
  ASSUME NEW C, NEW S, NEW G, NEW L, Keeping(C, S, G, L), NEW c, NEW D,
         OneRound(C, c, D), D = [n \in Node |-> D[n]]
  PROVE  Keeping(D, S, G, L \cup DroppedIn(c))
  <1> DEFINE M == L \cup DroppedIn(c)
  <1>1. /\ \A n \in Node : Between(n, D[n])
        /\ \A f, k : StillOne(C, c, D, f, k)
    BY RoundKeeps
  <1>4. ASSUME NEW f, NEW k
        PROVE  InLost(M, f, k) <=> InLost(L, f, k) \/ \E n \in Node : Gone(c[n], f, k) = 1
    BY DEF InLost, Gone, DroppedIn
  <1> HIDE DEF M
  <1>5. ASSUME NEW f \in Flows, NEW k \in Nat, k >= 1
        PROVE  Placed(D, S, G, M, f, k)
    <2>1. Placed(C, S, G, L, f, k)
      BY <1>5 DEF Keeping
    <2>4. CASE AllZero(Weights(C, f, k))
      <3>1. ~OneOnly(Weights(C, f, k))
        BY <2>4 DEF AllZero, OneOnly
      <3>2. ~Underway(S, G, L, f, k)
        BY <2>1, <3>1 DEF Placed
      <3>3. AllZero(Weights(D, f, k)) /\ (InLost(M, f, k) <=> InLost(L, f, k))
        BY <1>1, <1>4, <2>4 DEF StillOne
      <3> QED
        BY <2>1, <3>2, <3>3 DEF Placed, Underway
    <2>5. CASE OneOnly(Weights(C, f, k))
      <3>1. ~AllZero(Weights(C, f, k))
        BY <2>5 DEF AllZero, OneOnly
      <3>2. Underway(S, G, L, f, k)
        BY <2>1, <3>1 DEF Placed
      <3>3. CASE OneOnly(Weights(D, f, k)) /\ \A n \in Node : Gone(c[n], f, k) = 0
        <4>1. InLost(M, f, k) <=> InLost(L, f, k)
          BY <1>4, <3>3
        <4> QED
          BY <2>1, <3>2, <3>3, <4>1 DEF Placed, Underway
      <3>4. CASE AllZero(Weights(D, f, k)) /\ \E n \in Node : Gone(c[n], f, k) = 1
        <4>1. InLost(M, f, k)
          BY <1>4, <3>4
        <4> QED
          BY <2>1, <3>2, <3>4, <4>1 DEF Placed, Underway
      <3> QED
        BY <1>1, <2>5, <3>3, <3>4 DEF StillOne
    <2> QED
      BY <2>1, <2>4, <2>5 DEF Placed
  <1>6. Keeping(D, S, G, M)
    BY <1>1, <1>5 DEF Keeping
  <1> QED
    BY <1>6 DEF M

\* The context of one node changes, and with it, for flit j of flow g only, the
\* weight.
LEMMA OneNodeMore ==
  ASSUME NEW C, NEW D, NEW a \in Node, NEW f, NEW k,
         \A n \in Node \ {a} : D[n] = C[n],
         Weight(D[a], f, k) = Weight(C[a], f, k) + 1, AllZero(Weights(C, f, k))
  PROVE  OneOnly(Weights(D, f, k))
  <1>1. \A n \in Node : Weight(C[n], f, k) = 0
    BY DEF AllZero, Weights
  <1>2. Weight(D[a], f, k) = 1 /\ \A n \in Node \ {a} : Weight(D[n], f, k) = 0
    BY <1>1
  <1> QED
    BY <1>2 DEF OneOnly, Weights

\* The same when the weight becomes less: there was one flit and it is gone.
LEMMA OneNodeLess ==
  ASSUME NEW C, NEW D, NEW a \in Node, NEW f, NEW k,
         \A n \in Node \ {a} : D[n] = C[n], Weight(D[a], f, k) \in Nat,
         Weight(C[a], f, k) = Weight(D[a], f, k) + 1
  PROVE  ~AllZero(Weights(C, f, k)) /\ (OneOnly(Weights(C, f, k)) => AllZero(Weights(D, f, k)))
  <1>1. Weight(C[a], f, k) # 0
    OBVIOUS
  <1>2. ASSUME NEW n \in Node, Weight(C[n], f, k) = 1, \A m \in Node \ {n} : Weight(C[m], f, k) = 0
        PROVE  \A m \in Node : Weight(D[m], f, k) = 0
    <2>1. n = a
      BY <1>1, <1>2
    <2>2. Weight(D[a], f, k) = 0
      BY <1>2, <2>1
    <2> QED
      BY <1>2, <2>1, <2>2
  <1> QED
    BY <1>1, <1>2 DEF OneOnly, AllZero, Weights

\* A flit that the change of one context does not concern.
LEMMA SameWeights ==
  ASSUME NEW C, NEW D, NEW a \in Node, NEW f, NEW k,
         \A n \in Node \ {a} : D[n] = C[n], Weight(C[a], f, k) = Weight(D[a], f, k)
  PROVE  Weights(D, f, k) = Weights(C, f, k)
  BY DEF Weights

-----------------------------------------------------------------------------
\* What a core takes out of its router and puts into it.

\* Some position is the first one of a kind.
LEMMA FirstExists ==
  ASSUME NEW T, T \subseteq Nat, T # {}
  PROVE  \E x \in T : \A y \in T : x <= y
  <1> DEFINE R == OpToRel(<, Nat)
  <1>1. \A x, y \in Nat : y < x => <<y, x>> \in R
    <2>1. \A x, y \in Nat : <<y, x>>[1] = y /\ <<y, x>>[2] = x
      OBVIOUS
    <2> QED
      BY <2>1 DEF OpToRel
  <1>2. IsWellFoundedOn(R, Nat)
    BY NatLessThanWellFounded
  <1> HIDE DEF R
  <1>3. PICK x \in T : \A y \in T : ~(<<y, x>> \in R)
    BY <1>2, WFMin
  <1>4. ASSUME NEW y \in T
        PROVE  x <= y
    <2>1. x \in Nat /\ y \in Nat /\ ~(y < x)
      BY <1>1, <1>3
    <2> QED
      BY <2>1
  <1> QED
    BY <1>4

\* The number that FirstFrom gives is that of a flit of the sender s.
LEMMA FirstFromIs ==
  ASSUME NEW S, NEW q \in Seq(S), NEW s, FirstFrom(q, s) # 0
  PROVE  FirstFrom(q, s) \in 1 .. Len(q) /\ q[FirstFrom(q, s)].src = s
  <1> DEFINE I == {i \in 1 .. Len(q) : q[i].src = s}
  <1>1. FirstFrom(q, s) = IF I # {} THEN Min(I) ELSE 0
    BY DEF FirstFrom, SelectInSeq
  <1>2. I # {} /\ I \subseteq Nat
    BY <1>1
  <1>3. Min(I) \in I
    <2> HIDE DEF I
    <2>1. \E x \in I : \A y \in I : x <= y
      BY <1>2, FirstExists
    <2> QED
      BY <2>1 DEF Min
  <1> QED
    BY <1>1, <1>2, <1>3

\* The queue for injection takes a flit.
LEMMA InjTaken ==
  ASSUME NEW n, NEW r, NEW s, NEW fc, Carrier(n, r), fc \in Sent,
         Except(r, s, {"inj"}), s.inj = Append(r.inj, fc)
  PROVE  /\ Stage(n, r, s, fc) /\ (s.fatal => r.fatal)
         /\ s.inWest = r.inWest /\ s.inSouth = r.inSouth
         /\ s.outEast = r.outEast /\ s.outNorth = r.outNorth /\ s.dropped = r.dropped
  <1>1. /\ s.inWest = r.inWest /\ s.inSouth = r.inSouth /\ s.inCore = r.inCore
        /\ s.core = r.core /\ s.corner = r.corner
        /\ s.outEast = r.outEast /\ s.outNorth = r.outNorth
        /\ s.dropped = r.dropped /\ s.fatal = r.fatal
        /\ Parts \subseteq DOMAIN s
    BY DEF Except, Parts
  <1>2. s.inj \in Seq(Sent)
    BY DEF Carrier
  <1>3. Carrier(n, s)
    BY <1>1, <1>2 DEF Carrier
  <1>4. ASSUME NEW f, NEW k PROVE Load(s, f, k) = Load(r, f, k) + One(fc, f, k)
    <2>1. Gone(s, f, k) = Gone(r, f, k) /\ One(fc, f, k) \in Nat
      BY <1>1, OneIs DEF Gone
    <2>2. Times(s.inj, f, k) = Times(r.inj, f, k) + One(fc, f, k)
      BY TimesAppend DEF Carrier
    <2>3. /\ One(r.inCore, f, k) \in Nat /\ Times(r.inj, f, k) \in Nat
          /\ Times(r.core, f, k) \in Nat /\ Times(r.corner, f, k) \in Nat
          /\ One(r.outEast, f, k) \in Nat /\ One(r.outNorth, f, k) \in Nat
          /\ Gone(r, f, k) \in Nat
      BY LoadTyped
    <2> QED
      BY <1>1, <2>1, <2>2, <2>3 DEF Load
  <1> QED
    BY <1>1, <1>3, <1>4 DEF Stage

\* The context of a router that has taken the flit fc for injection.
Queued(r, fc) == [Updated(r) EXCEPT !.inj = Append(@, fc)]

\* *_send_flit puts the new flit into the queue for injection.
LEMMA SendAdds ==
  ASSUME NEW n, NEW r, Between(n, r), NEW fc \in Sent
  PROVE  /\ Between(n, Queued(r, fc))
         /\ \A f, k : Weight(Queued(r, fc), f, k) = Weight(r, f, k) + One(fc, f, k)
  <1> DEFINE u == Updated(r)
             s == [u EXCEPT !.inj = Append(@, fc)]
  <1>1. /\ Carrier(n, u) /\ u.fatal = r.fatal
        /\ u.inWest = r.inWest /\ u.inSouth = r.inSouth
        /\ u.outEast = r.outEast /\ u.outNorth = r.outNorth
        /\ u.dropped = r.dropped /\ u.corner = r.corner
        /\ \A f, k : Load(u, f, k) = Load(r, f, k)
    BY UpdatedKeeps DEF Between
  <1> HIDE DEF u
  <1>2. Except(u, s, {"inj"}) /\ s.inj = Append(u.inj, fc)
    BY <1>1 DEF Except, Parts, Carrier
  <1> HIDE DEF s
  <1>3. /\ Stage(n, u, s, fc) /\ (s.fatal => u.fatal)
        /\ s.inWest = u.inWest /\ s.inSouth = u.inSouth
        /\ s.outEast = u.outEast /\ s.outNorth = u.outNorth /\ s.dropped = u.dropped
    BY <1>1, <1>2, InjTaken
  <1>4. Between(n, s)
    BY <1>1, <1>3 DEF Between, Stage
  <1>5. ASSUME NEW f, NEW k PROVE Weight(s, f, k) = Weight(r, f, k) + One(fc, f, k)
    <2>1. Load(s, f, k) = Load(u, f, k) + One(fc, f, k) /\ Load(u, f, k) = Load(r, f, k)
      BY <1>1, <1>3 DEF Stage, Between
    <2>2. Load(u, f, k) \in Nat /\ One(fc, f, k) \in Nat /\ One(r.inSouth, f, k) \in Nat
          /\ One(r.inWest, f, k) \in Nat
      BY <1>1, LoadTyped, OneIs
    <2>3. s.inWest = r.inWest /\ s.inSouth = r.inSouth
      BY <1>1, <1>3
    <2> QED
      BY <2>1, <2>2, <2>3 DEF Weight
  <1> QED
    BY <1>4, <1>5 DEF s, u, Queued

\* *_recv_flit takes the oldest flit of a sender out of the core buffer.
LEMMA RecvTakes ==
  ASSUME NEW n, NEW r, Between(n, r), NEW i \in 1 .. Len(r.core)
  PROVE  LET s == [r EXCEPT !.core = RemoveAt(@, i)]
         IN  /\ Between(n, s) /\ r.core[i] \in Sent /\ r.core[i].dest = n
             /\ \A f, k : /\ Weight(r, f, k) = Weight(s, f, k) + One(r.core[i], f, k)
                          /\ Weight(s, f, k) \in Nat
  <1> DEFINE q == RemoveAt(r.core, i)
             s == [r EXCEPT !.core = q]
             fc == r.core[i]
  <1>1. Carrier(n, r) /\ r.core \in Seq(Sent) /\ fc \in Sent /\ fc.dest = n
    BY DEF Between, Carrier
  <1>2. /\ q \in Seq(Sent)
        /\ \A f, k : Times(r.core, f, k) = Times(q, f, k) + One(fc, f, k)
        /\ \A j \in 1 .. Len(q) : \E m \in 1 .. Len(r.core) : q[j] = r.core[m]
    <2>1. PICK p \in Seq(Sent) : p = r.core
      BY <1>1
    <2>2. i \in 1 .. Len(p) /\ q = RemoveAt(p, i) /\ fc = p[i]
      BY <2>1
    <2> HIDE DEF q, fc
    <2>3. /\ q \in Seq(Sent)
          /\ \A f, k : Times(p, f, k) = Times(q, f, k) + One(fc, f, k)
          /\ \A j \in 1 .. Len(q) : \E m \in 1 .. Len(p) : q[j] = p[m]
      BY <2>2, TimesRemoved
    <2> QED
      BY <2>1, <2>3
  <1>3. s = [r EXCEPT !.core = RemoveAt(@, i)]
    OBVIOUS
  <1> HIDE DEF q, fc
  <1>4. /\ s.inWest = r.inWest /\ s.inSouth = r.inSouth /\ s.inCore = r.inCore
        /\ s.inj = r.inj /\ s.core = q /\ s.corner = r.corner
        /\ s.outEast = r.outEast /\ s.outNorth = r.outNorth
        /\ s.dropped = r.dropped /\ s.fatal = r.fatal /\ Parts \subseteq DOMAIN s
    BY DEF Carrier, Between, Parts
  <1> HIDE DEF s
  <1>5. \A j \in 1 .. Len(s.core) : s.core[j].dest = n
    BY <1>2, <1>4 DEF Between, Carrier
  <1>6. Between(n, s)
    BY <1>2, <1>4, <1>5 DEF Between, Carrier
  <1>7. ASSUME NEW f, NEW k
        PROVE  /\ Weight(r, f, k) = Weight(s, f, k) + One(fc, f, k)
               /\ Weight(s, f, k) \in Nat
    <2>1. /\ One(s.inCore, f, k) \in Nat /\ Times(s.inj, f, k) \in Nat
          /\ Times(s.core, f, k) \in Nat /\ Times(s.corner, f, k) \in Nat
          /\ One(s.outEast, f, k) \in Nat /\ One(s.outNorth, f, k) \in Nat
          /\ Gone(s, f, k) \in Nat
      BY <1>6, LoadTyped DEF Between
    <2>2. One(s.inSouth, f, k) \in Nat /\ One(s.inWest, f, k) \in Nat /\ One(fc, f, k) \in Nat
      BY OneIs
    <2>3. Gone(s, f, k) = Gone(r, f, k) /\ Times(r.core, f, k) = Times(s.core, f, k) + One(fc, f, k)
      BY <1>2, <1>4 DEF Gone
    <2>4. Load(s, f, k) =
            One(r.inCore, f, k) + Times(r.inj, f, k) + Times(s.core, f, k) + Times(r.corner, f, k)
            + One(r.outEast, f, k) + One(r.outNorth, f, k) + Gone(r, f, k)
      BY <1>4, <2>3 DEF Load
    <2>5. Load(r, f, k) = Load(s, f, k) + One(fc, f, k)
      BY <1>4, <2>1, <2>2, <2>3, <2>4 DEF Load
    <2>6. Load(s, f, k) \in Nat
      BY <1>6, LoadTyped DEF Between
    <2> QED
      BY <1>4, <2>2, <2>5, <2>6 DEF Weight
  <1> QED
    BY <1>1, <1>3, <1>6, <1>7 DEF fc

\* What the flows and the flits are: flows go from node to node, and NULL is no flit.
FlowAssumption == Flows \subseteq Node \X Node /\ NoFlit \notin Sent

\* A flow is a pair of nodes and is determined by them.
LEMMA FlowIs ==
  ASSUME FlowAssumption, NEW f \in Flows
  PROVE  /\ f[1] \in Node /\ f[2] \in Node
         /\ \A g \in Flows : g[1] = f[1] /\ g[2] = f[2] => g = f
  BY DEF FlowAssumption

\* The next flit of flow f, when S counts those sent.
NextFlit(S, f, m) == [src |-> f[1], dest |-> f[2], seq |-> S[f] + 1, marked |-> m]

\* The core sends it: the contexts C become D, the numbers S become T.
SentOne(C, D, S, T, f) ==
  /\ \E m \in Marks : D[f[1]] = Queued(C[f[1]], NextFlit(S, f, m))
  /\ D = [n \in Node |-> D[n]] /\ \A n \in Node \ {f[1]} : D[n] = C[n]
  /\ T = [S EXCEPT ![f] = @ + 1]

\* *_send_flit keeps the invariant.
LEMMA KeepingOnSend ==
  ASSUME FlowAssumption, NEW C, NEW S, NEW G, NEW L, Keeping(C, S, G, L),
         NEW D, NEW T, NEW f \in Flows, SentOne(C, D, S, T, f)
  PROVE  Keeping(D, T, G, L)
  <1> DEFINE a == f[1]
             number == S[f] + 1
  <1>1. a \in Node /\ f[2] \in Node /\ number \in Nat /\ number >= 1 /\ S[f] \in Nat
    BY FlowIs DEF Keeping
  <1>2. PICK m \in Marks : D[a] = Queued(C[a], NextFlit(S, f, m))
    BY DEF SentOne
  <1>3. T = [S EXCEPT ![f] = @ + 1] /\ D = [n \in Node |-> D[n]] /\ \A n \in Node \ {a} : D[n] = C[n]
    BY DEF SentOne
  <1> DEFINE fc == NextFlit(S, f, m)
  <1>4. D[a] = Queued(C[a], fc)
    BY <1>2
  <1>5. fc \in Sent /\ fc # NoFlit
    <2>1. m \in Marks \cup {TRUE} /\ number \in Nat
      BY <1>1
    <2>2. fc = [src |-> a, dest |-> f[2], seq |-> number, marked |-> m]
      BY DEF NextFlit
    <2> HIDE DEF number, fc
    <2>3. fc \in Sent
      BY <1>1, <2>1, <2>2 DEF Sent
    <2> QED
      BY <2>3 DEF FlowAssumption
  <1>6. fc.src = f[1] /\ fc.dest = f[2] /\ fc.seq = number
    BY DEF NextFlit
  <1> HIDE DEF fc
  <1>7. \A g \in Flows : \A k : One(fc, g, k) = IF g = f /\ k = number THEN 1 ELSE 0
    BY <1>5, <1>6, FlowIs DEF One, IsFlit
  <1>8. Between(a, C[a])
    BY <1>1 DEF Keeping
  <1>9. Between(a, D[a]) /\ \A g, k : Weight(D[a], g, k) = Weight(C[a], g, k) + One(fc, g, k)
    <2>1. PICK r : r = C[a]
      OBVIOUS
    <2>2. Between(a, r) /\ D[a] = Queued(r, fc)
      BY <1>4, <1>8, <2>1
    <2>3. Between(a, Queued(r, fc)) /\ \A g, k : Weight(Queued(r, fc), g, k) = Weight(r, g, k) + One(fc, g, k)
      BY <1>1, <1>5, <2>2, SendAdds
    <2> QED
      BY <2>1, <2>2, <2>3
  <1>10. \A n \in Node : Between(n, D[n])
    BY <1>3, <1>9 DEF Keeping
  <1>11. ASSUME NEW g \in Flows, NEW k \in Nat, k >= 1
         PROVE  Placed(D, T, G, L, g, k)
    <2>1. Placed(C, S, G, L, g, k)
      BY <1>11 DEF Keeping
    <2>2. S[g] \in Nat /\ T[g] = IF g = f THEN S[g] + 1 ELSE S[g]
      BY <1>3 DEF Keeping
    <2>3. CASE g = f /\ k = number
      <3>1. ~Underway(S, G, L, g, k) /\ k \notin G[g] /\ ~InLost(L, g, k)
        BY <1>1, <2>1, <2>3 DEF Placed, Underway
      <3>2. AllZero(Weights(C, g, k))
        BY <2>1, <3>1 DEF Placed
      <3>3. Weight(D[a], g, k) = Weight(C[a], g, k) + 1
        BY <1>7, <1>9, <2>3
      <3>4. OneOnly(Weights(D, g, k))
        BY <1>1, <1>3, <3>2, <3>3, OneNodeMore
      <3>5. k <= T[g]
        BY <1>1, <2>2, <2>3
      <3> QED
        BY <3>1, <3>4, <3>5 DEF Placed, Underway
    <2>4. CASE ~(g = f /\ k = number)
      <3>1. One(fc, g, k) = 0
        BY <1>7, <2>4
      <3>2. Weight(C[a], g, k) = Weight(D[a], g, k)
        <4>1. Weight(C[a], g, k) \in Nat
          BY <1>8, LoadTyped, OneIs DEF Weight, Between
        <4> QED
          BY <1>9, <3>1, <4>1
      <3>3. Weights(D, g, k) = Weights(C, g, k)
        BY <1>1, <1>3, <3>2, SameWeights
      <3>4. k <= T[g] <=> k <= S[g]
        BY <1>1, <2>2, <2>4
      <3>5. Underway(T, G, L, g, k) <=> Underway(S, G, L, g, k)
        BY <3>4 DEF Underway
      <3> QED
        BY <2>1, <3>3, <3>4, <3>5 DEF Placed
    <2> QED
      BY <2>3, <2>4
  <1>12. T \in [Flows -> Nat] /\ G \in [Flows -> SUBSET Nat]
    BY <1>1, <1>3 DEF Keeping
  <1> QED
    BY <1>3, <1>10, <1>11, <1>12 DEF Keeping

\* The core receives a flit of flow f: the contexts C become D, the received
\* flits G become H.
GotOne(C, D, G, H, f) ==
  /\ \E i \in 1 .. Len(C[f[2]].core) :
       /\ C[f[2]].core[i].src = f[1]
       /\ D[f[2]] = [C[f[2]] EXCEPT !.core = RemoveAt(@, i)]
       /\ H = [G EXCEPT ![f] = @ \cup {C[f[2]].core[i].seq}]
  /\ D = [n \in Node |-> D[n]] /\ \A n \in Node \ {f[2]} : D[n] = C[n]

\* *_recv_flit keeps the invariant.
LEMMA KeepingOnRecv ==
  ASSUME FlowAssumption, NEW C, NEW S, NEW G, NEW L, Keeping(C, S, G, L),
         NEW D, NEW H, NEW f \in Flows, GotOne(C, D, G, H, f)
  PROVE  Keeping(D, S, H, L)
  <1> DEFINE a == f[2]
             q == C[a].core
  <1>1. a \in Node /\ Between(a, C[a])
    BY FlowIs DEF Keeping
  <1>2. PICK i \in 1 .. Len(q) : /\ q[i].src = f[1]
                                 /\ D[a] = [C[a] EXCEPT !.core = RemoveAt(@, i)]
                                 /\ H = [G EXCEPT ![f] = @ \cup {q[i].seq}]
    BY DEF GotOne
  <1>3. D = [n \in Node |-> D[n]] /\ \A n \in Node \ {a} : D[n] = C[n]
    BY DEF GotOne
  <1> DEFINE fc == q[i]
  <1>5. fc.src = f[1] /\ H = [G EXCEPT ![f] = @ \cup {fc.seq}]
    BY <1>2
  <1>7. /\ Between(a, D[a]) /\ fc \in Sent /\ fc.dest = a
        /\ \A g, k : /\ Weight(C[a], g, k) = Weight(D[a], g, k) + One(fc, g, k)
                     /\ Weight(D[a], g, k) \in Nat
    <2>1. PICK r : r = C[a]
      OBVIOUS
    <2>2. PICK s : s = [r EXCEPT !.core = RemoveAt(@, i)]
      OBVIOUS
    <2>3. Between(a, r) /\ i \in 1 .. Len(r.core) /\ fc = r.core[i] /\ D[a] = s
      BY <1>1, <1>2, <2>1, <2>2
    <2> HIDE DEF fc, q
    <2> QED
      BY <2>1, <2>2, <2>3, RecvTakes
  <1>8. a \in Node /\ \A n \in Node \ {a} : D[n] = C[n]
    BY <1>1, <1>3
  <1> HIDE DEF fc, q, a
  <1>9. \A n \in Node : Between(n, D[n])
    BY <1>3, <1>7, <1>8 DEF Keeping
  <1>10. \A g \in Flows : \A k : One(fc, g, k) = IF g = f /\ k = fc.seq THEN 1 ELSE 0
    BY <1>5, <1>7, FlowIs DEF One, IsFlit, FlowAssumption, a
  <1>11. ASSUME NEW g \in Flows, NEW k \in Nat, k >= 1
         PROVE  Placed(D, S, H, L, g, k)
    <2>1. Placed(C, S, G, L, g, k)
      BY <1>11 DEF Keeping
    <2>3. k \in H[g] <=> k \in G[g] \/ (g = f /\ k = fc.seq)
      BY <1>5 DEF Keeping
    <2>4. CASE g = f /\ k = fc.seq
      <3>1. Weight(C[a], g, k) = Weight(D[a], g, k) + 1 /\ Weight(D[a], g, k) \in Nat
        BY <1>7, <1>10, <2>4
      <3>2. /\ ~AllZero(Weights(C, g, k))
            /\ OneOnly(Weights(C, g, k)) => AllZero(Weights(D, g, k))
        BY <1>8, <3>1, OneNodeLess
      <3>3. Underway(S, G, L, g, k) /\ AllZero(Weights(D, g, k))
        BY <2>1, <3>2 DEF Placed
      <3> QED
        BY <2>3, <2>4, <3>3 DEF Placed, Underway
    <2>5. CASE ~(g = f /\ k = fc.seq)
      <3>1. One(fc, g, k) = 0
        BY <1>10, <2>5
      <3>2. Weight(C[a], g, k) = Weight(D[a], g, k)
        BY <1>7, <3>1
      <3>3. Weights(D, g, k) = Weights(C, g, k)
        BY <1>8, <3>2, SameWeights
      <3>4. Underway(S, H, L, g, k) <=> Underway(S, G, L, g, k)
        BY <2>3, <2>5 DEF Underway
      <3> QED
        BY <2>1, <2>3, <2>5, <3>3, <3>4 DEF Placed
    <2> QED
      BY <2>4, <2>5
  <1>12. S \in [Flows -> Nat] /\ H \in [Flows -> SUBSET Nat]
    BY <1>5, <1>7 DEF Keeping, Sent
  <1> QED
    BY <1>3, <1>9, <1>11, <1>12 DEF Keeping

\* Empty routers satisfy it.
LEMMA KeepingAtFirst ==
  ASSUME FlowAssumption, NEW C, C = [n \in Node |-> C[n]],
         \A n \in Node : /\ Parts \subseteq DOMAIN C[n]
                         /\ C[n].inWest = NoFlit /\ C[n].inSouth = NoFlit /\ C[n].inCore = NoFlit
                         /\ C[n].inj = <<>> /\ C[n].core = <<>> /\ C[n].corner = <<>>
                         /\ C[n].outEast = NoFlit /\ C[n].outNorth = NoFlit
                         /\ C[n].dropped = {} /\ C[n].fatal = FALSE
  PROVE  Keeping(C, [f \in Flows |-> 0], [f \in Flows |-> {}], {})
  <1>1. \A n \in Node : Between(n, C[n])
    <2>1. <<>> \in Seq(Sent) /\ Len(<<>>) = 0 /\ NoFlit \in Slot
      BY DEF Slot
    <2> TAKE n \in Node
    <2>2. Carrier(n, C[n])
      <3>1. PICK r : r = C[n]
        OBVIOUS
      <3>2. /\ Parts \subseteq DOMAIN r /\ r.inWest = NoFlit /\ r.inSouth = NoFlit /\ r.inCore = NoFlit
            /\ r.inj = <<>> /\ r.core = <<>> /\ r.corner = <<>>
            /\ r.outEast = NoFlit /\ r.outNorth = NoFlit /\ r.dropped = {} /\ r.fatal = FALSE
        BY <3>1
      <3>3. r.fatal \in BOOLEAN /\ r.dropped \in SUBSET Sent
        BY <3>2
      <3>4. \A i \in 1 .. Len(r.core) : r.core[i].dest = n
        BY <2>1, <3>2
      <3>5. Carrier(n, r)
        BY <2>1, <3>2, <3>3, <3>4 DEF Carrier
      <3> QED
        BY <3>1, <3>5
    <2> QED
      BY <2>2 DEF Between
  <1>2. ASSUME NEW f, NEW k PROVE AllZero(Weights(C, f, k))
    <2>1. ASSUME NEW n \in Node PROVE Weight(C[n], f, k) = 0
      <3>1. /\ One(C[n].inCore, f, k) = 0 /\ One(C[n].outEast, f, k) = 0 /\ One(C[n].outNorth, f, k) = 0
            /\ One(C[n].inWest, f, k) = 0 /\ One(C[n].inSouth, f, k) = 0 /\ Gone(C[n], f, k) = 0
        BY OneIs DEF Gone
      <3>2. Times(C[n].inj, f, k) = 0 /\ Times(C[n].core, f, k) = 0 /\ Times(C[n].corner, f, k) = 0
        BY TimesEmpty
      <3> QED
        BY <3>1, <3>2 DEF Weight, Load
    <2> QED
      BY <2>1 DEF AllZero, Weights
  <1> DEFINE S == [f \in Flows |-> 0]
             G == [f \in Flows |-> {}]
  <1>3. ASSUME NEW f \in Flows, NEW k \in Nat, k >= 1 PROVE Placed(C, S, G, {}, f, k)
    <2>1. ~Underway(S, G, {}, f, k) /\ k \notin G[f] /\ ~InLost({}, f, k)
      BY <1>3 DEF Underway, InLost
    <2> HIDE DEF S, G
    <2> QED
      BY <1>2, <2>1 DEF Placed
  <1>4. S \in [Flows -> Nat] /\ G \in [Flows -> SUBSET Nat]
    OBVIOUS
  <1> HIDE DEF S, G
  <1>5. Keeping(C, S, G, {})
    BY <1>1, <1>3, <1>4 DEF Keeping
  <1> QED
    BY <1>5 DEF S, G

\* Copies counts over all nodes what Times counts in one.
LEMMA CopiesIs ==
  ASSUME NEW held, DOMAIN held = Node, NEW w,
         \A n \in Node : held[n] \in Seq(Slot), NEW f, NEW k,
         \A n \in Node : w[n] = Times(held[n], f, k)
  PROVE  /\ AllZero(w) => Copies(held, f, k) = 0
         /\ OneOnly(w) => Copies(held, f, k) = 1
  <1> DEFINE P == UNION {{<<n, i>> : i \in {i \in DOMAIN held[n] : IsFlit(held[n][i], f, k)}}
                         : n \in DOMAIN held}
  <1>1. Copies(held, f, k) = Cardinality(P)
    BY DEF Copies
  <1>2. \A n \in Node : {i \in DOMAIN held[n] : IsFlit(held[n][i], f, k)} = Found(held[n], f, k)
    <2> TAKE n \in Node
    <2>1. DOMAIN held[n] = 1 .. Len(held[n])
      BY LenProperties
    <2> QED
      BY <2>1 DEF Found
  <1>3. P = UNION {{<<n, i>> : i \in Found(held[n], f, k)} : n \in Node}
    BY <1>2
  <1>4. \A n \in Node : IsFiniteSet(Found(held[n], f, k)) /\ w[n] = Cardinality(Found(held[n], f, k))
    <2> TAKE n \in Node
    <2>1. PICK q \in Seq(Slot) : q = held[n]
      OBVIOUS
    <2>2. IsFiniteSet(Found(q, f, k))
      BY TimesTyped
    <2> QED
      BY <2>1, <2>2 DEF Times
  <1> HIDE DEF P
  <1>5. \A n \in Node : w[n] = 0 => Found(held[n], f, k) = {}
    BY <1>4, FS_EmptySet
  <1>6. ASSUME AllZero(w) PROVE Copies(held, f, k) = 0
    <2>1. P = {}
      BY <1>3, <1>5, <1>6 DEF AllZero
    <2> QED
      BY <1>1, <2>1, FS_EmptySet
  <1>7. ASSUME NEW n \in Node, w[n] = 1, \A m \in Node \ {n} : w[m] = 0
        PROVE  Copies(held, f, k) = 1
    <2>1. PICK i : Found(held[n], f, k) = {i}
      BY <1>4, <1>7, FS_Singleton
    <2>2. \A m \in Node \ {n} : Found(held[m], f, k) = {}
      BY <1>5, <1>7
    <2>3. P = {<<n, i>>}
      BY <1>3, <2>1, <2>2
    <2> QED
      BY <1>1, <2>3, FS_Singleton
  <1> QED
    BY <1>6, <1>7 DEF OneOnly

\* What a router holds, as Holds lists it.
Held(r) == <<r.inWest, r.inSouth, r.inCore>> \o r.inj \o r.core \o r.corner

\* What is listed is what Weight counts.
LEMMA HeldIs ==
  ASSUME NEW n, NEW r, Between(n, r), NEW f, NEW k
  PROVE  Held(r) \in Seq(Slot) /\ Times(Held(r), f, k) = Weight(r, f, k)
  <1>1. /\ r.inWest \in Slot /\ r.inSouth \in Slot /\ r.inCore \in Slot
        /\ r.inj \in Seq(Slot) /\ r.core \in Seq(Slot) /\ r.corner \in Seq(Slot)
        /\ r.outEast = NoFlit /\ r.outNorth = NoFlit /\ r.dropped = {} /\ Carrier(n, r)
    BY DEF Between, Carrier, Slot
  <1> DEFINE a == <<r.inWest>>
             b == Append(a, r.inSouth)
             c == Append(b, r.inCore)
             d == c \o r.inj
             e == d \o r.core
  <1>2. a \in Seq(Slot) /\ Times(a, f, k) = One(r.inWest, f, k)
    BY <1>1, TimesOne
  <1>3. Held(r) = e \o r.corner
    <2> DEFINE t == <<r.inWest, r.inSouth, r.inCore>>
    <2>1. /\ c \in Seq(Slot) /\ Len(c) = 3
          /\ c[1] = r.inWest /\ c[2] = r.inSouth /\ c[3] = r.inCore
      BY <1>1
    <2>2. /\ t \in Seq(Slot) /\ Len(t) = 3
          /\ t[1] = r.inWest /\ t[2] = r.inSouth /\ t[3] = r.inCore
      BY <1>1
    <2>3. Held(r) = t \o r.inj \o r.core \o r.corner
      BY DEF Held
    <2> HIDE DEF c, t
    <2>4. \A i \in 1 .. Len(c) : c[i] = t[i]
      BY <2>1, <2>2
    <2>5. c = t
      BY <2>1, <2>2, <2>4, SeqEqual
    <2> QED
      BY <2>3, <2>5
  <1> HIDE DEF a
  <1>4. b \in Seq(Slot) /\ Times(b, f, k) = Times(a, f, k) + One(r.inSouth, f, k)
    BY <1>1, <1>2, TimesAppend
  <1> HIDE DEF b
  <1>5. c \in Seq(Slot) /\ Times(c, f, k) = Times(b, f, k) + One(r.inCore, f, k)
    BY <1>1, <1>4, TimesAppend
  <1> HIDE DEF c
  <1>6. d \in Seq(Slot) /\ Times(d, f, k) = Times(c, f, k) + Times(r.inj, f, k)
    BY <1>1, <1>5, TimesConcat
  <1> HIDE DEF d
  <1>7. e \in Seq(Slot) /\ Times(e, f, k) = Times(d, f, k) + Times(r.core, f, k)
    BY <1>1, <1>6, TimesConcat
  <1> HIDE DEF e
  <1>8. Held(r) \in Seq(Slot) /\ Times(Held(r), f, k) = Times(e, f, k) + Times(r.corner, f, k)
    BY <1>1, <1>3, <1>7, TimesConcat
  <1>9. /\ One(r.inCore, f, k) \in Nat /\ Times(r.inj, f, k) \in Nat /\ Times(r.core, f, k) \in Nat
        /\ Times(r.corner, f, k) \in Nat /\ One(r.inWest, f, k) \in Nat /\ One(r.inSouth, f, k) \in Nat
        /\ One(r.outEast, f, k) = 0 /\ One(r.outNorth, f, k) = 0 /\ Gone(r, f, k) = 0
    BY <1>1, LoadTyped, OneIs DEF Gone
  <1>10. Load(r, f, k) = One(r.inCore, f, k) + Times(r.inj, f, k) + Times(r.core, f, k) + Times(r.corner, f, k)
    BY <1>9 DEF Load
  <1> QED
    BY <1>2, <1>4, <1>5, <1>6, <1>7, <1>8, <1>9, <1>10 DEF Weight

\* Listed is what every router holds, each flit as often as it is there.
ListedIn(held, C) ==
  /\ DOMAIN held = Node
  /\ \A n \in Node : /\ held[n] \in Seq(Slot)
                     /\ \A f, k : Times(held[n], f, k) = Weight(C[n], f, k)

\* The invariant says of every flit in how many places it is.
LEMMA KeepingMeans ==
  ASSUME NEW C, NEW S, NEW G, NEW L, Keeping(C, S, G, L), NEW held, ListedIn(held, C),
         NEW f \in Flows, NEW k \in 1 .. S[f]
  PROVE  Copies(held, f, k) = IF k \in G[f] \/ InLost(L, f, k) THEN 0 ELSE 1
  <1>2. S[f] \in Nat /\ k \in Nat /\ k >= 1 /\ k <= S[f]
    BY DEF Keeping
  <1>3. Placed(C, S, G, L, f, k)
    BY <1>2 DEF Keeping
  <1>4. \A n \in Node : held[n] \in Seq(Slot) /\ Weights(C, f, k)[n] = Times(held[n], f, k)
    BY DEF ListedIn, Weights
  <1>5. DOMAIN held = Node
    BY DEF ListedIn
  <1>6. PICK w : w = Weights(C, f, k)
    OBVIOUS
  <1>7. /\ AllZero(w) => Copies(held, f, k) = 0
        /\ OneOnly(w) => Copies(held, f, k) = 1
    BY <1>4, <1>5, <1>6, CopiesIs
  <1> QED
    BY <1>2, <1>3, <1>6, <1>7 DEF Placed, Underway

-----------------------------------------------------------------------------
\* The invariant of the routers whose corner buffer is a queue, and how their
\* operations keep it.
Conserving == Keeping(ctx, sent, got, lost)

\* Nothing changes when fatal() ends the simulation.
LEMMA ConservingOnStop ==
  ASSUME Conserving, ctx' = ctx, sent' = sent, got' = got, lost' = lost
  PROVE  Conserving'
  BY DEF Conserving

\* A cycle of all nodes.
LEMMA ConservingOnRoute ==
  ASSUME Conserving, NEW c, NEW D, OneRound(ctx, c, D),
         ctx' = [n \in Node |-> D[n]], sent' = sent, got' = got,
         lost' = lost \cup UNION {c[n].dropped : n \in Node}
  PROVE  Conserving'
  <1> DEFINE E == [n \in Node |-> D[n]]
  <1>1. E = [n \in Node |-> E[n]] /\ \A n \in Node : E[n] = D[n]
    OBVIOUS
  <1>2. ctx' = E /\ lost' = lost \cup DroppedIn(c)
    BY DEF DroppedIn
  <1> HIDE DEF E
  <1>3. OneRound(ctx, c, E)
    BY <1>1 DEF OneRound
  <1>4. Keeping(E, sent, got, lost \cup DroppedIn(c))
    BY <1>1, <1>3, KeepingOnRoute DEF Conserving
  <1> QED
    BY <1>2, <1>4 DEF Conserving

\* *_send_flit.
LEMMA ConservingOnSend ==
  ASSUME FlowAssumption, Conserving, NEW f \in Flows, SendFlit(f)
  PROVE  Conserving'
  <1>1. PICK C : C = ctx
    OBVIOUS
  <1>2. Keeping(C, sent, got, lost) /\ C = [n \in Node |-> C[n]] /\ f[1] \in Node
    BY <1>1, FlowIs DEF Conserving, Keeping
  <1>3. PICK m \in Marks : ctx' = [C EXCEPT ![f[1]] = Queued(C[f[1]], NextFlit(sent, f, m))]
    BY <1>1 DEF SendFlit, Queued, NextFlit
  <1>4. PICK s : s = Queued(C[f[1]], NextFlit(sent, f, m))
    OBVIOUS
  <1> DEFINE D == [C EXCEPT ![f[1]] = s]
  <1>5. D[f[1]] = s /\ D = [n \in Node |-> D[n]] /\ \A n \in Node \ {f[1]} : D[n] = C[n]
    BY <1>2
  <1>6. ctx' = D
    BY <1>3, <1>4
  <1> HIDE DEF D
  <1>7. SentOne(C, D, sent, sent', f)
    BY <1>4, <1>5 DEF SentOne, SendFlit
  <1>8. Keeping(D, sent', got, lost)
    BY <1>2, <1>7, KeepingOnSend
  <1> QED
    BY <1>6, <1>8 DEF Conserving, SendFlit

\* *_recv_flit.
LEMMA ConservingOnRecv ==
  ASSUME FlowAssumption, Conserving, NEW f \in Flows, RecvFlit(f)
  PROVE  Conserving'
  <1>1. PICK C : C = ctx
    OBVIOUS
  <1>2. Keeping(C, sent, got, lost) /\ C = [n \in Node |-> C[n]] /\ f[2] \in Node
    BY <1>1, FlowIs DEF Conserving, Keeping
  <1> DEFINE a == f[2]
             q == C[a].core
  <1>3. q \in Seq(Sent) /\ FirstFrom(q, f[1]) # 0
    BY <1>1, <1>2 DEF RecvFlit, Keeping, Between, Carrier
  <1>4. FirstFrom(q, f[1]) \in 1 .. Len(q) /\ q[FirstFrom(q, f[1])].src = f[1]
    <2> HIDE DEF q
    <2> QED
      BY <1>3, FirstFromIs
  <1>5. PICK i \in 1 .. Len(q) : i = FirstFrom(q, f[1])
    BY <1>4
  <1>6. PICK s : s = [C[a] EXCEPT !.core = RemoveAt(@, i)]
    OBVIOUS
  <1> DEFINE D == [C EXCEPT ![a] = s]
  <1>7. D[a] = s /\ D = [n \in Node |-> D[n]] /\ \A n \in Node \ {a} : D[n] = C[n]
    BY <1>2
  <1>8. ctx' = D /\ got' = [got EXCEPT ![f] = @ \cup {q[i].seq}] /\ sent' = sent /\ lost' = lost
    <2>1. /\ ctx' = [ctx EXCEPT ![a].core = RemoveAt(@, FirstFrom(@, f[1]))]
          /\ got' = [got EXCEPT ![f] = @ \cup {ctx[a].core[FirstFrom(ctx[a].core, f[1])].seq}]
          /\ sent' = sent /\ lost' = lost
      BY DEF RecvFlit, WithoutFirstFrom
    <2> QED
      BY <1>1, <1>2, <1>5, <1>6, <2>1
  <1> HIDE DEF D
  <1>9. GotOne(C, D, got, got', f)
    BY <1>4, <1>5, <1>6, <1>7, <1>8 DEF GotOne
  <1>10. Keeping(D, sent, got', lost)
    BY <1>2, <1>9, KeepingOnRecv
  <1> QED
    BY <1>8, <1>10 DEF Conserving

\* The state that the init functions leave.
LEMMA ConservingAtFirst ==
  ASSUME FlowAssumption, NEW C, ctx = [n \in Node |-> C[n]],
         \A n \in Node : /\ Parts \subseteq DOMAIN C[n]
                         /\ C[n].inWest = NoFlit /\ C[n].inSouth = NoFlit /\ C[n].inCore = NoFlit
                         /\ C[n].inj = <<>> /\ C[n].core = <<>> /\ C[n].corner = <<>>
                         /\ C[n].outEast = NoFlit /\ C[n].outNorth = NoFlit
                         /\ C[n].dropped = {} /\ C[n].fatal = FALSE,
         sent = [f \in Flows |-> 0], got = [f \in Flows |-> {}], lost = {}
  PROVE  Conserving
  <1>1. PICK D : D = ctx
    OBVIOUS
  <1>2. D = [n \in Node |-> D[n]] /\ \A n \in Node : D[n] = C[n]
    BY <1>1
  <1>3. Keeping(D, [f \in Flows |-> 0], [f \in Flows |-> {}], {})
    BY <1>2, KeepingAtFirst
  <1> QED
    BY <1>1, <1>3 DEF Conserving

\* The invariant contains the conservation of flits.
LEMMA ConservingMeans ==
  ASSUME Conserving
  PROVE  Conserved([n \in Node |-> Held(ctx[n])])
  <1> DEFINE held == [n \in Node |-> Held(ctx[n])]
  <1>1. PICK C : C = ctx
    OBVIOUS
  <1>2. Keeping(C, sent, got, lost)
    BY <1>1 DEF Conserving
  <1>3. ListedIn(held, C)
    <2>1. \A n \in Node : Between(n, C[n])
      BY <1>2 DEF Keeping
    <2>2. \A n \in Node : Held(C[n]) \in Seq(Slot) /\ \A f, k : Times(Held(C[n]), f, k) = Weight(C[n], f, k)
      BY <2>1, HeldIs
    <2>3. DOMAIN held = Node /\ \A n \in Node : held[n] = Held(C[n])
      BY <1>1
    <2> HIDE DEF held
    <2> QED
      BY <2>2, <2>3 DEF ListedIn
  <1> HIDE DEF held
  <1>4. \A f, k : IsLost(f, k) <=> InLost(lost, f, k)
    BY DEF IsLost, InLost
  <1>5. \A f \in Flows : \A k \in 1 .. sent[f] :
          Copies(held, f, k) = IF k \in got[f] \/ InLost(lost, f, k) THEN 0 ELSE 1
    BY <1>2, <1>3, KeepingMeans
  <1> QED
    BY <1>4, <1>5 DEF Conserved, held

-----------------------------------------------------------------------------
\* pnbe1.

\* The steps of pnbe1, without fairness.
Be1Next == Be1!RouteAll \/ \E f \in Flows : Be1!Send(f) \/ Be1!Recv(f)
Be1Spec == Be1!Init /\ [][Be1Next]_vars

\* Every step of pnbe1 keeps the invariant.
LEMMA Be1Conserving ==
  ASSUME FlowAssumption, Conserving, [Be1Next]_vars
  PROVE  Conserving'
  <1>1. CASE UNCHANGED vars
    BY <1>1, ConservingOnStop DEF vars
  <1>2. CASE Be1!RouteAll
    <2> DEFINE c == [n \in Node |-> Be1!Cycle(n)]
    <2>1. /\ \/ (\E n \in Node : c[n].fatal) /\ ctx' = ctx /\ lost' = lost
             \/ /\ \A n \in Node : ~c[n].fatal
                /\ ctx' = [n \in Node |-> Be1!Signaled(c, n)]
                /\ lost' = lost \cup UNION {c[n].dropped : n \in Node}
          /\ sent' = sent /\ got' = got
      BY <1>2 DEF Be1!RouteAll, Be1!RouteWith, Be1!Node, Node
    <2>2. \A n \in Node : CycleKeeps(n, ctx[n], c[n])
      BY Be1CycleKeeps DEF FlowAssumption, Conserving, Keeping
    <2>3. \A n \in Node : Be1!Signaled(c, n) = Signaled(c, n)
      BY DEF Be1!Signaled, Signaled, Be1!Handover, Handover, Be1!South, South, Be1!West, West,
             Be1!East, East, Be1!North, North, Be1!RankOf, RankOf, Be1!X, X, Be1!Y, Y
    <2> HIDE DEF c
    <2>4. CASE ctx' = ctx /\ lost' = lost
      BY <2>1, <2>4, ConservingOnStop
    <2>5. CASE /\ \A n \in Node : ~c[n].fatal
               /\ ctx' = [n \in Node |-> Be1!Signaled(c, n)]
               /\ lost' = lost \cup UNION {c[n].dropped : n \in Node}
      <3> DEFINE D == [n \in Node |-> Signaled(c, n)]
      <3>1. OneRound(ctx, c, D)
        BY <2>2, <2>5, HandedOverIs DEF OneRound, CycleKeeps
      <3>2. ctx' = [n \in Node |-> D[n]]
        BY <2>3, <2>5
      <3> HIDE DEF D
      <3> QED
        BY <2>1, <2>5, <3>1, <3>2, ConservingOnRoute
    <2> QED
      BY <2>1, <2>4, <2>5
  <1>3. ASSUME NEW f \in Flows, Be1!Send(f) PROVE Conserving'
    <2>1. SendFlit(f)
      BY <1>3, Be1Shares DEF Be1!Send, Be1!SendFlit, SendFlit
    <2> QED
      BY <2>1, ConservingOnSend
  <1>4. ASSUME NEW f \in Flows, Be1!Recv(f) PROVE Conserving'
    <2>1. \A q, r : Be1!FirstFrom(q, r) = FirstFrom(q, r)
      BY DEF Be1!FirstFrom, FirstFrom, Be1!SelectInSeq, SelectInSeq, Be1!Min, Min
    <2>2. \A q, r : Be1!WithoutFirstFrom(q, r) = WithoutFirstFrom(q, r)
      BY <2>1 DEF Be1!WithoutFirstFrom, WithoutFirstFrom, Be1!RemoveAt, RemoveAt
    <2>3. RecvFlit(f)
      BY <1>4, <2>1, <2>2 DEF Be1!Recv, Be1!RecvFlit, RecvFlit
    <2> QED
      BY <2>3, ConservingOnRecv
  <1> QED
    BY <1>1, <1>2, <1>3, <1>4 DEF Be1Next

\* pnbe1_init establishes it.
LEMMA Be1ConservingAtFirst ==
  ASSUME FlowAssumption, Be1!Init
  PROVE  Conserving
  <1> DEFINE C == [n \in Node |-> Be1!Context(n)]
  <1>1. /\ ctx = C /\ sent = [f \in Flows |-> 0] /\ got = [f \in Flows |-> {}] /\ lost = {}
    BY DEF Be1!Init, Be1!InitWith, Be1!Node, Node
  <1>2. \A n \in Node : /\ Parts \subseteq DOMAIN C[n]
                        /\ C[n].inWest = NoFlit /\ C[n].inSouth = NoFlit /\ C[n].inCore = NoFlit
                        /\ C[n].inj = <<>> /\ C[n].core = <<>> /\ C[n].corner = <<>>
                        /\ C[n].outEast = NoFlit /\ C[n].outNorth = NoFlit
                        /\ C[n].dropped = {} /\ C[n].fatal = FALSE
    BY DEF Be1!Context, Parts, Be1!EmptyBuffer
  <1>3. ctx = [n \in Node |-> C[n]]
    BY <1>1
  <1> HIDE DEF C
  <1> QED
    BY <1>1, <1>2, <1>3, ConservingAtFirst

\* In pnbe1, with corner and core buffers of any size, every flit that was sent is
\* in exactly one place of one router until it is received: none is lost or doubled
\* in the chain of stages or in the exchange of a cycle.
THEOREM Be1Conserves == FlowAssumption => (Be1Spec => []Be1!Conservation)
  <1> SUFFICES ASSUME FlowAssumption PROVE Be1Spec => []Be1!Conservation
    OBVIOUS
  <1>1. Be1!Init => Conserving
    BY Be1ConservingAtFirst
  <1>2. Conserving /\ [Be1Next]_vars => Conserving'
    BY Be1Conserving
  <1>3. Conserving => Be1!Conservation
    <2>1. ASSUME Conserving PROVE Be1!Conservation
      <3>1. Conserved([n \in Node |-> Held(ctx[n])])
        BY <2>1, ConservingMeans
      <3>2. [n \in Node |-> Held(ctx[n])] = [n \in Node |-> Be1!Holds(n)]
        BY DEF Held, Be1!Holds, Be1!Store
      <3>3. \A held, f, k : Be1!Copies(held, f, k) = Copies(held, f, k)
        BY DEF Be1!Copies, Copies, Be1!IsFlit, IsFlit, Be1!Cardinality, Cardinality
      <3>4. \A f, k : Be1!IsLost(f, k) <=> IsLost(f, k)
        BY DEF Be1!IsLost, IsLost, Be1!IsFlit, IsFlit
      <3>5. \A held : Be1!Conserved(held) <=> Conserved(held)
        BY <3>3, <3>4 DEF Be1!Conserved, Conserved
      <3> QED
        BY <3>1, <3>2, <3>5 DEF Be1!Conservation, Be1!Node, Node
    <2> QED
      BY <2>1
  <1> QED
    BY <1>1, <1>2, <1>3, PTL DEF Be1Spec

-----------------------------------------------------------------------------
\* pnbe2.

\* The router of pnbe2.c.
Be2 == INSTANCE Pnbe2

\* What pnbe2 shares with the other routers.
LEMMA Be2Shares ==
  ASSUME NEW n, NEW r, NEW fc, NEW b
  PROVE  /\ Be2!Updated(r) = Updated(r) /\ Be2!SouthInput(n, r) = SouthInput(n, r)
         /\ Be2!ToCore(r, fc) = ToCore(r, fc)
         /\ Be2!Remembered(n, r) = Remembered(n, r) /\ Be2!OwnFlit(n, r) = OwnFlit(n, r)
         /\ Be2!Timeouts(r) = Timeouts(r)
         /\ Be2!CornerToNorth(r) = CornerToNorth(r) /\ Be2!WestToCorner(n, r) = WestToCorner(n, r)
         /\ Be2!CoreToCorner(n, r) = CoreToCorner(n, r)
         /\ Be2!CoreToEast(r, b) = CoreToEast(r, b) /\ Be2!NoCoreInput(r) = NoCoreInput(r)
         /\ Be2!X(n) = X(n) /\ Be2!InColumn(n, fc) = InColumn(n, fc) /\ Be2!EmptyBuffer = EmptyBuffer
         /\ Be2!Oldest(r) = Oldest(r) /\ Be2!HasSlot(r, b) = HasSlot(r, b)
  <1>1. Be2!Updated(r) = Updated(r)
    BY DEF Be2!Updated, Updated, Be2!Oldest, Oldest, Be2!Dequeued, Dequeued, Be2!EmptyBuffer, EmptyBuffer
  <1>2. /\ Be2!SouthInput(n, r) = SouthInput(n, r) /\ Be2!ToCore(r, fc) = ToCore(r, fc)
    BY DEF Be2!SouthInput, SouthInput, Be2!ToCore, ToCore, Be2!HasSlot, HasSlot
  <1>3. /\ Be2!Remembered(n, r) = Remembered(n, r) /\ Be2!OwnFlit(n, r) = OwnFlit(n, r)
        /\ Be2!Timeouts(r) = Timeouts(r)
    BY DEF Be2!Remembered, Remembered, Be2!InColumn, InColumn, Be2!X, X, Be2!OwnFlit, OwnFlit,
           Be2!Timeouts, Timeouts, Be2!Counted, Counted, Be2!Dec, Dec
  <1>4. Be2!CornerToNorth(r) = CornerToNorth(r)
    BY DEF Be2!CornerToNorth, CornerToNorth, Be2!MustPassNorth, MustPassNorth, Be2!EmptyBuffer, EmptyBuffer
  <1>5. Be2!WestToCorner(n, r) = WestToCorner(n, r)
    BY DEF Be2!WestToCorner, WestToCorner, Be2!HasSlot, HasSlot, Be2!X, X
  <1>6. Be2!CoreToCorner(n, r) = CoreToCorner(n, r)
    BY DEF Be2!CoreToCorner, CoreToCorner, Be2!HasSlot, HasSlot, Be2!X, X
  <1>7. Be2!CoreToEast(r, b) = CoreToEast(r, b)
    BY DEF Be2!CoreToEast, CoreToEast, Be2!MustPassEast, MustPassEast
  <1>8. Be2!NoCoreInput(r) = NoCoreInput(r)
    BY DEF Be2!NoCoreInput, NoCoreInput
  <1>9. /\ Be2!X(n) = X(n) /\ Be2!InColumn(n, fc) = InColumn(n, fc) /\ Be2!EmptyBuffer = EmptyBuffer
        /\ Be2!Oldest(r) = Oldest(r) /\ Be2!HasSlot(r, b) = HasSlot(r, b)
    BY DEF Be2!InColumn, InColumn, Be2!X, X, Be2!EmptyBuffer, EmptyBuffer, Be2!Oldest, Oldest, Be2!HasSlot, HasSlot
  <1> QED
    BY <1>1, <1>2, <1>3, <1>4, <1>5, <1>6, <1>7, <1>8, <1>9

\* The west input of pnbe2, which the corner buffer follows.
LEMMA Be2WestInputKeeps ==
  ASSUME NoFlit \notin Sent, NEW n, NEW r, Carrier(n, r), r.outEast = NoFlit
  PROVE  Stage(n, r, Be2!WestInput(n, r), r.inWest)
  <1> DEFINE s == Be2!WestInput(n, r)
  <1>1. CASE r.inWest = NoFlit
    <2>1. s = r /\ Except(r, r, {})
      BY <1>1 DEF Be2!WestInput, Except, Carrier
    <2> QED
      BY <1>1, <2>1, FlagsOnly
  <1>2. CASE r.inWest # NoFlit /\ r.inWest.dest = n /\ r.receiveTimeout = 0 /\ ~r.outCore
    <2>1. s = ToCore(r, r.inWest) /\ r.inWest \in Sent
      BY <1>2, Be2Shares DEF Be2!WestInput, Be2!WestToCore, Carrier, Slot
    <2> QED
      BY <1>2, <2>1, ToCoreKeeps
  <1>3. CASE r.inWest # NoFlit /\ r.inWest.dest # n /\ Be2!InColumn(n, r.inWest)
    <2>1. s = WestToCorner(n, r) /\ r.inWest \in Sent
      BY <1>3, Be2Shares DEF Be2!WestInput, Carrier, Slot
    <2> QED
      BY <2>1, WestToCornerKeeps
  <1>4. CASE /\ r.inWest # NoFlit
             /\ \/ r.inWest.dest = n /\ (r.receiveTimeout # 0 \/ r.outCore)
                \/ r.inWest.dest # n /\ ~Be2!InColumn(n, r.inWest)
    <2>1. \/ s = [r EXCEPT !.outEast = r.inWest]
          \/ s = [r EXCEPT !.outEast = r.inWest, !.receiveTimeout = Width]
      BY <1>4 DEF Be2!WestInput, Be2!WestToCore
    <2> HIDE DEF s
    <2>2. Except(r, s, {"outEast"}) /\ s.outEast = r.inWest /\ r.inWest \in Slot
      BY <2>1 DEF Except, Parts, Carrier
    <2> QED
      BY <2>2, EastTaken DEF s
  <1> QED
    BY <1>1, <1>2, <1>3, <1>4

\* The core input of pnbe2.
LEMMA Be2CoreInputKeeps ==
  ASSUME NEW n, NEW r, Carrier(n, r)
  PROVE  Stage(n, r, Be2!CoreInput(n, r), NoFlit)
  <1> DEFINE s == Be2!CoreInput(n, r)
  <1>1. CASE r.inCore = NoFlit
    <2>1. s = NoCoreInput(r)
      BY <1>1, Be2Shares DEF Be2!CoreInput
    <2> QED
      BY <2>1, NoCoreInputKeeps
  <1>2. CASE r.inCore # NoFlit /\ Be2!InColumn(n, r.inCore)
    <2>1. s = CoreToCorner(n, r) /\ r.inCore \in Sent
      BY <1>2, Be2Shares DEF Be2!CoreInput, Carrier, Slot
    <2> QED
      BY <2>1, CoreToCornerKeeps
  <1>3. CASE r.inCore # NoFlit /\ ~Be2!InColumn(n, r.inCore)
    <2> DEFINE allowed == r.sendBlock = 0 /\ r.hTimers[Be2!X(r.inCore.dest)] = 0
    <2>1. s = Be2!CoreToEast(r, allowed)
      BY <1>3 DEF Be2!CoreInput
    <2>2. allowed \in BOOLEAN
      OBVIOUS
    <2> HIDE DEF allowed
    <2> QED
      BY <2>1, <2>2, Be2Shares, CoreToEastKeeps
  <1> QED
    BY <1>1, <1>2, <1>3

\* pnbe2_route_one_cycle neither loses nor doubles a flit.
LEMMA Be2CycleKeeps ==
  ASSUME NoFlit \notin Sent, NEW n, Between(n, ctx[n])
  PROVE  CycleKeeps(n, ctx[n], Be2!Cycle(n))
  <1> DEFINE r == ctx[n]
             u == Updated(r)
             south == SouthInput(n, u)
             corner == CornerToNorth(south)
             own == OwnFlit(n, corner)
             rem == Remembered(n, own)
             west == Be2!WestInput(n, rem)
             core == Be2!CoreInput(n, west)
             s == Be2!Cycle(n)
  <1>1. s = Timeouts(core)
    BY Be2Shares DEF Be2!Cycle
  <1>2. /\ Carrier(n, r) /\ r.outEast = NoFlit /\ r.outNorth = NoFlit /\ r.dropped = {} /\ ~r.fatal
    BY DEF Between
  <1> HIDE DEF r
  <1>3. /\ Carrier(n, u) /\ u.inWest = r.inWest /\ u.inSouth = r.inSouth
        /\ u.outEast = NoFlit /\ u.outNorth = NoFlit
        /\ \A f, k : Load(u, f, k) = Load(r, f, k)
    BY <1>2, UpdatedKeeps
  <1> HIDE DEF u
  <1>4. Stage(n, u, south, u.inSouth) /\ south.inWest = u.inWest /\ south.outEast = u.outEast
    BY <1>3, SouthInputKeeps
  <1> HIDE DEF south
  <1>5. Stage(n, south, corner, NoFlit) /\ corner.inWest = south.inWest /\ corner.outEast = south.outEast
    BY <1>4, CornerToNorthKeeps DEF Stage
  <1> HIDE DEF corner
  <1>6. Stage(n, corner, own, NoFlit) /\ own.inWest = corner.inWest /\ own.outEast = corner.outEast
    <2>1. Carrier(n, corner)
      BY <1>5 DEF Stage
    <2>2. Except(corner, own, {})
      BY <2>1, TimersOnly
    <2> HIDE DEF own
    <2> QED
      BY <2>1, <2>2, FlagsOnly
  <1> HIDE DEF own
  <1>7. Stage(n, own, rem, NoFlit) /\ rem.inWest = own.inWest /\ rem.outEast = own.outEast
    <2>1. Carrier(n, own)
      BY <1>6 DEF Stage
    <2>2. Except(own, rem, {})
      BY <2>1, TimersOnly
    <2> HIDE DEF rem
    <2> QED
      BY <2>1, <2>2, FlagsOnly
  <1> HIDE DEF rem
  <1>8. Stage(n, rem, west, rem.inWest)
    BY <1>3, <1>4, <1>5, <1>6, <1>7, Be2WestInputKeeps DEF Stage
  <1> HIDE DEF west
  <1>9. Stage(n, west, core, NoFlit)
    BY <1>8, Be2CoreInputKeeps DEF Stage
  <1> HIDE DEF core, s
  <1>10. Stage(n, core, s, NoFlit)
    <2>1. Carrier(n, core)
      BY <1>9 DEF Stage
    <2>2. Except(core, s, {})
      BY <1>1, <2>1, TimersOnly
    <2> QED
      BY <2>1, <2>2, FlagsOnly
  <1>11. ASSUME ~s.fatal, NEW f, NEW k
         PROVE  Load(s, f, k) = Load(r, f, k) + One(r.inSouth, f, k) + One(r.inWest, f, k)
    <2>1. ~core.fatal /\ ~west.fatal /\ ~rem.fatal /\ ~own.fatal /\ ~corner.fatal /\ ~south.fatal
      BY <1>5, <1>6, <1>7, <1>8, <1>9, <1>10, <1>11 DEF Stage
    <2>2. /\ Load(south, f, k) = Load(u, f, k) + One(u.inSouth, f, k)
          /\ Load(corner, f, k) = Load(south, f, k) + One(NoFlit, f, k)
          /\ Load(own, f, k) = Load(corner, f, k) + One(NoFlit, f, k)
          /\ Load(rem, f, k) = Load(own, f, k) + One(NoFlit, f, k)
          /\ Load(west, f, k) = Load(rem, f, k) + One(rem.inWest, f, k)
          /\ Load(core, f, k) = Load(west, f, k) + One(NoFlit, f, k)
          /\ Load(s, f, k) = Load(core, f, k) + One(NoFlit, f, k)
      BY <1>4, <1>5, <1>6, <1>7, <1>8, <1>9, <1>10, <1>11, <2>1 DEF Stage
    <2>3. /\ One(NoFlit, f, k) = 0 /\ One(u.inSouth, f, k) \in Nat /\ One(rem.inWest, f, k) \in Nat
          /\ Load(u, f, k) \in Nat
      BY <1>3, OneIs, LoadTyped
    <2>4. rem.inWest = r.inWest /\ u.inSouth = r.inSouth /\ Load(u, f, k) = Load(r, f, k)
      BY <1>3, <1>4, <1>5, <1>6, <1>7
    <2> QED
      BY <2>2, <2>3, <2>4
  <1>12. CycleKeeps(n, r, s)
    BY <1>10, <1>11 DEF CycleKeeps, Stage, Weight
  <1> QED
    BY <1>12 DEF s, r

\* The steps of pnbe2, without fairness.
Be2Next == Be2!RouteAll \/ \E f \in Flows : Be2!Send(f) \/ Be2!Recv(f)
Be2Spec == Be2!Init /\ [][Be2Next]_vars

\* Every step of pnbe2 keeps the invariant.
LEMMA Be2Conserving ==
  ASSUME FlowAssumption, Conserving, [Be2Next]_vars
  PROVE  Conserving'
  <1>1. CASE UNCHANGED vars
    BY <1>1, ConservingOnStop DEF vars
  <1>2. CASE Be2!RouteAll
    <2> DEFINE c == [n \in Node |-> Be2!Cycle(n)]
    <2>1. /\ \/ (\E n \in Node : c[n].fatal) /\ ctx' = ctx /\ lost' = lost
             \/ /\ \A n \in Node : ~c[n].fatal
                /\ ctx' = [n \in Node |-> Be2!Signaled(c, n)]
                /\ lost' = lost \cup UNION {c[n].dropped : n \in Node}
          /\ sent' = sent /\ got' = got
      BY <1>2 DEF Be2!RouteAll, Be2!RouteWith, Be2!Node, Node
    <2>2. \A n \in Node : CycleKeeps(n, ctx[n], c[n])
      BY Be2CycleKeeps DEF FlowAssumption, Conserving, Keeping
    <2>3. \A n \in Node : Be2!Signaled(c, n) = Signaled(c, n)
      BY DEF Be2!Signaled, Signaled, Be2!Handover, Handover, Be2!South, South, Be2!West, West,
             Be2!East, East, Be2!North, North, Be2!RankOf, RankOf, Be2!X, X, Be2!Y, Y
    <2> HIDE DEF c
    <2>4. CASE ctx' = ctx /\ lost' = lost
      BY <2>1, <2>4, ConservingOnStop
    <2>5. CASE /\ \A n \in Node : ~c[n].fatal
               /\ ctx' = [n \in Node |-> Be2!Signaled(c, n)]
               /\ lost' = lost \cup UNION {c[n].dropped : n \in Node}
      <3> DEFINE D == [n \in Node |-> Signaled(c, n)]
      <3>1. OneRound(ctx, c, D)
        BY <2>2, <2>5, HandedOverIs DEF OneRound, CycleKeeps
      <3>2. ctx' = [n \in Node |-> D[n]]
        BY <2>3, <2>5
      <3> HIDE DEF D
      <3> QED
        BY <2>1, <2>5, <3>1, <3>2, ConservingOnRoute
    <2> QED
      BY <2>1, <2>4, <2>5
  <1>3. ASSUME NEW f \in Flows, Be2!Send(f) PROVE Conserving'
    <2>1. SendFlit(f)
      BY <1>3, Be2Shares DEF Be2!Send, Be2!SendFlit, SendFlit
    <2> QED
      BY <2>1, ConservingOnSend
  <1>4. ASSUME NEW f \in Flows, Be2!Recv(f) PROVE Conserving'
    <2>1. \A q, r : Be2!FirstFrom(q, r) = FirstFrom(q, r)
      BY DEF Be2!FirstFrom, FirstFrom, Be2!SelectInSeq, SelectInSeq, Be2!Min, Min
    <2>2. \A q, r : Be2!WithoutFirstFrom(q, r) = WithoutFirstFrom(q, r)
      BY <2>1 DEF Be2!WithoutFirstFrom, WithoutFirstFrom, Be2!RemoveAt, RemoveAt
    <2>3. RecvFlit(f)
      BY <1>4, <2>1, <2>2 DEF Be2!Recv, Be2!RecvFlit, RecvFlit
    <2> QED
      BY <2>3, ConservingOnRecv
  <1> QED
    BY <1>1, <1>2, <1>3, <1>4 DEF Be2Next

\* pnbe2_init establishes it.
LEMMA Be2ConservingAtFirst ==
  ASSUME FlowAssumption, Be2!Init
  PROVE  Conserving
  <1> DEFINE C == [n \in Node |-> Be2!Context(n)]
  <1>1. /\ ctx = C /\ sent = [f \in Flows |-> 0] /\ got = [f \in Flows |-> {}] /\ lost = {}
    BY DEF Be2!Init, Be2!InitWith, Be2!Node, Node
  <1>2. \A n \in Node : /\ Parts \subseteq DOMAIN C[n]
                        /\ C[n].inWest = NoFlit /\ C[n].inSouth = NoFlit /\ C[n].inCore = NoFlit
                        /\ C[n].inj = <<>> /\ C[n].core = <<>> /\ C[n].corner = <<>>
                        /\ C[n].outEast = NoFlit /\ C[n].outNorth = NoFlit
                        /\ C[n].dropped = {} /\ C[n].fatal = FALSE
    BY DEF Be2!Context, Parts, Be2!EmptyBuffer
  <1>3. ctx = [n \in Node |-> C[n]]
    BY <1>1
  <1> HIDE DEF C
  <1> QED
    BY <1>1, <1>2, <1>3, ConservingAtFirst

\* In pnbe2 every flit that was sent is in exactly one place of one router until it
\* is received.
THEOREM Be2Conserves == FlowAssumption => (Be2Spec => []Be2!Conservation)
  <1> SUFFICES ASSUME FlowAssumption PROVE Be2Spec => []Be2!Conservation
    OBVIOUS
  <1>1. Be2!Init => Conserving
    BY Be2ConservingAtFirst
  <1>2. Conserving /\ [Be2Next]_vars => Conserving'
    BY Be2Conserving
  <1>3. Conserving => Be2!Conservation
    <2>1. ASSUME Conserving PROVE Be2!Conservation
      <3>1. Conserved([n \in Node |-> Held(ctx[n])])
        BY <2>1, ConservingMeans
      <3>2. [n \in Node |-> Held(ctx[n])] = [n \in Node |-> Be2!Holds(n)]
        BY DEF Held, Be2!Holds, Be2!Store
      <3>3. \A held, f, k : Be2!Copies(held, f, k) = Copies(held, f, k)
        BY DEF Be2!Copies, Copies, Be2!IsFlit, IsFlit, Be2!Cardinality, Cardinality
      <3>4. \A f, k : Be2!IsLost(f, k) <=> IsLost(f, k)
        BY DEF Be2!IsLost, IsLost, Be2!IsFlit, IsFlit
      <3>5. \A held : Be2!Conserved(held) <=> Conserved(held)
        BY <3>3, <3>4 DEF Be2!Conserved, Conserved
      <3> QED
        BY <3>1, <3>2, <3>5 DEF Be2!Conservation, Be2!Node, Node
    <2> QED
      BY <2>1
  <1> QED
    BY <1>1, <1>2, <1>3, PTL DEF Be2Spec

-----------------------------------------------------------------------------
\* caerus.

\* The router of caerus.c.
Cae == INSTANCE Caerus

\* What caerus shares with the other routers.
LEMMA CaeShares ==
  ASSUME NEW n, NEW r, NEW fc, NEW b
  PROVE  /\ Cae!Updated(r) = Updated(r) /\ Cae!SouthInput(n, r) = SouthInput(n, r)
         /\ Cae!ToCore(r, fc) = ToCore(r, fc)
         /\ Cae!ToCoreOrLost(r, fc) = ToCoreOrLost(r, fc) /\ Cae!Counted(r) = Counted(r)
         /\ Cae!CornerToNorth(r) = CornerToNorth(r) /\ Cae!WestToCorner(n, r) = WestToCorner(n, r)
         /\ Cae!CoreToCorner(n, r) = CoreToCorner(n, r)
         /\ Cae!CoreToEast(r, b) = CoreToEast(r, b) /\ Cae!NoCoreInput(r) = NoCoreInput(r)
         /\ Cae!X(n) = X(n) /\ Cae!InColumn(n, fc) = InColumn(n, fc) /\ Cae!EmptyBuffer = EmptyBuffer
         /\ Cae!Oldest(r) = Oldest(r) /\ Cae!HasSlot(r, b) = HasSlot(r, b)
  <1>1. Cae!Updated(r) = Updated(r)
    BY DEF Cae!Updated, Updated, Cae!Oldest, Oldest, Cae!Dequeued, Dequeued, Cae!EmptyBuffer, EmptyBuffer
  <1>2. /\ Cae!SouthInput(n, r) = SouthInput(n, r) /\ Cae!ToCore(r, fc) = ToCore(r, fc)
    BY DEF Cae!SouthInput, SouthInput, Cae!ToCore, ToCore, Cae!HasSlot, HasSlot
  <1>3. Cae!ToCoreOrLost(r, fc) = ToCoreOrLost(r, fc) /\ Cae!Counted(r) = Counted(r)
    BY DEF Cae!ToCoreOrLost, ToCoreOrLost, Cae!HasSlot, HasSlot, Cae!Counted, Counted, Cae!Dec, Dec
  <1>4. Cae!CornerToNorth(r) = CornerToNorth(r)
    BY DEF Cae!CornerToNorth, CornerToNorth, Cae!MustPassNorth, MustPassNorth, Cae!EmptyBuffer, EmptyBuffer
  <1>5. Cae!WestToCorner(n, r) = WestToCorner(n, r)
    BY DEF Cae!WestToCorner, WestToCorner, Cae!HasSlot, HasSlot, Cae!X, X
  <1>6. Cae!CoreToCorner(n, r) = CoreToCorner(n, r)
    BY DEF Cae!CoreToCorner, CoreToCorner, Cae!HasSlot, HasSlot, Cae!X, X
  <1>7. Cae!CoreToEast(r, b) = CoreToEast(r, b)
    BY DEF Cae!CoreToEast, CoreToEast, Cae!MustPassEast, MustPassEast
  <1>8. Cae!NoCoreInput(r) = NoCoreInput(r)
    BY DEF Cae!NoCoreInput, NoCoreInput
  <1>9. /\ Cae!X(n) = X(n) /\ Cae!InColumn(n, fc) = InColumn(n, fc) /\ Cae!EmptyBuffer = EmptyBuffer
        /\ Cae!Oldest(r) = Oldest(r) /\ Cae!HasSlot(r, b) = HasSlot(r, b)
    BY DEF Cae!InColumn, InColumn, Cae!X, X, Cae!EmptyBuffer, EmptyBuffer, Cae!Oldest, Oldest, Cae!HasSlot, HasSlot
  <1> QED
    BY <1>1, <1>2, <1>3, <1>4, <1>5, <1>6, <1>7, <1>8, <1>9

\* "to core" of caerus and pnoa: taken, or lost with a message.
LEMMA ToCoreOrLostKeeps ==
  ASSUME NEW n, NEW r, NEW fc, Carrier(n, r), fc \in Sent, fc.dest = n, r.dropped = {}
  PROVE  LET s == ToCoreOrLost(r, fc)
         IN  Stage(n, r, s, fc) /\ s.inWest = r.inWest /\ s.outEast = r.outEast
  <1> DEFINE s == ToCoreOrLost(r, fc)
  <1>1. CASE HasSlot(r.core, CoreSize)
    <2>1. s = [r EXCEPT !.core = Append(@, fc), !.outCore = TRUE]
      BY <1>1 DEF ToCoreOrLost
    <2> HIDE DEF s
    <2>2. Except(r, s, {"core"}) /\ s.core = Append(r.core, fc)
      BY <2>1 DEF Except, Parts, Carrier
    <2> QED
      BY <2>2, CoreTaken DEF s
  <1>2. CASE ~HasSlot(r.core, CoreSize)
    <2>1. s = [r EXCEPT !.dropped = @ \cup {fc}, !.outCore = TRUE]
      BY <1>2 DEF ToCoreOrLost
    <2> HIDE DEF s
    <2>2. /\ s.inWest = r.inWest /\ s.inSouth = r.inSouth /\ s.inCore = r.inCore
          /\ s.inj = r.inj /\ s.core = r.core /\ s.corner = r.corner
          /\ s.outEast = r.outEast /\ s.outNorth = r.outNorth
          /\ s.dropped = {fc} /\ s.fatal = r.fatal /\ Parts \subseteq DOMAIN s
      BY <2>1 DEF Carrier, Parts
    <2>3. Carrier(n, s)
      BY <2>2 DEF Carrier
    <2>4. ASSUME NEW f, NEW k PROVE Load(s, f, k) = Load(r, f, k) + One(fc, f, k)
      <3>1. Gone(r, f, k) = 0 /\ Gone(s, f, k) = One(fc, f, k) /\ One(fc, f, k) \in Nat
        BY <2>2, OneIs DEF Gone, One
      <3>2. /\ One(r.inCore, f, k) \in Nat /\ Times(r.inj, f, k) \in Nat
            /\ Times(r.core, f, k) \in Nat /\ Times(r.corner, f, k) \in Nat
            /\ One(r.outEast, f, k) \in Nat /\ One(r.outNorth, f, k) \in Nat
        BY LoadTyped
      <3> QED
        BY <2>2, <3>1, <3>2 DEF Load
    <2> QED
      BY <2>2, <2>3, <2>4 DEF s, Stage
  <1> QED
    BY <1>1, <1>2

\* From the corner buffer to the core, where the flit may be lost, or north.
LEMMA CaeCornerOutKeeps ==
  ASSUME NEW n, NEW r, Carrier(n, r), r.dropped = {}
  PROVE  LET s == Cae!CornerOut(n, r)
         IN  /\ Stage(n, r, s, NoFlit) /\ s.inWest = r.inWest /\ s.outEast = r.outEast
  <1> DEFINE s == Cae!CornerOut(n, r)
  <1>0. r.corner # EmptyBuffer => Head(r.corner) \in Sent /\ Cae!Oldest(r.corner) = Head(r.corner)
    BY DEF Carrier, Cae!Oldest, EmptyBuffer, Cae!EmptyBuffer
  <1>1. CASE s = r
    <2>1. Except(r, r, {})
      BY DEF Except, Carrier
    <2> QED
      BY <1>1, <2>1, FlagsOnly
  <1>2. CASE /\ r.corner # EmptyBuffer /\ r.outNorth = NoFlit
             /\ s = [r EXCEPT !.outNorth = Head(r.corner), !.corner = Tail(@)]
    <2> HIDE DEF s
    <2>1. /\ Except(r, s, {"corner", "outNorth"}) /\ r.corner # <<>>
          /\ s.outNorth = Head(r.corner) /\ s.corner = Tail(r.corner) /\ r.outNorth = NoFlit
      BY <1>2 DEF Except, Parts, Carrier, EmptyBuffer
    <2>2. Stage(n, r, s, NoFlit) /\ s.inWest = r.inWest /\ s.outEast = r.outEast
      BY <2>1, CornerLeft
    <2> QED
      BY <2>2 DEF s
  <1>3. CASE /\ r.corner # EmptyBuffer /\ Cae!Oldest(r.corner).dest = n
             /\ s = ToCoreOrLost([r EXCEPT !.corner = Tail(@)], Head(r.corner))
    <2>1. PICK u : u = [r EXCEPT !.corner = Tail(@)]
      OBVIOUS
    <2>2. PICK fc : fc = Head(r.corner)
      OBVIOUS
    <2>3. s = ToCoreOrLost(u, fc) /\ fc \in Sent /\ fc.dest = n
      BY <1>0, <1>3, <2>1, <2>2
    <2> HIDE DEF s
    <2>4. /\ Except(r, u, {"corner"}) /\ u.corner = Tail(r.corner) /\ r.corner # <<>>
          /\ u.inSouth = r.inSouth
      BY <1>3, <2>1 DEF Except, Parts, Carrier, EmptyBuffer
    <2>5. Opened(n, r, u, Head(r.corner))
      BY <2>4, CornerOpened
    <2>6. /\ Carrier(n, u) /\ u.dropped = {} /\ u.inWest = r.inWest /\ u.outEast = r.outEast
          /\ \A f, k : Load(r, f, k) = Load(u, f, k) + One(fc, f, k)
      BY <2>2, <2>5 DEF Opened
    <2>7. Stage(n, u, s, fc) /\ s.inWest = u.inWest /\ s.outEast = u.outEast
      BY <2>3, <2>6, ToCoreOrLostKeeps
    <2>8. \A f, k : Load(r, f, k) + One(NoFlit, f, k) = Load(r, f, k)
      BY OneIs, LoadTyped
    <2>9. r.fatal => u.fatal
      BY <2>5 DEF Opened
    <2> QED
      BY <2>6, <2>7, <2>8, <2>9 DEF s, Stage
  <1> QED
    BY <1>1, <1>2, <1>3, CaeShares DEF Cae!CornerOut

\* The west input of caerus.
LEMMA CaeWestInputKeeps ==
  ASSUME NoFlit \notin Sent, NEW n, NEW r, Carrier(n, r), r.outEast = NoFlit
  PROVE  Stage(n, r, Cae!WestInput(n, r), r.inWest)
  <1> DEFINE s == Cae!WestInput(n, r)
  <1>1. CASE r.inWest = NoFlit
    <2>1. s = r /\ Except(r, r, {})
      BY <1>1 DEF Cae!WestInput, Except, Carrier
    <2> QED
      BY <1>1, <2>1, FlagsOnly
  <1>2. CASE r.inWest # NoFlit /\ s = [r EXCEPT !.outEast = r.inWest]
    <2> HIDE DEF s
    <2>1. Except(r, s, {"outEast"}) /\ s.outEast = r.inWest /\ r.inWest \in Slot
      BY <1>2 DEF Except, Parts, Carrier
    <2> QED
      BY <2>1, EastTaken DEF s
  <1>3. CASE r.inWest # NoFlit /\ s = [r EXCEPT !.corner = Append(@, r.inWest), !.outCorner = TRUE]
    <2> HIDE DEF s
    <2>1. Except(r, s, {"corner"}) /\ s.corner = Append(r.corner, r.inWest) /\ r.inWest \in Sent
      BY <1>3 DEF Except, Parts, Carrier, Slot
    <2> QED
      BY <2>1, CornerTaken DEF s
  <1>4. CASE /\ r.inWest # NoFlit
             /\ s = [r EXCEPT !.outEast = [r.inWest EXCEPT !.marked = TRUE], !.hTimers[Cae!X(n)] = Width]
    <2>1. PICK fc : fc = [r.inWest EXCEPT !.marked = TRUE]
      OBVIOUS
    <2>2. PICK w \in Sent : w = r.inWest
      BY <1>4 DEF Carrier, Slot
    <2>3. /\ fc \in Sent /\ \A f, k : One(fc, f, k) = One(w, f, k)
      <3>1. fc = [w EXCEPT !.marked = TRUE]
        BY <2>1, <2>2
      <3> QED
        BY <3>1, MarkedIs
    <2> HIDE DEF s
    <2>4. Except(r, s, {"outEast"}) /\ s.outEast = fc /\ fc \in Slot
      BY <1>4, <2>1, <2>3 DEF Except, Parts, Carrier, Slot
    <2>5. Stage(n, r, s, fc)
      BY <2>4, EastTaken
    <2> QED
      BY <2>2, <2>3, <2>5 DEF Stage, s
  <1> QED
    BY <1>1, <1>2, <1>3, <1>4 DEF Cae!WestInput

\* The core input of caerus.
LEMMA CaeCoreInputKeeps ==
  ASSUME NEW n, NEW r, Carrier(n, r)
  PROVE  Stage(n, r, Cae!CoreInput(n, r), NoFlit)
  <1> DEFINE s == Cae!CoreInput(n, r)
  <1>1. CASE r.inCore = NoFlit
    <2>1. s = NoCoreInput(r)
      BY <1>1, CaeShares DEF Cae!CoreInput
    <2> QED
      BY <2>1, NoCoreInputKeeps
  <1>2. CASE r.inCore # NoFlit /\ Cae!InColumn(n, r.inCore)
    <2>1. s = Cae!CoreTurn(n, r)
      BY <1>2 DEF Cae!CoreInput
    <2>2. CASE s = r
      <3>1. Except(r, r, {})
        BY DEF Except, Carrier
      <3> QED
        BY <2>2, <3>1, FlagsOnly
    <2>3. CASE s = [r EXCEPT !.signalWest = TRUE]
      <3> HIDE DEF s
      <3>1. Except(r, s, {})
        BY <2>3 DEF Except, Parts, Carrier
      <3> QED
        BY <3>1, FlagsOnly DEF s
    <2>4. CASE s = [r EXCEPT !.corner = Append(@, r.inCore), !.inCore = NoFlit]
      <3> HIDE DEF s
      <3>1. /\ Except(r, s, {"inCore", "corner"}) /\ r.inCore \in Sent
            /\ s.corner = Append(r.corner, r.inCore) /\ s.inCore = NoFlit
        BY <1>2, <2>4 DEF Except, Parts, Carrier, Slot
      <3> QED
        BY <3>1, CornerStored DEF s
    <2> QED
      BY <2>1, <2>2, <2>3, <2>4 DEF Cae!CoreTurn
  <1>3. CASE r.inCore # NoFlit /\ ~Cae!InColumn(n, r.inCore)
    <2> DEFINE allowed == r.hTimers[Cae!X(r.inCore.dest)] = 0
    <2>1. s = Cae!CoreToEast(r, allowed)
      BY <1>3 DEF Cae!CoreInput
    <2>2. allowed \in BOOLEAN
      OBVIOUS
    <2> HIDE DEF allowed
    <2> QED
      BY <2>1, <2>2, CaeShares, CoreToEastKeeps
  <1> QED
    BY <1>1, <1>2, <1>3

\* The counter of the corner buffer and the bit of a marked flit are no places.
LEMMA CaeFlags ==
  ASSUME NEW n, NEW r, Carrier(n, r)
  PROVE  Except(r, Cae!CornerCounted(r), {}) /\ Except(r, Cae!RememberedBit(n, r), {})
  <1>1. Except(r, Cae!CornerCounted(r), {})
    BY DEF Cae!CornerCounted, Except, Parts, Carrier
  <1>2. Except(r, Cae!RememberedBit(n, r), {})
    BY DEF Cae!RememberedBit, Except, Parts, Carrier
  <1> QED
    BY <1>1, <1>2

\* caerus_route_one_cycle doubles no flit and loses only what it reports as lost.
LEMMA CaeCycleKeeps ==
  ASSUME NoFlit \notin Sent, NEW n, Between(n, ctx[n])
  PROVE  CycleKeeps(n, ctx[n], Cae!Cycle(n))
  <1> DEFINE r == ctx[n]
             u == Updated(r)
             south == SouthInput(n, u)
             corner == Cae!CornerOut(n, south)
             own == Cae!CornerCounted(corner)
             rem == Cae!RememberedBit(n, own)
             west == Cae!WestInput(n, rem)
             core == Cae!CoreInput(n, west)
             s == Cae!Cycle(n)
  <1>1. s = [core EXCEPT !.hTimers = Counted(@)]
    BY CaeShares DEF Cae!Cycle
  <1>2. /\ Carrier(n, r) /\ r.outEast = NoFlit /\ r.outNorth = NoFlit /\ r.dropped = {} /\ ~r.fatal
    BY DEF Between
  <1> HIDE DEF r
  <1>3. /\ Carrier(n, u) /\ u.inWest = r.inWest /\ u.inSouth = r.inSouth
        /\ u.outEast = NoFlit /\ u.outNorth = NoFlit /\ u.dropped = {}
        /\ \A f, k : Load(u, f, k) = Load(r, f, k)
    BY <1>2, UpdatedKeeps
  <1> HIDE DEF u
  <1>4. Stage(n, u, south, u.inSouth) /\ south.inWest = u.inWest /\ south.outEast = u.outEast /\ south.dropped = {}
    BY <1>3, SouthInputKeeps
  <1> HIDE DEF south
  <1>5. Stage(n, south, corner, NoFlit) /\ corner.inWest = south.inWest /\ corner.outEast = south.outEast
    BY <1>4, CaeCornerOutKeeps DEF Stage
  <1> HIDE DEF corner
  <1>6. Stage(n, corner, own, NoFlit) /\ own.inWest = corner.inWest /\ own.outEast = corner.outEast
    <2>1. Carrier(n, corner)
      BY <1>5 DEF Stage
    <2>2. Except(corner, own, {})
      BY <2>1, CaeFlags
    <2> HIDE DEF own
    <2> QED
      BY <2>1, <2>2, FlagsOnly
  <1> HIDE DEF own
  <1>7. Stage(n, own, rem, NoFlit) /\ rem.inWest = own.inWest /\ rem.outEast = own.outEast
    <2>1. Carrier(n, own)
      BY <1>6 DEF Stage
    <2>2. Except(own, rem, {})
      BY <2>1, CaeFlags
    <2> HIDE DEF rem
    <2> QED
      BY <2>1, <2>2, FlagsOnly
  <1> HIDE DEF rem
  <1>8. Stage(n, rem, west, rem.inWest)
    BY <1>3, <1>4, <1>5, <1>6, <1>7, CaeWestInputKeeps DEF Stage
  <1> HIDE DEF west
  <1>9. Stage(n, west, core, NoFlit)
    BY <1>8, CaeCoreInputKeeps DEF Stage
  <1> HIDE DEF core, s
  <1>10. Stage(n, core, s, NoFlit)
    <2>1. Carrier(n, core)
      BY <1>9 DEF Stage
    <2>2. Except(core, s, {})
      BY <1>1, <2>1, TimersOnly
    <2> QED
      BY <2>1, <2>2, FlagsOnly
  <1>11. ASSUME ~s.fatal, NEW f, NEW k
         PROVE  Load(s, f, k) = Load(r, f, k) + One(r.inSouth, f, k) + One(r.inWest, f, k)
    <2>1. ~core.fatal /\ ~west.fatal /\ ~rem.fatal /\ ~own.fatal /\ ~corner.fatal /\ ~south.fatal
      BY <1>5, <1>6, <1>7, <1>8, <1>9, <1>10, <1>11 DEF Stage
    <2>2. /\ Load(south, f, k) = Load(u, f, k) + One(u.inSouth, f, k)
          /\ Load(corner, f, k) = Load(south, f, k) + One(NoFlit, f, k)
          /\ Load(own, f, k) = Load(corner, f, k) + One(NoFlit, f, k)
          /\ Load(rem, f, k) = Load(own, f, k) + One(NoFlit, f, k)
          /\ Load(west, f, k) = Load(rem, f, k) + One(rem.inWest, f, k)
          /\ Load(core, f, k) = Load(west, f, k) + One(NoFlit, f, k)
          /\ Load(s, f, k) = Load(core, f, k) + One(NoFlit, f, k)
      BY <1>4, <1>5, <1>6, <1>7, <1>8, <1>9, <1>10, <1>11, <2>1 DEF Stage
    <2>3. /\ One(NoFlit, f, k) = 0 /\ One(u.inSouth, f, k) \in Nat /\ One(rem.inWest, f, k) \in Nat
          /\ Load(u, f, k) \in Nat
      BY <1>3, OneIs, LoadTyped
    <2>4. rem.inWest = r.inWest /\ u.inSouth = r.inSouth /\ Load(u, f, k) = Load(r, f, k)
      BY <1>3, <1>4, <1>5, <1>6, <1>7
    <2> QED
      BY <2>2, <2>3, <2>4
  <1>12. CycleKeeps(n, r, s)
    BY <1>10, <1>11 DEF CycleKeeps, Stage, Weight
  <1> QED
    BY <1>12 DEF s, r

\* The exchange of caerus moves the flits as that of the other routers does.
LEMMA CaeExchangedIs ==
  ASSUME NEW c, NEW n \in Node, Carrier(n, c[n])
  PROVE  HandedOver(c, n, Cae!Exchanged(c, n))
  <1> DEFINE r == Handover(c, n)
             s == Cae!Exchanged(c, n)
  <1>1. HandedOver(c, n, r)
    BY HandedOverIs
  <1>2. s = [r EXCEPT !.isSignaledEast = c[Cae!East(n)].signalWest]
    BY DEF Cae!Exchanged, Cae!Handover, Handover, Cae!South, South, Cae!West, West,
           Cae!RankOf, RankOf, Cae!X, X, Cae!Y, Y
  <1> HIDE DEF r, s
  <1>3. HandedOver(c, n, s)
    BY <1>1, <1>2 DEF HandedOver, Parts
  <1> QED
    BY <1>3 DEF s

\* The steps of caerus, without fairness.
CaeNext == Cae!RouteAll \/ \E f \in Flows : Cae!Send(f) \/ Cae!Recv(f)
CaeSpec == Cae!Init /\ [][CaeNext]_vars

\* Every step of caerus keeps the invariant.
LEMMA CaeConserving ==
  ASSUME FlowAssumption, Conserving, [CaeNext]_vars
  PROVE  Conserving'
  <1>1. CASE UNCHANGED vars
    BY <1>1, ConservingOnStop DEF vars
  <1>2. CASE Cae!RouteAll
    <2> DEFINE c == [n \in Node |-> Cae!Cycle(n)]
    <2>1. /\ \/ (\E n \in Node : c[n].fatal) /\ ctx' = ctx /\ lost' = lost
             \/ /\ \A n \in Node : ~c[n].fatal
                /\ ctx' = [n \in Node |-> Cae!Exchanged(c, n)]
                /\ lost' = lost \cup UNION {c[n].dropped : n \in Node}
          /\ sent' = sent /\ got' = got
      BY <1>2 DEF Cae!RouteAll, Cae!RouteWith, Cae!Node, Node
    <2>2. \A n \in Node : CycleKeeps(n, ctx[n], c[n])
      BY CaeCycleKeeps DEF FlowAssumption, Conserving, Keeping
    <2>3. \A n \in Node : HandedOver(c, n, Cae!Exchanged(c, n))
      BY <2>2, CaeExchangedIs DEF CycleKeeps
    <2> HIDE DEF c
    <2>4. CASE ctx' = ctx /\ lost' = lost
      BY <2>1, <2>4, ConservingOnStop
    <2>5. CASE /\ \A n \in Node : ~c[n].fatal
               /\ ctx' = [n \in Node |-> Cae!Exchanged(c, n)]
               /\ lost' = lost \cup UNION {c[n].dropped : n \in Node}
      <3> DEFINE D == [n \in Node |-> Cae!Exchanged(c, n)]
      <3>1. OneRound(ctx, c, D)
        BY <2>2, <2>3, <2>5 DEF OneRound
      <3>2. ctx' = [n \in Node |-> D[n]]
        BY <2>5
      <3> HIDE DEF D
      <3> QED
        BY <2>1, <2>5, <3>1, <3>2, ConservingOnRoute
    <2> QED
      BY <2>1, <2>4, <2>5
  <1>3. ASSUME NEW f \in Flows, Cae!Send(f) PROVE Conserving'
    <2>1. SendFlit(f)
      BY <1>3, CaeShares DEF Cae!Send, Cae!SendFlit, SendFlit
    <2> QED
      BY <2>1, ConservingOnSend
  <1>4. ASSUME NEW f \in Flows, Cae!Recv(f) PROVE Conserving'
    <2>1. \A q, r : Cae!FirstFrom(q, r) = FirstFrom(q, r)
      BY DEF Cae!FirstFrom, FirstFrom, Cae!SelectInSeq, SelectInSeq, Cae!Min, Min
    <2>2. \A q, r : Cae!WithoutFirstFrom(q, r) = WithoutFirstFrom(q, r)
      BY <2>1 DEF Cae!WithoutFirstFrom, WithoutFirstFrom, Cae!RemoveAt, RemoveAt
    <2>3. RecvFlit(f)
      BY <1>4, <2>1, <2>2 DEF Cae!Recv, Cae!RecvFlit, RecvFlit
    <2> QED
      BY <2>3, ConservingOnRecv
  <1> QED
    BY <1>1, <1>2, <1>3, <1>4 DEF CaeNext

\* caerus_init establishes it.
LEMMA CaeConservingAtFirst ==
  ASSUME FlowAssumption, Cae!Init
  PROVE  Conserving
  <1> DEFINE C == [n \in Node |-> Cae!Context(n)]
  <1>1. /\ ctx = C /\ sent = [f \in Flows |-> 0] /\ got = [f \in Flows |-> {}] /\ lost = {}
    BY DEF Cae!Init, Cae!InitWith, Cae!Node, Node
  <1>2. \A n \in Node : /\ Parts \subseteq DOMAIN C[n]
                        /\ C[n].inWest = NoFlit /\ C[n].inSouth = NoFlit /\ C[n].inCore = NoFlit
                        /\ C[n].inj = <<>> /\ C[n].core = <<>> /\ C[n].corner = <<>>
                        /\ C[n].outEast = NoFlit /\ C[n].outNorth = NoFlit
                        /\ C[n].dropped = {} /\ C[n].fatal = FALSE
    BY DEF Cae!Context, Parts, Cae!EmptyBuffer
  <1>3. ctx = [n \in Node |-> C[n]]
    BY <1>1
  <1> HIDE DEF C
  <1> QED
    BY <1>1, <1>2, <1>3, ConservingAtFirst

\* In caerus, for every threshold, a flit that was sent is in exactly one place of one
\* router until it is received or reported as lost: it is never both, and never gone
\* without the message.
THEOREM CaeConserves == FlowAssumption => (CaeSpec => []Cae!Conservation)
  <1> SUFFICES ASSUME FlowAssumption PROVE CaeSpec => []Cae!Conservation
    OBVIOUS
  <1>1. Cae!Init => Conserving
    BY CaeConservingAtFirst
  <1>2. Conserving /\ [CaeNext]_vars => Conserving'
    BY CaeConserving
  <1>3. Conserving => Cae!Conservation
    <2>1. ASSUME Conserving PROVE Cae!Conservation
      <3>1. Conserved([n \in Node |-> Held(ctx[n])])
        BY <2>1, ConservingMeans
      <3>2. [n \in Node |-> Held(ctx[n])] = [n \in Node |-> Cae!Holds(n)]
        BY DEF Held, Cae!Holds, Cae!Store
      <3>3. \A held, f, k : Cae!Copies(held, f, k) = Copies(held, f, k)
        BY DEF Cae!Copies, Copies, Cae!IsFlit, IsFlit, Cae!Cardinality, Cardinality
      <3>4. \A f, k : Cae!IsLost(f, k) <=> IsLost(f, k)
        BY DEF Cae!IsLost, IsLost, Cae!IsFlit, IsFlit
      <3>5. \A held : Cae!Conserved(held) <=> Conserved(held)
        BY <3>3, <3>4 DEF Cae!Conserved, Conserved
      <3> QED
        BY <3>1, <3>2, <3>5 DEF Cae!Conservation, Cae!Node, Node
    <2> QED
      BY <2>1
  <1> QED
    BY <1>1, <1>2, <1>3, PTL DEF CaeSpec

-----------------------------------------------------------------------------
\* pnbe0.  A flit from the west, or one of the core, may be delayed within a cycle,
\* until the corner buffer has sent a flit.

\* The router of pnbe0.c.
Be0 == INSTANCE Pnbe0

\* What pnbe0 shares with the other routers.
LEMMA Be0Shares ==
  ASSUME NEW n, NEW r, NEW fc, NEW b
  PROVE  /\ Be0!Updated(r) = Updated(r) /\ Be0!SouthInput(n, r) = SouthInput(n, r)
         /\ Be0!ToCore(r, fc) = ToCore(r, fc)
         /\ Be0!Remembered(n, r) = Remembered(n, r) /\ Be0!OwnFlit(n, r) = OwnFlit(n, r)
         /\ Be0!Timeouts(r) = Timeouts(r)
         /\ Be0!NoCoreInput(r) = NoCoreInput(r) /\ (Be0!MustPassNorth(r) <=> MustPassNorth(r))
         /\ Be0!X(n) = X(n) /\ Be0!InColumn(n, fc) = InColumn(n, fc) /\ Be0!EmptyBuffer = EmptyBuffer
         /\ Be0!Oldest(r) = Oldest(r) /\ (Be0!HasSlot(r, b) <=> HasSlot(r, b))
  <1>1. Be0!Updated(r) = Updated(r)
    BY DEF Be0!Updated, Updated, Be0!Oldest, Oldest, Be0!Dequeued, Dequeued, Be0!EmptyBuffer, EmptyBuffer
  <1>2. /\ Be0!SouthInput(n, r) = SouthInput(n, r) /\ Be0!ToCore(r, fc) = ToCore(r, fc)
    BY DEF Be0!SouthInput, SouthInput, Be0!ToCore, ToCore, Be0!HasSlot, HasSlot
  <1>3. /\ Be0!Remembered(n, r) = Remembered(n, r) /\ Be0!OwnFlit(n, r) = OwnFlit(n, r)
        /\ Be0!Timeouts(r) = Timeouts(r)
    BY DEF Be0!Remembered, Remembered, Be0!InColumn, InColumn, Be0!X, X, Be0!OwnFlit, OwnFlit,
           Be0!Timeouts, Timeouts, Be0!Counted, Counted, Be0!Dec, Dec
  <1>4. Be0!MustPassNorth(r) <=> MustPassNorth(r)
    BY DEF Be0!MustPassNorth, MustPassNorth
  <1>8. Be0!NoCoreInput(r) = NoCoreInput(r)
    BY DEF Be0!NoCoreInput, NoCoreInput
  <1>9. /\ Be0!X(n) = X(n) /\ Be0!InColumn(n, fc) = InColumn(n, fc) /\ Be0!EmptyBuffer = EmptyBuffer
        /\ Be0!Oldest(r) = Oldest(r) /\ (Be0!HasSlot(r, b) <=> HasSlot(r, b))
    BY DEF Be0!InColumn, InColumn, Be0!X, X, Be0!EmptyBuffer, EmptyBuffer, Be0!Oldest, Oldest, Be0!HasSlot, HasSlot
  <1> QED
    BY <1>1, <1>2, <1>3, <1>4, <1>8, <1>9

\* The parts of a context that the delayed flits depend on.
Turns == {"justInjected", "delayedWest", "delayedCore", "outCorner", "sentNorth",
          "isSignaledNorth"}

\* Between two cycles no flit is delayed.
Fresh(r) ==
  /\ Turns \subseteq DOMAIN r /\ Len(r.corner) <= CornerSize
  /\ r.justInjected = 0 /\ ~r.delayedWest /\ ~r.delayedCore

\* A flit from the west is delayed only if the full corner buffer will send one.
Delaying(r) ==
  /\ Turns \subseteq DOMAIN r /\ Len(r.corner) <= CornerSize
  /\ r.justInjected \in Nat /\ r.justInjected <= Len(r.corner)
  /\ r.delayedWest => /\ Len(r.corner) = CornerSize /\ r.justInjected = 0
                      /\ r.outNorth = NoFlit /\ ~MustPassNorth(r)
                      /\ r.outCorner /\ r.inWest \in Sent
  /\ r.delayedCore => r.inCore \in Sent

\* The delayed flit from the west is in none of the other places.
Pending(r, f, k) == IF r.delayedWest THEN One(r.inWest, f, k) ELSE 0

\* A stage, where the delayed flit counts too.
DelayStage(n, r, s, fc) ==
  /\ Carrier(n, s) /\ Delaying(s) /\ (r.fatal => s.fatal) /\ s.inWest = r.inWest
  /\ ~s.fatal => \A f, k : Load(s, f, k) + Pending(s, f, k)
                            = Load(r, f, k) + Pending(r, f, k) + One(fc, f, k)

\* The contexts agree in what the delayed flits depend on.
SameTurns(r, s) ==
  Turns \subseteq DOMAIN s /\ (\A x \in Turns : s[x] = r[x]) /\ s.corner = r.corner

\* The parts by name.
LEMMA TurnsAre ==
  ASSUME NEW r, NEW s, SameTurns(r, s)
  PROVE  /\ s.justInjected = r.justInjected
         /\ (s.delayedWest <=> r.delayedWest) /\ (s.delayedCore <=> r.delayedCore)
         /\ (s.outCorner <=> r.outCorner) /\ (MustPassNorth(s) <=> MustPassNorth(r))
  BY DEF SameTurns, Turns, MustPassNorth

\* A stage that leaves these parts alone delays no flit.
LEMMA FreshStays ==
  ASSUME NEW r, NEW s, SameTurns(r, s), Fresh(r)
  PROVE  Fresh(s)
  BY TurnsAre DEF Fresh, SameTurns

\* Nothing delayed is a special case.
LEMMA FreshIsDelaying ==
  ASSUME NEW n, NEW r, Carrier(n, r), Fresh(r)
  PROVE  Delaying(r) /\ \A f, k : Pending(r, f, k) = 0
  BY DEF Fresh, Delaying, Pending, Carrier

\* Then a stage is one of the other routers' stages.
LEMMA NothingDelayed ==
  ASSUME NEW n, NEW r, NEW s, NEW fc, Carrier(n, r), Stage(n, r, s, fc), Delaying(r),
         SameTurns(r, s), s.inWest = r.inWest, s.outNorth = r.outNorth,
         r.delayedCore => s.inCore \in Sent
  PROVE  DelayStage(n, r, s, fc)
  <1>1. Delaying(s)
    BY TurnsAre DEF Delaying, SameTurns
  <1>2. s.inWest = r.inWest /\ (s.delayedWest <=> r.delayedWest)
    BY TurnsAre DEF SameTurns
  <1>3. \A f, k : Pending(s, f, k) = Pending(r, f, k) /\ Pending(r, f, k) \in Nat
    BY <1>2, OneIs DEF Pending
  <1>4. ASSUME ~s.fatal, NEW f, NEW k
        PROVE  Load(s, f, k) + Pending(s, f, k) = Load(r, f, k) + Pending(r, f, k) + One(fc, f, k)
    <2>1. Load(s, f, k) = Load(r, f, k) + One(fc, f, k) 
      BY <1>4 DEF Stage
    <2>2. One(fc, f, k) \in Nat /\ Load(r, f, k) \in Nat /\ Pending(s, f, k) = Pending(r, f, k) /\ Pending(r, f, k) \in Nat
      BY <1>3, OneIs, LoadTyped
    <2> QED
      BY <2>1, <2>2
  <1> QED
    BY <1>1, <1>2, <1>4 DEF DelayStage, Stage

\* These stages do not touch the parts that the delayed flits depend on.
LEMMA Be0Flags ==
  ASSUME NEW n, NEW r, Carrier(n, r), Turns \subseteq DOMAIN r
  PROVE  /\ Except(r, Be0!Blocked(n, r), {}) /\ SameTurns(r, Be0!Blocked(n, r))
         /\ SameTurns(r, Remembered(n, r)) /\ SameTurns(r, OwnFlit(n, r))
         /\ SameTurns(r, Updated(r)) /\ SameTurns(r, SouthInput(n, r))
  <1>1. Except(r, Be0!Blocked(n, r), {})
    BY DEF Be0!Blocked, Except, Parts, Carrier
  <1>2. SameTurns(r, Be0!Blocked(n, r))
    BY DEF Be0!Blocked, SameTurns, Turns
  <1>3. SameTurns(r, Remembered(n, r))
    BY DEF Remembered, SameTurns, Turns
  <1>4. SameTurns(r, OwnFlit(n, r))
    BY DEF OwnFlit, SameTurns, Turns
  <1>5. SameTurns(r, Updated(r))
    BY DEF Updated, SameTurns, Turns
  <1>6. SameTurns(r, SouthInput(n, r))
    BY DEF SouthInput, ToCore, SameTurns, Turns
  <1> QED
    BY <1>1, <1>2, <1>3, <1>4, <1>5, <1>6

\* The flit goes into the corner buffer at once.
LEMMA StoredAtOnce ==
  ASSUME NEW n, NEW r, NEW s, NEW fc, Carrier(n, r), Delaying(r), ~r.delayedWest, ~r.delayedCore,
         Stage(n, r, s, fc), s.inWest = r.inWest, NEW x, s.corner = Append(r.corner, x),
         HasSlot(r.corner, CornerSize), CornerSize \in Nat,
         Turns \subseteq DOMAIN s, s.justInjected = r.justInjected + 1,
         ~s.delayedWest, ~s.delayedCore
  PROVE  DelayStage(n, r, s, fc)
  <1>1. Len(r.corner) \in Nat /\ Len(s.corner) = Len(r.corner) + 1
    BY DEF Carrier
  <1>2. Delaying(s)
    BY <1>1 DEF Delaying, HasSlot
  <1>3. \A f, k : Pending(s, f, k) = 0 /\ Pending(r, f, k) = 0
    BY DEF Pending
  <1>4. ASSUME ~s.fatal, NEW f, NEW k
        PROVE  Load(s, f, k) + Pending(s, f, k) = Load(r, f, k) + Pending(r, f, k) + One(fc, f, k)
    <2>1. Load(s, f, k) = Load(r, f, k) + One(fc, f, k)
      BY <1>4 DEF Stage
    <2>2. One(fc, f, k) \in Nat /\ Load(r, f, k) \in Nat
      BY OneIs, LoadTyped
    <2> QED
      BY <1>3, <2>1, <2>2
  <1> QED
    BY <1>2, <1>4 DEF DelayStage, Stage

\* West to corner buffer in pnbe0: stored, sent on to the east, or delayed until the
\* full buffer has sent a flit.
LEMMA Be0WestTurnKeeps ==
  ASSUME NoFlit \notin Sent, CornerSize \in Nat, NEW n, NEW r, Carrier(n, r), Fresh(r),
         r.outEast = NoFlit, r.inWest \in Sent
  PROVE  LET s == Be0!WestTurn(n, r)
         IN  DelayStage(n, r, s, r.inWest) /\ ~s.delayedCore /\ s.dropped = r.dropped
  <1> DEFINE s == Be0!WestTurn(n, r)
  <1>9. Delaying(r) /\ \A f, k : Pending(r, f, k) = 0
    BY FreshIsDelaying
  <1>8. Len(r.corner) \in Nat
    BY DEF Carrier
  <1>0. ~r.delayedWest /\ ~r.delayedCore
        /\ Turns \subseteq DOMAIN r /\ r.justInjected = 0 /\ Len(r.corner) <= CornerSize
    BY DEF Fresh
  <1>1. CASE HasSlot(r.corner, CornerSize)
    <2>1. s = [Be0!IntoCorner(r, r.inWest) EXCEPT !.outCorner = TRUE]
      BY <1>1, Be0Shares DEF Be0!WestTurn
    <2> HIDE DEF s
    <2>2. Except(r, s, {"corner"}) /\ s.corner = Append(r.corner, r.inWest)
      BY <2>1 DEF Except, Parts, Carrier, Be0!IntoCorner
    <2>3. /\ Turns \subseteq DOMAIN s /\ s.justInjected = r.justInjected + 1
          /\ ~s.delayedWest /\ ~s.delayedCore
      BY <1>0, <2>1 DEF Turns, Be0!IntoCorner
    <2>4. Stage(n, r, s, r.inWest) /\ s.inWest = r.inWest /\ s.dropped = r.dropped
      BY <2>2, CornerTaken
    <2>5. DelayStage(n, r, s, r.inWest)
      BY <1>0, <1>9, <1>1, <2>2, <2>3, <2>4, StoredAtOnce
    <2> QED
      BY <2>3, <2>4, <2>5 DEF s
  <1>2. CASE ~HasSlot(r.corner, CornerSize) /\ r.outNorth = NoFlit /\ ~MustPassNorth(r)
    <2>1. s = [r EXCEPT !.delayedWest = TRUE, !.outCorner = TRUE]
      BY <1>2, Be0Shares DEF Be0!WestTurn, Be0!WillFree
    <2> HIDE DEF s
    <2>2. Except(r, s, {})
      BY <2>1 DEF Except, Parts, Carrier
    <2>3. /\ Carrier(n, s) /\ s.inWest = r.inWest /\ s.outNorth = r.outNorth
          /\ s.dropped = r.dropped /\ s.corner = r.corner /\ (r.fatal => s.fatal)
          /\ ~s.fatal => \A f, k : Load(s, f, k) = Load(r, f, k) + One(NoFlit, f, k)
      <3>1. /\ Stage(n, r, s, NoFlit) /\ s.inWest = r.inWest /\ s.outNorth = r.outNorth
            /\ s.dropped = r.dropped
        BY <2>2, FlagsOnly
      <3>2. s.corner = r.corner
        BY <2>2 DEF Except, Parts
      <3> QED
        BY <3>1, <3>2 DEF Stage
    <2>4. /\ Turns \subseteq DOMAIN s /\ s.justInjected = 0 /\ s.delayedWest /\ ~s.delayedCore
          /\ s.outCorner /\ s.sentNorth = r.sentNorth /\ s.isSignaledNorth = r.isSignaledNorth
      BY <1>0, <2>1 DEF Turns
    <2>5. Len(s.corner) = CornerSize
      BY <1>0, <1>8, <1>2, <2>3 DEF HasSlot
    <2>6. Delaying(s)
      BY <1>0, <1>8, <1>2, <2>3, <2>4, <2>5 DEF Delaying, MustPassNorth
    <2>7. ASSUME ~s.fatal, NEW f, NEW k
          PROVE  Load(s, f, k) + Pending(s, f, k)
                 = Load(r, f, k) + Pending(r, f, k) + One(r.inWest, f, k)
      <3>1. Load(s, f, k) = Load(r, f, k) + One(NoFlit, f, k)
        BY <2>3, <2>7
      <3>2. Pending(s, f, k) = One(r.inWest, f, k) /\ Pending(r, f, k) = 0
        BY <1>9, <2>3, <2>4 DEF Pending
      <3>3. One(NoFlit, f, k) = 0 /\ Load(r, f, k) \in Nat /\ One(r.inWest, f, k) \in Nat
        BY OneIs, LoadTyped
      <3> QED
        BY <3>1, <3>2, <3>3
    <2>8. DelayStage(n, r, s, r.inWest)
      BY <2>3, <2>6, <2>7 DEF DelayStage
    <2> QED
      BY <2>3, <2>4, <2>8 DEF s
  <1>3. CASE ~HasSlot(r.corner, CornerSize) /\ ~(r.outNorth = NoFlit /\ ~MustPassNorth(r))
    <2>1. s = [r EXCEPT !.outEast = [r.inWest EXCEPT !.marked = TRUE], !.hTimers[Be0!X(n)] = Width]
      BY <1>3, Be0Shares DEF Be0!WestTurn, Be0!WillFree
    <2>2. PICK fc : fc = [r.inWest EXCEPT !.marked = TRUE]
      OBVIOUS
    <2>3. PICK w \in Sent : w = r.inWest
      OBVIOUS
    <2>4. fc \in Sent /\ \A f, k : One(fc, f, k) = One(w, f, k)
      <3>1. fc = [w EXCEPT !.marked = TRUE]
        BY <2>2, <2>3
      <3> QED
        BY <3>1, MarkedIs
    <2> HIDE DEF s
    <2>5. Except(r, s, {"outEast"}) /\ s.outEast = fc /\ fc \in Slot
      BY <2>1, <2>2, <2>4 DEF Except, Parts, Carrier, Slot
    <2>6. SameTurns(r, s)
      BY <1>0, <2>1 DEF SameTurns, Turns
    <2>7. /\ Stage(n, r, s, fc) /\ s.inWest = r.inWest /\ s.outNorth = r.outNorth
          /\ s.dropped = r.dropped
      BY <2>5, EastTaken
    <2>8. ~s.delayedCore
      BY <1>0, <2>6, TurnsAre
    <2>9. Stage(n, r, s, r.inWest)
      BY <2>3, <2>4, <2>7 DEF Stage
    <2>10. DelayStage(n, r, s, r.inWest)
      BY <1>0, <1>9, <2>6, <2>7, <2>9, NothingDelayed
    <2> QED
      BY <2>7, <2>8, <2>10 DEF s
  <1> QED
    BY <1>1, <1>2, <1>3

\* The west input of pnbe0.
LEMMA Be0WestInputKeeps ==
  ASSUME NoFlit \notin Sent, CornerSize \in Nat, NEW n, NEW r, Carrier(n, r), Fresh(r),
         r.outEast = NoFlit
  PROVE  LET s == Be0!WestInput(n, r)
         IN  DelayStage(n, r, s, r.inWest) /\ ~s.delayedCore /\ s.dropped = r.dropped
  <1> DEFINE s == Be0!WestInput(n, r)
  <1>0. Delaying(r) /\ ~r.delayedCore /\ Turns \subseteq DOMAIN r
    BY FreshIsDelaying DEF Fresh
  <1>1. CASE r.inWest = NoFlit
    <2>1. s = r /\ Except(r, r, {}) /\ SameTurns(r, r)
      BY <1>0, <1>1 DEF Be0!WestInput, Except, Carrier, SameTurns
    <2>2. Stage(n, r, r, r.inWest)
      BY <1>1, <2>1, FlagsOnly
    <2>3. DelayStage(n, r, r, r.inWest)
      BY <1>0, <2>1, <2>2, NothingDelayed
    <2> QED
      BY <1>0, <2>1, <2>3
  <1>2. CASE r.inWest # NoFlit /\ r.inWest.dest = n /\ s = ToCore(r, r.inWest)
    <2>1. r.inWest \in Sent
      BY <1>2 DEF Carrier, Slot
    <2>2. SameTurns(r, s)
      BY <1>0, <1>2 DEF ToCore, SameTurns, Turns
    <2> HIDE DEF s
    <2>3. /\ Stage(n, r, s, r.inWest) /\ s.inWest = r.inWest /\ s.outNorth = r.outNorth
          /\ s.dropped = r.dropped
      BY <1>2, <2>1, ToCoreKeeps
    <2>4. ~s.delayedCore
      BY <1>0, <2>2, TurnsAre
    <2>5. DelayStage(n, r, s, r.inWest)
      BY <1>0, <2>2, <2>3, NothingDelayed
    <2> QED
      BY <2>3, <2>4, <2>5 DEF s
  <1>3. CASE r.inWest # NoFlit /\ s = Be0!WestTurn(n, r)
    <2>1. r.inWest \in Sent
      BY <1>3 DEF Carrier, Slot
    <2> QED
      BY <1>3, <2>1, Be0WestTurnKeeps
  <1>4. CASE \/ s = [r EXCEPT !.outEast = r.inWest, !.receiveTimeout = Width]
             \/ s = [r EXCEPT !.outEast = r.inWest, !.forwarded = r.hBlocked]
    <2>1. SameTurns(r, s)
      <3>1. CASE s = [r EXCEPT !.outEast = r.inWest, !.receiveTimeout = Width]
        BY <1>0, <3>1 DEF SameTurns, Turns
      <3>2. CASE s = [r EXCEPT !.outEast = r.inWest, !.forwarded = r.hBlocked]
        BY <1>0, <3>2 DEF SameTurns, Turns
      <3> QED
        BY <1>4, <3>1, <3>2
    <2> HIDE DEF s
    <2>2. Except(r, s, {"outEast"}) /\ s.outEast = r.inWest /\ r.inWest \in Slot
      BY <1>4 DEF Except, Parts, Carrier
    <2>3. /\ Stage(n, r, s, r.inWest) /\ s.inWest = r.inWest /\ s.outNorth = r.outNorth
          /\ s.dropped = r.dropped
      BY <2>2, EastTaken
    <2>4. ~s.delayedCore
      BY <1>0, <2>1, TurnsAre
    <2>5. DelayStage(n, r, s, r.inWest)
      BY <1>0, <2>1, <2>3, NothingDelayed
    <2> QED
      BY <2>3, <2>4, <2>5 DEF s
  <1>5. \/ s = r /\ r.inWest = NoFlit
        \/ r.inWest # NoFlit /\ r.inWest.dest = n /\ s = ToCore(r, r.inWest)
        \/ r.inWest # NoFlit /\ s = Be0!WestTurn(n, r)
        \/ s = [r EXCEPT !.outEast = r.inWest, !.receiveTimeout = Width]
        \/ s = [r EXCEPT !.outEast = r.inWest, !.forwarded = r.hBlocked]
    BY Be0Shares DEF Be0!WestInput
  <1> QED
    BY <1>1, <1>2, <1>3, <1>4, <1>5

\* The core's flit replaces one that has to take another round, which is lost.
LEMMA EastReplaced ==
  ASSUME NEW n, NEW r, NEW s, Carrier(n, r), r.dropped = {},
         Except(r, s, {"dropped", "outEast", "inCore"}),
         s.outEast = r.inCore, s.inCore = NoFlit, s.dropped = {r.outEast} \ {NoFlit}
  PROVE  Stage(n, r, s, NoFlit) /\ s.inWest = r.inWest /\ s.outNorth = r.outNorth
  <1>1. /\ s.inWest = r.inWest /\ s.inSouth = r.inSouth /\ s.inj = r.inj /\ s.core = r.core
        /\ s.corner = r.corner /\ s.outNorth = r.outNorth /\ s.fatal = r.fatal
        /\ Parts \subseteq DOMAIN s
    BY DEF Except, Parts
  <1>2. Carrier(n, s)
    BY <1>1 DEF Carrier, Slot
  <1>3. ASSUME NEW f, NEW k PROVE Load(s, f, k) = Load(r, f, k) + One(NoFlit, f, k)
    <2>1. One(NoFlit, f, k) = 0 /\ Gone(r, f, k) = 0 /\ Gone(s, f, k) = One(r.outEast, f, k)
      BY OneIs DEF Gone, One, IsFlit
    <2>2. /\ One(r.inCore, f, k) \in Nat /\ Times(r.inj, f, k) \in Nat
          /\ Times(r.core, f, k) \in Nat /\ Times(r.corner, f, k) \in Nat
          /\ One(r.outEast, f, k) \in Nat /\ One(r.outNorth, f, k) \in Nat
      BY LoadTyped
    <2> QED
      BY <1>1, <2>1, <2>2 DEF Load
  <1> QED
    BY <1>1, <1>2, <1>3 DEF Stage

\* Core to corner buffer in pnbe0: stored, delayed or refused.
LEMMA Be0CoreTurnKeeps ==
  ASSUME CornerSize \in Nat, NEW n, NEW r, Carrier(n, r), Delaying(r), ~r.delayedCore,
         r.inCore \in Sent
  PROVE  DelayStage(n, r, Be0!CoreTurn(r), NoFlit)
  <1> DEFINE s == Be0!CoreTurn(r)
  <1>0. Turns \subseteq DOMAIN r
    BY DEF Delaying
  <1>1. CASE r.hBlocked \/ r.outCorner
    <2>1. s = r /\ Except(r, r, {}) /\ SameTurns(r, r)
      BY <1>0, <1>1 DEF Be0!CoreTurn, Except, Carrier, SameTurns
    <2>2. Stage(n, r, r, NoFlit)
      BY <2>1, FlagsOnly
    <2> QED
      BY <2>1, <2>2, NothingDelayed
  <1>2. CASE ~r.hBlocked /\ ~r.outCorner /\ HasSlot(r.corner, CornerSize)
    <2>1. s = [Be0!IntoCorner(r, r.inCore) EXCEPT !.inCore = NoFlit]
      BY <1>2, Be0Shares DEF Be0!CoreTurn
    <2> HIDE DEF s
    <2>2. /\ Except(r, s, {"inCore", "corner"})
          /\ s.corner = Append(r.corner, r.inCore) /\ s.inCore = NoFlit
      BY <2>1 DEF Except, Parts, Carrier, Be0!IntoCorner
    <2>3. Stage(n, r, s, NoFlit)
      BY <2>2, CornerStored
    <2>4. s.inWest = r.inWest
      BY <2>2 DEF Except, Parts
    <2>5. ~r.delayedWest
      BY <1>2 DEF Delaying
    <2>6. /\ Turns \subseteq DOMAIN s /\ s.justInjected = r.justInjected + 1
          /\ ~s.delayedWest /\ ~s.delayedCore
      BY <1>0, <2>1, <2>5 DEF Turns, Be0!IntoCorner
    <2>7. DelayStage(n, r, s, NoFlit)
      BY <1>2, <2>2, <2>3, <2>4, <2>5, <2>6, StoredAtOnce
    <2> QED
      BY <2>7 DEF s
  <1>3. CASE s = [r EXCEPT !.delayedCore = TRUE] /\ ~r.delayedWest
    <2>0. s = [r EXCEPT !.delayedCore = TRUE]
      BY <1>3
    <2> HIDE DEF s
    <2>1. Except(r, s, {})
      BY <2>0 DEF Except, Parts, Carrier
    <2>2. Stage(n, r, s, NoFlit) /\ s.inWest = r.inWest /\ s.inCore = r.inCore /\ s.corner = r.corner
      BY <2>1, FlagsOnly
    <2>3. /\ Turns \subseteq DOMAIN s /\ s.justInjected = r.justInjected /\ ~s.delayedWest
      BY <1>0, <1>3, <2>0 DEF Turns
    <2>4. Delaying(s)
      BY <2>2, <2>3 DEF Delaying
    <2>5. \A f, k : Pending(s, f, k) = 0 /\ Pending(r, f, k) = 0
      BY <1>3, <2>3 DEF Pending
    <2>6. ASSUME ~s.fatal, NEW f, NEW k
          PROVE  Load(s, f, k) + Pending(s, f, k) = Load(r, f, k) + Pending(r, f, k) + One(NoFlit, f, k)
      <3>1. Load(s, f, k) = Load(r, f, k) + One(NoFlit, f, k)
        BY <2>2, <2>6 DEF Stage
      <3>2. One(NoFlit, f, k) \in Nat /\ Load(r, f, k) \in Nat
        BY OneIs, LoadTyped
      <3> QED
        BY <2>5, <3>1, <3>2
    <2>7. DelayStage(n, r, s, NoFlit)
      BY <2>2, <2>4, <2>6 DEF DelayStage, Stage
    <2> QED
      BY <2>7 DEF s
  <1>4. CASE s = [r EXCEPT !.signalWest = TRUE]
    <2>1. SameTurns(r, s)
      BY <1>0, <1>4 DEF SameTurns, Turns
    <2> HIDE DEF s
    <2>2. Except(r, s, {})
      BY <1>4 DEF Except, Parts, Carrier
    <2>3. Stage(n, r, s, NoFlit) /\ s.inWest = r.inWest /\ s.outNorth = r.outNorth
      BY <2>2, FlagsOnly
    <2>4. DelayStage(n, r, s, NoFlit)
      BY <2>1, <2>3, NothingDelayed
    <2> QED
      BY <2>4 DEF s
  <1>5. ~(r.hBlocked \/ r.outCorner) /\ ~HasSlot(r.corner, CornerSize)
        => \/ s = [r EXCEPT !.delayedCore = TRUE] /\ ~r.delayedWest
           \/ s = [r EXCEPT !.signalWest = TRUE]
    BY Be0Shares DEF Be0!CoreTurn
  <1> QED
    BY <1>1, <1>2, <1>3, <1>4, <1>5

\* Core to east in pnbe0.
LEMMA Be0CoreEastKeeps ==
  ASSUME NEW n, NEW r, Carrier(n, r), Delaying(r), ~r.delayedCore,
         r.inCore \in Sent, r.dropped = {}
  PROVE  DelayStage(n, r, Be0!CoreEast(n, r), NoFlit)
  <1> DEFINE s == Be0!CoreEast(n, r)
  <1>0. Turns \subseteq DOMAIN r
    BY DEF Delaying
  <1>1. CASE \/ s = [r EXCEPT !.sentEast = @ /\ r.outEast # NoFlit]
             \/ s = [r EXCEPT !.signalWest = TRUE]
             \/ s = [r EXCEPT !.sentEast = FALSE, !.signalWest = TRUE]
    <2>1. SameTurns(r, s)
      <3>1. CASE s = [r EXCEPT !.sentEast = @ /\ r.outEast # NoFlit]
        BY <1>0, <3>1 DEF SameTurns, Turns
      <3>2. CASE s = [r EXCEPT !.signalWest = TRUE]
        BY <1>0, <3>2 DEF SameTurns, Turns
      <3>3. CASE s = [r EXCEPT !.sentEast = FALSE, !.signalWest = TRUE]
        BY <1>0, <3>3 DEF SameTurns, Turns
      <3> QED
        BY <1>1, <3>1, <3>2, <3>3
    <2> HIDE DEF s
    <2>2. Except(r, s, {})
      <3>1. CASE s = [r EXCEPT !.sentEast = @ /\ r.outEast # NoFlit]
        BY <3>1 DEF Except, Parts, Carrier
      <3>2. CASE s = [r EXCEPT !.signalWest = TRUE]
        BY <3>2 DEF Except, Parts, Carrier
      <3>3. CASE s = [r EXCEPT !.sentEast = FALSE, !.signalWest = TRUE]
        BY <3>3 DEF Except, Parts, Carrier
      <3> QED
        BY <1>1, <3>1, <3>2, <3>3
    <2>3. Stage(n, r, s, NoFlit) /\ s.inWest = r.inWest /\ s.outNorth = r.outNorth
      BY <2>2, FlagsOnly
    <2>4. DelayStage(n, r, s, NoFlit)
      BY <2>1, <2>3, NothingDelayed
    <2> QED
      BY <2>4 DEF s
  <1>2. CASE s = [r EXCEPT !.dropped = {r.outEast} \ {NoFlit}, !.outEast = r.inCore,
                           !.inCore = NoFlit, !.sentEast = TRUE]
    <2>1. SameTurns(r, s)
      BY <1>0, <1>2 DEF SameTurns, Turns
    <2> HIDE DEF s
    <2>2. /\ Except(r, s, {"dropped", "outEast", "inCore"})
          /\ s.outEast = r.inCore /\ s.inCore = NoFlit /\ s.dropped = {r.outEast} \ {NoFlit}
      BY <1>2 DEF Except, Parts, Carrier
    <2>3. Stage(n, r, s, NoFlit) /\ s.inWest = r.inWest /\ s.outNorth = r.outNorth
      BY <2>2, EastReplaced
    <2>4. DelayStage(n, r, s, NoFlit)
      BY <2>1, <2>3, NothingDelayed
    <2> QED
      BY <2>4 DEF s
  <1> QED
    BY <1>1, <1>2 DEF Be0!CoreEast

\* The core input of pnbe0.
LEMMA Be0CoreInputKeeps ==
  ASSUME CornerSize \in Nat, NEW n, NEW r, Carrier(n, r), Delaying(r), ~r.delayedCore,
         r.dropped = {}
  PROVE  DelayStage(n, r, Be0!CoreInput(n, r), NoFlit)
  <1> DEFINE s == Be0!CoreInput(n, r)
  <1>1. CASE r.inCore = NoFlit
    <2>0. s = NoCoreInput(r)
      BY <1>1, Be0Shares DEF Be0!CoreInput
    <2> HIDE DEF s
    <2>1. SameTurns(r, s) /\ Except(r, s, {})
      <3>1. SameTurns(r, NoCoreInput(r))
        BY DEF NoCoreInput, Delaying, SameTurns, Turns
      <3>2. Except(r, NoCoreInput(r), {})
        BY DEF NoCoreInput, Except, Parts, Carrier
      <3> QED
        BY <2>0, <3>1, <3>2
    <2>2. Stage(n, r, s, NoFlit) /\ s.inWest = r.inWest /\ s.outNorth = r.outNorth
      BY <2>1, FlagsOnly
    <2>3. DelayStage(n, r, s, NoFlit)
      BY <2>1, <2>2, NothingDelayed
    <2> QED
      BY <2>3 DEF s
  <1>2. CASE r.inCore # NoFlit
    <2>1. r.inCore \in Sent
      BY <1>2 DEF Carrier, Slot
    <2>2. s = Be0!CoreTurn(r) \/ s = Be0!CoreEast(n, r)
      BY <1>2 DEF Be0!CoreInput
    <2> QED
      BY <2>1, <2>2, Be0CoreTurnKeeps, Be0CoreEastKeeps
  <1> QED
    BY <1>1, <1>2

\* The corner buffer may send, and takes the flit that was delayed.
Settled(n, r, s) ==
  /\ Carrier(n, s) /\ Turns \subseteq DOMAIN s /\ Len(s.corner) <= CornerSize
  /\ r.fatal => s.fatal
  /\ ~s.fatal => \A f, k : Load(s, f, k) = Load(r, f, k) + Pending(r, f, k)

\* The corner buffer of pnbe0 sends a flit, which makes room for the delayed one.
LEMMA Be0CornerSendKeeps ==
  ASSUME CornerSize \in Nat \ {0}, NEW n, NEW r, Carrier(n, r), Delaying(r),
         r.corner # <<>>, r.outNorth = NoFlit
  PROVE  Settled(n, r, Be0!CornerSend(r))
  <1> DEFINE s == Be0!CornerSend(r)
  <1>0. /\ Turns \subseteq DOMAIN r /\ Len(r.corner) <= CornerSize
        /\ (r.delayedWest => r.inWest \in Sent) /\ (r.delayedCore => r.inCore \in Sent)
    BY DEF Delaying
  <1>1. PICK u : u = [r EXCEPT !.outNorth = Head(r.corner), !.corner = Tail(@), !.sentNorth = TRUE]
    OBVIOUS
  <1>2. /\ Except(r, u, {"corner", "outNorth"})
        /\ u.outNorth = Head(r.corner) /\ u.corner = Tail(r.corner) /\ u.inCore = r.inCore
    BY <1>1 DEF Except, Parts, Carrier
  <1>3. Stage(n, r, u, NoFlit) /\ u.inWest = r.inWest
    BY <1>2, CornerLeft
  <1>4. Len(u.corner) \in Nat /\ Len(u.corner) < CornerSize
    BY <1>0, <1>2 DEF Carrier
  <1>5. HasSlot(u.corner, CornerSize) /\ Turns \subseteq DOMAIN u /\ Carrier(n, u)
    <2>1. HasSlot(u.corner, CornerSize) /\ Carrier(n, u)
      BY <1>3, <1>4 DEF HasSlot, Stage
    <2>2. Turns \subseteq DOMAIN u
      BY <1>0, <1>1 DEF Turns
    <2> QED
      BY <2>1, <2>2
  <1>6. ASSUME ~u.fatal, NEW f, NEW k PROVE Load(u, f, k) = Load(r, f, k)
    <2>1. Load(u, f, k) = Load(r, f, k) + One(NoFlit, f, k)
      BY <1>3, <1>6 DEF Stage
    <2>2. One(NoFlit, f, k) = 0 /\ Load(r, f, k) \in Nat
      BY OneIs, LoadTyped
    <2> QED
      BY <2>1, <2>2
  <1>7. r.fatal => u.fatal
    BY <1>3 DEF Stage
  <1>8. CASE r.delayedWest
    <2>1. s = [u EXCEPT !.corner = Be0!Enqueued(@, CornerSize, r.inWest)]
      BY <1>1, <1>8 DEF Be0!CornerSend
    <2>2. Be0!Enqueued(u.corner, CornerSize, r.inWest) = Append(u.corner, r.inWest)
      BY <1>5, Be0Shares DEF Be0!Enqueued
    <2> HIDE DEF s
    <2>3. Except(u, s, {"corner"}) /\ s.corner = Append(u.corner, r.inWest) /\ Turns \subseteq DOMAIN s
      <3>1. s = [u EXCEPT !.corner = Append(u.corner, r.inWest)]
        BY <2>1, <2>2
      <3>2. Except(u, s, {"corner"}) /\ s.corner = Append(u.corner, r.inWest)
        BY <1>5, <3>1 DEF Except, Parts, Carrier
      <3>3. Turns \subseteq DOMAIN s
        BY <1>5, <3>1
      <3> QED
        BY <3>2, <3>3
    <2>4. Stage(n, u, s, r.inWest)
      BY <1>0, <1>5, <1>8, <2>3, CornerTaken
    <2>5. Len(s.corner) <= CornerSize
      BY <1>4, <1>5, <2>3 DEF Carrier
    <2>6. ASSUME ~s.fatal, NEW f, NEW k PROVE Load(s, f, k) = Load(r, f, k) + Pending(r, f, k)
      <3>1. ~u.fatal /\ Load(s, f, k) = Load(u, f, k) + One(r.inWest, f, k)
        BY <2>4, <2>6 DEF Stage
      <3>2. Pending(r, f, k) = One(r.inWest, f, k)
        BY <1>8 DEF Pending
      <3> QED
        BY <1>6, <3>1, <3>2
    <2>7. Settled(n, r, s)
      BY <1>7, <2>3, <2>4, <2>5, <2>6 DEF Settled, Stage
    <2> QED
      BY <2>7 DEF s
  <1>9. CASE ~r.delayedWest /\ r.delayedCore
    <2>1. s = [u EXCEPT !.corner = Be0!Enqueued(@, CornerSize, r.inCore), !.inCore = NoFlit]
      BY <1>1, <1>9 DEF Be0!CornerSend
    <2>2. Be0!Enqueued(u.corner, CornerSize, r.inCore) = Append(u.corner, r.inCore)
      BY <1>5, Be0Shares DEF Be0!Enqueued
    <2> HIDE DEF s
    <2>3. /\ Except(u, s, {"inCore", "corner"}) /\ s.corner = Append(u.corner, u.inCore)
          /\ s.inCore = NoFlit /\ Turns \subseteq DOMAIN s
      <3>1. s = [u EXCEPT !.corner = Append(u.corner, r.inCore), !.inCore = NoFlit]
        BY <2>1, <2>2
      <3>2. /\ Except(u, s, {"inCore", "corner"}) /\ s.corner = Append(u.corner, r.inCore)
            /\ s.inCore = NoFlit
        BY <1>5, <3>1 DEF Except, Parts, Carrier
      <3>3. Turns \subseteq DOMAIN s
        BY <1>5, <3>1
      <3> QED
        BY <1>2, <3>2, <3>3
    <2>4. Stage(n, u, s, NoFlit)
      BY <1>0, <1>2, <1>5, <1>9, <2>3, CornerStored
    <2>5. Len(s.corner) <= CornerSize
      BY <1>4, <1>5, <2>3 DEF Carrier
    <2>6. ASSUME ~s.fatal, NEW f, NEW k PROVE Load(s, f, k) = Load(r, f, k) + Pending(r, f, k)
      <3>1. ~u.fatal /\ Load(s, f, k) = Load(u, f, k) + One(NoFlit, f, k)
        BY <2>4, <2>6 DEF Stage
      <3>2. Pending(r, f, k) = 0 /\ One(NoFlit, f, k) = 0
        BY <1>9, OneIs DEF Pending
      <3> QED
        BY <1>6, <3>1, <3>2
    <2>7. Settled(n, r, s)
      BY <1>7, <2>3, <2>4, <2>5, <2>6 DEF Settled, Stage
    <2> QED
      BY <2>7 DEF s
  <1>10. CASE ~r.delayedWest /\ ~r.delayedCore
    <2>1. s = u
      BY <1>1, <1>10 DEF Be0!CornerSend
    <2>2. ASSUME ~u.fatal, NEW f, NEW k PROVE Load(u, f, k) = Load(r, f, k) + Pending(r, f, k)
      <3>1. Pending(r, f, k) = 0 /\ Load(r, f, k) \in Nat
        BY <1>10, LoadTyped DEF Pending
      <3> QED
        BY <1>6, <2>2, <3>1
    <2>3. Settled(n, r, u)
      BY <1>4, <1>5, <1>7, <2>2 DEF Settled
    <2> QED
      BY <2>1, <2>3
  <1> QED
    BY <1>8, <1>9, <1>10

\* The corner stage of pnbe0 settles every delayed flit.
LEMMA Be0CornerInputKeeps ==
  ASSUME CornerSize \in Nat \ {0}, NEW n, NEW r, Carrier(n, r), Delaying(r)
  PROVE  Settled(n, r, Be0!CornerInput(r))
  <1> DEFINE s == Be0!CornerInput(r)
  <1>0. Turns \subseteq DOMAIN r /\ Len(r.corner) <= CornerSize /\ Len(r.corner) \in Nat
    BY DEF Delaying, Carrier
  <1>1. CASE Len(r.corner) # r.justInjected /\ r.outNorth = NoFlit /\ ~Be0!MustPassNorth(r)
    <2>1. s = Be0!CornerSend(r)
      BY <1>1 DEF Be0!CornerInput
    <2>2. r.corner # <<>>
      BY <1>1 DEF Delaying
    <2> QED
      BY <1>1, <2>1, <2>2, Be0CornerSendKeeps
  <1>2. CASE ~(Len(r.corner) # r.justInjected /\ r.outNorth = NoFlit /\ ~Be0!MustPassNorth(r))
    <2>1. \/ s = [r EXCEPT !.signalSouth = TRUE] \/ s = [r EXCEPT !.signalSouth = r.isSignaledNorth]
          \/ s = [r EXCEPT !.sentNorth = FALSE]
      BY <1>2 DEF Be0!CornerInput
    <2>2. ~r.delayedWest
      BY <1>0, <1>2, Be0Shares DEF Delaying
    <2> HIDE DEF s
    <2>3. Except(r, s, {}) /\ Turns \subseteq DOMAIN s
      <3>1. CASE s = [r EXCEPT !.signalSouth = TRUE]
        BY <1>0, <3>1 DEF Except, Parts, Carrier
      <3>2. CASE s = [r EXCEPT !.signalSouth = r.isSignaledNorth]
        BY <1>0, <3>2 DEF Except, Parts, Carrier
      <3>3. CASE s = [r EXCEPT !.sentNorth = FALSE]
        BY <1>0, <3>3 DEF Except, Parts, Carrier
      <3> QED
        BY <2>1, <3>1, <3>2, <3>3
    <2>4. Stage(n, r, s, NoFlit) /\ s.corner = r.corner
      BY <2>3, FlagsOnly
    <2>5. ASSUME ~s.fatal, NEW f, NEW k PROVE Load(s, f, k) = Load(r, f, k) + Pending(r, f, k)
      <3>1. Load(s, f, k) = Load(r, f, k) + One(NoFlit, f, k)
        BY <2>4, <2>5 DEF Stage
      <3>2. Pending(r, f, k) = 0 /\ One(NoFlit, f, k) = 0
        BY <2>2, OneIs DEF Pending
      <3> QED
        BY <3>1, <3>2
    <2>6. Settled(n, r, s)
      BY <1>0, <2>3, <2>4, <2>5 DEF Settled, Stage
    <2> QED
      BY <2>6 DEF s
  <1> QED
    BY <1>1, <1>2

\* The end of a cycle clears the flags of the delayed flits.
LEMMA FreshAtTheEnd ==
  ASSUME NEW n, NEW r, Carrier(n, r), Turns \subseteq DOMAIN r, Len(r.corner) <= CornerSize
  PROVE  LET s == Be0!Cleared(Timeouts(r)) IN Except(r, s, {}) /\ Fresh(s)
  <1> DEFINE t == Timeouts(r)
             s == Be0!Cleared(t)
  <1>1. /\ t.corner = r.corner /\ DOMAIN t = DOMAIN r /\ \A x \in Parts : t[x] = r[x]
    BY DEF Timeouts, Parts, Carrier
  <1> HIDE DEF t
  <1>2. s = [t EXCEPT !.hBlocked = FALSE, !.forwarded = FALSE, !.justInjected = 0,
                      !.delayedWest = FALSE, !.delayedCore = FALSE]
    BY DEF Be0!Cleared
  <1> HIDE DEF s
  <1>3. DOMAIN s = DOMAIN r /\ \A x \in Parts : s[x] = r[x]
    BY <1>1, <1>2 DEF Parts, Carrier
  <1>4. s.corner = r.corner /\ s.justInjected = 0 /\ ~s.delayedWest /\ ~s.delayedCore
    BY <1>1, <1>2 DEF Turns
  <1>5. Except(r, s, {})
    BY <1>3 DEF Except, Carrier
  <1>6. Fresh(s)
    BY <1>3, <1>4 DEF Fresh
  <1> QED
    BY <1>5, <1>6 DEF s, t

\* pnbe0_route_one_cycle doubles no flit, also not a delayed one.
LEMMA Be0CycleKeeps ==
  ASSUME NoFlit \notin Sent, CornerSize \in Nat \ {0}, NEW n, Between(n, ctx[n]), Fresh(ctx[n])
  PROVE  CycleKeeps(n, ctx[n], Be0!Cycle(n)) /\ Fresh(Be0!Cycle(n))
  <1> DEFINE r == ctx[n]
             u == Updated(r)
             blocked == Be0!Blocked(n, u)
             rem == Remembered(n, blocked)
             own == OwnFlit(n, rem)
             south == SouthInput(n, own)
             west == Be0!WestInput(n, south)
             core == Be0!CoreInput(n, west)
             corner == Be0!CornerInput(core)
             s == Be0!Cycle(n)
  <1>1. s = Be0!Cleared(Timeouts(corner))
    BY Be0Shares DEF Be0!Cycle
  <1>2. /\ Carrier(n, r) /\ r.outEast = NoFlit /\ r.outNorth = NoFlit /\ r.dropped = {} /\ ~r.fatal
        /\ Fresh(r)
    BY DEF Between
  <1> HIDE DEF r
  <1>3. /\ Carrier(n, u) /\ u.inWest = r.inWest /\ u.inSouth = r.inSouth
        /\ u.outEast = NoFlit /\ u.outNorth = NoFlit /\ u.dropped = {} /\ Fresh(u)
        /\ \A f, k : Load(u, f, k) = Load(r, f, k)
    <2>1. Turns \subseteq DOMAIN r
      BY <1>2 DEF Fresh
    <2>2. Fresh(u)
      BY <1>2, <2>1, Be0Flags, FreshStays
    <2> QED
      BY <1>2, <2>2, UpdatedKeeps
  <1> HIDE DEF u
  <1>4. /\ Stage(n, u, blocked, NoFlit) /\ blocked.inWest = u.inWest /\ blocked.inSouth = u.inSouth
        /\ blocked.outEast = NoFlit /\ blocked.outNorth = NoFlit /\ blocked.dropped = {} /\ Fresh(blocked)
    <2>1. Turns \subseteq DOMAIN u
      BY <1>3 DEF Fresh
    <2>2. Except(u, blocked, {}) /\ SameTurns(u, blocked)
      BY <1>3, <2>1, Be0Flags
    <2> HIDE DEF blocked
    <2> QED
      BY <1>3, <2>2, FlagsOnly, FreshStays
  <1> HIDE DEF blocked
  <1>5. /\ Stage(n, blocked, rem, NoFlit) /\ rem.inWest = u.inWest /\ rem.inSouth = u.inSouth
        /\ rem.outEast = NoFlit /\ rem.outNorth = NoFlit /\ rem.dropped = {} /\ Fresh(rem)
    <2>1. Turns \subseteq DOMAIN blocked /\ Carrier(n, blocked)
      BY <1>4 DEF Fresh, Stage
    <2>2. Except(blocked, rem, {}) /\ SameTurns(blocked, rem)
      BY <2>1, Be0Flags, TimersOnly
    <2> HIDE DEF rem
    <2> QED
      BY <1>4, <2>1, <2>2, FlagsOnly, FreshStays
  <1> HIDE DEF rem
  <1>6. /\ Stage(n, rem, own, NoFlit) /\ own.inWest = u.inWest /\ own.inSouth = u.inSouth
        /\ own.outEast = NoFlit /\ own.outNorth = NoFlit /\ own.dropped = {} /\ Fresh(own)
    <2>1. Turns \subseteq DOMAIN rem /\ Carrier(n, rem)
      BY <1>5 DEF Fresh, Stage
    <2>2. Except(rem, own, {}) /\ SameTurns(rem, own)
      BY <2>1, Be0Flags, TimersOnly
    <2> HIDE DEF own
    <2> QED
      BY <1>5, <2>1, <2>2, FlagsOnly, FreshStays
  <1> HIDE DEF own
  <1>7. /\ Stage(n, own, south, u.inSouth) /\ south.inWest = u.inWest
        /\ south.outEast = NoFlit /\ south.dropped = {} /\ Fresh(south)
    <2>1. Turns \subseteq DOMAIN own /\ Carrier(n, own)
      BY <1>6 DEF Fresh, Stage
    <2>2. SameTurns(own, south)
      BY <2>1, Be0Flags
    <2> QED
      BY <1>6, <2>1, <2>2, SouthInputKeeps, FreshStays
  <1> HIDE DEF south
  <1>8. DelayStage(n, south, west, south.inWest) /\ ~west.delayedCore /\ west.dropped = {}
    <2>1. Carrier(n, south) /\ CornerSize \in Nat
      BY <1>7 DEF Stage
    <2> QED
      BY <1>7, <2>1, Be0WestInputKeeps
  <1> HIDE DEF west
  <1>9. DelayStage(n, west, core, NoFlit)
    <2>1. Carrier(n, west) /\ Delaying(west) /\ CornerSize \in Nat
      BY <1>8 DEF DelayStage
    <2> QED
      BY <1>8, <2>1, Be0CoreInputKeeps
  <1> HIDE DEF core
  <1>10. Settled(n, core, corner)
    <2>1. Carrier(n, core) /\ Delaying(core)
      BY <1>9 DEF DelayStage
    <2> QED
      BY <2>1, Be0CornerInputKeeps
  <1> HIDE DEF corner, s
  <1>11. Stage(n, corner, s, NoFlit) /\ Fresh(s)
    <2>1. Carrier(n, corner) /\ Turns \subseteq DOMAIN corner /\ Len(corner.corner) <= CornerSize
      BY <1>10 DEF Settled
    <2>2. Except(corner, s, {}) /\ Fresh(s)
      BY <1>1, <2>1, FreshAtTheEnd
    <2> QED
      BY <2>1, <2>2, FlagsOnly
  <1>12. ASSUME ~s.fatal, NEW f, NEW k
         PROVE  Load(s, f, k) = Load(r, f, k) + One(r.inSouth, f, k) + One(r.inWest, f, k)
    <2>1. ~corner.fatal /\ ~core.fatal /\ ~west.fatal /\ ~south.fatal /\ ~own.fatal /\ ~rem.fatal
          /\ ~blocked.fatal
      BY <1>4, <1>5, <1>6, <1>7, <1>8, <1>9, <1>10, <1>11, <1>12 DEF Stage, DelayStage, Settled
    <2>2. /\ Load(blocked, f, k) = Load(u, f, k) + One(NoFlit, f, k)
          /\ Load(rem, f, k) = Load(blocked, f, k) + One(NoFlit, f, k)
          /\ Load(own, f, k) = Load(rem, f, k) + One(NoFlit, f, k)
          /\ Load(south, f, k) = Load(own, f, k) + One(u.inSouth, f, k)
          /\ Load(s, f, k) = Load(corner, f, k) + One(NoFlit, f, k)
      BY <1>4, <1>5, <1>6, <1>7, <1>11, <1>12, <2>1 DEF Stage
    <2>3. /\ Load(west, f, k) + Pending(west, f, k)
             = Load(south, f, k) + Pending(south, f, k) + One(south.inWest, f, k)
          /\ Load(core, f, k) + Pending(core, f, k)
             = Load(west, f, k) + Pending(west, f, k) + One(NoFlit, f, k)
      BY <1>8, <1>9, <2>1 DEF DelayStage
    <2>4. Load(corner, f, k) = Load(core, f, k) + Pending(core, f, k)
      BY <1>10, <2>1 DEF Settled
    <2>5. /\ One(NoFlit, f, k) = 0 /\ One(u.inSouth, f, k) \in Nat /\ One(south.inWest, f, k) \in Nat
          /\ Load(u, f, k) \in Nat
      BY <1>3, OneIs, LoadTyped
    <2>6. Pending(south, f, k) = 0
      BY <1>7 DEF Pending, Fresh
    <2>7. Load(west, f, k) \in Nat /\ Load(core, f, k) \in Nat
      BY <1>8, <1>9, LoadTyped DEF DelayStage
    <2>8. Pending(west, f, k) \in Nat /\ Pending(core, f, k) \in Nat
      BY OneIs DEF Pending
    <2>9. south.inWest = r.inWest /\ u.inSouth = r.inSouth /\ Load(u, f, k) = Load(r, f, k)
      BY <1>3, <1>7
    <2>10. Load(south, f, k) = Load(u, f, k) + One(u.inSouth, f, k)
      BY <2>2, <2>5
    <2>11. Load(s, f, k) = Load(south, f, k) + One(south.inWest, f, k)
      <3>1. Load(south, f, k) \in Nat
        BY <2>5, <2>10
      <3>2. Load(s, f, k) = Load(corner, f, k)
        BY <2>2, <2>4, <2>5, <2>7, <2>8
      <3>3. Load(core, f, k) + Pending(core, f, k) = Load(west, f, k) + Pending(west, f, k)
        BY <2>3, <2>5, <2>7, <2>8
      <3>4. Load(west, f, k) + Pending(west, f, k) = Load(south, f, k) + One(south.inWest, f, k)
        BY <2>3, <2>5, <2>6, <3>1
      <3> QED
        BY <2>4, <3>2, <3>3, <3>4
    <2> QED
      BY <2>9, <2>10, <2>11
  <1>13. CycleKeeps(n, r, s)
    BY <1>11, <1>12 DEF CycleKeeps, Stage, Weight
  <1> QED
    BY <1>11, <1>13 DEF s, r

\* The exchange, the calls of the cores, and the begin.
LEMMA FreshElsewhere ==
  ASSUME NEW r, Fresh(r)
  PROVE  /\ Fresh(Updated(r))
         /\ \A q : Fresh([r EXCEPT !.inj = q]) /\ Fresh([r EXCEPT !.core = q])
  <1>1. Turns \subseteq DOMAIN r
    BY DEF Fresh
  <1>2. SameTurns(r, Updated(r))
    BY <1>1 DEF Updated, SameTurns, Turns
  <1>3. ASSUME NEW q PROVE SameTurns(r, [r EXCEPT !.inj = q]) /\ SameTurns(r, [r EXCEPT !.core = q])
    BY <1>1 DEF SameTurns, Turns
  <1> QED
    BY <1>2, <1>3, FreshStays

\* The exchange delays nothing.
LEMMA FreshHandedOver ==
  ASSUME NEW c, NEW n, Fresh(c[n])
  PROVE  Fresh(Signaled(c, n))
  <1> DEFINE r == Handover(c, n)
             s == Signaled(c, n)
  <1>1. /\ Turns \subseteq DOMAIN r /\ r.corner = c[n].corner
        /\ r.justInjected = 0 /\ ~r.delayedWest /\ ~r.delayedCore /\ Len(c[n].corner) <= CornerSize
    <2>1. PICK q : q = c[n]
      OBVIOUS
    <2>2. PICK a, b : r = [q EXCEPT !.inSouth = a, !.inWest = b, !.outNorth = NoFlit,
                                    !.outEast = NoFlit, !.signalWest = FALSE,
                                    !.signalSouth = FALSE, !.outCore = FALSE,
                                    !.outCorner = FALSE, !.dropped = {}]
      BY <2>1 DEF Handover
    <2> HIDE DEF r
    <2>3. DOMAIN r = DOMAIN q
      BY <2>2
    <2>4. Turns \subseteq DOMAIN q /\ q.justInjected = 0 /\ ~q.delayedWest /\ ~q.delayedCore
          /\ Len(q.corner) <= CornerSize
      BY <2>1 DEF Fresh
    <2>5. r.corner = q.corner
      BY <2>2
    <2>6. r.justInjected = 0 /\ ~r.delayedWest /\ ~r.delayedCore
      BY <2>2, <2>4 DEF Turns
    <2> QED
      BY <2>1, <2>3, <2>4, <2>5, <2>6
  <1>2. s = [r EXCEPT !.isSignaledEast = c[East(n)].signalWest, !.isSignaledNorth = c[North(n)].signalSouth]
    BY DEF Signaled
  <1> HIDE DEF r, s
  <1>3. Fresh(s)
    BY <1>1, <1>2 DEF Fresh, Turns
  <1> QED
    BY <1>3 DEF s

\* The steps of pnbe0, without fairness.
Be0Next == Be0!RouteAll \/ \E f \in Flows : Be0!Send(f) \/ Be0!Recv(f)
Be0Spec == Be0!Init /\ [][Be0Next]_vars

\* Between two cycles no router delays a flit.
Be0Conserving == Conserving /\ \A n \in Node : Fresh(ctx[n])

\* Every step of pnbe0 keeps the invariant.
LEMMA Be0ConservingKept ==
  ASSUME FlowAssumption, CornerSize \in Nat \ {0}, Be0Conserving, [Be0Next]_vars
  PROVE  Be0Conserving'
  <1>0. Conserving /\ \A n \in Node : Fresh(ctx[n])
    BY DEF Be0Conserving
  <1>1. CASE UNCHANGED vars
    <2>1. Conserving'
      BY <1>0, <1>1, ConservingOnStop DEF vars
    <2>2. ctx' = ctx
      BY <1>1 DEF vars
    <2> QED
      BY <1>0, <2>1, <2>2 DEF Be0Conserving
  <1>2. CASE Be0!RouteAll
    <2> DEFINE c == [n \in Node |-> Be0!Cycle(n)]
    <2>1. /\ \/ (\E n \in Node : c[n].fatal) /\ ctx' = ctx /\ lost' = lost
             \/ /\ \A n \in Node : ~c[n].fatal
                /\ ctx' = [n \in Node |-> Be0!Signaled(c, n)]
                /\ lost' = lost \cup UNION {c[n].dropped : n \in Node}
          /\ sent' = sent /\ got' = got
      BY <1>2 DEF Be0!RouteAll, Be0!RouteWith, Be0!Node, Node
    <2>2. \A n \in Node : CycleKeeps(n, ctx[n], c[n]) /\ Fresh(c[n])
      BY <1>0, Be0CycleKeeps DEF FlowAssumption, Conserving, Keeping
    <2>3. \A n \in Node : Be0!Signaled(c, n) = Signaled(c, n)
      BY DEF Be0!Signaled, Signaled, Be0!Handover, Handover, Be0!South, South, Be0!West, West,
             Be0!East, East, Be0!North, North, Be0!RankOf, RankOf, Be0!X, X, Be0!Y, Y
    <2> HIDE DEF c
    <2>4. CASE ctx' = ctx /\ lost' = lost
      <3>1. Conserving'
        BY <1>0, <2>1, <2>4, ConservingOnStop
      <3> QED
        BY <1>0, <2>4, <3>1 DEF Be0Conserving
    <2>5. CASE /\ \A n \in Node : ~c[n].fatal
               /\ ctx' = [n \in Node |-> Be0!Signaled(c, n)]
               /\ lost' = lost \cup UNION {c[n].dropped : n \in Node}
      <3> DEFINE D == [n \in Node |-> Signaled(c, n)]
      <3>1. OneRound(ctx, c, D)
        BY <2>2, <2>5, HandedOverIs DEF OneRound, CycleKeeps
      <3>2. ctx' = [n \in Node |-> D[n]]
        BY <2>3, <2>5
      <3>3. \A n \in Node : Fresh(D[n])
        BY <2>2, FreshHandedOver
      <3> HIDE DEF D
      <3>4. Conserving'
        BY <1>0, <2>1, <2>5, <3>1, <3>2, ConservingOnRoute
      <3>5. \A n \in Node : ctx'[n] = D[n]
        BY <3>2
      <3> QED
        BY <3>3, <3>4, <3>5 DEF Be0Conserving
    <2> QED
      BY <2>1, <2>4, <2>5
  <1>3. ASSUME NEW f \in Flows, Be0!Send(f) PROVE Be0Conserving'
    <2>1. SendFlit(f)
      BY <1>3, Be0Shares DEF Be0!Send, Be0!SendFlit, SendFlit
    <2>2. Conserving'
      BY <1>0, <2>1, ConservingOnSend
    <2>3. PICK x : ctx' = [ctx EXCEPT ![f[1]] = [Updated(ctx[f[1]]) EXCEPT !.inj = Append(@, x)]]
      BY <2>1 DEF SendFlit
    <2>4. f[1] \in Node
      BY FlowIs
    <2>5. PICK C : C = ctx
      OBVIOUS
    <2>6. /\ C = [n \in Node |-> C[n]] /\ (\A n \in Node : Fresh(C[n]))
          /\ ctx' = [C EXCEPT ![f[1]] = [Updated(C[f[1]]) EXCEPT !.inj = Append(@, x)]]
      BY <1>0, <2>3, <2>5 DEF Conserving, Keeping
    <2>7. Fresh([Updated(C[f[1]]) EXCEPT !.inj = Append(@, x)])
      <3>1. PICK u : u = Updated(C[f[1]])
        OBVIOUS
      <3>2. Fresh(u)
        BY <2>4, <2>6, <3>1, FreshElsewhere
      <3>3. PICK q : q = Append(u.inj, x)
        OBVIOUS
      <3>4. Fresh([u EXCEPT !.inj = q])
        BY <3>2, FreshElsewhere
      <3> QED
        BY <3>1, <3>3, <3>4
    <2>8. \A n \in Node : Fresh(ctx'[n])
      BY <2>4, <2>6, <2>7
    <2> QED
      BY <2>2, <2>8 DEF Be0Conserving
  <1>4. ASSUME NEW f \in Flows, Be0!Recv(f) PROVE Be0Conserving'
    <2>1. \A q, r : Be0!FirstFrom(q, r) = FirstFrom(q, r)
      BY DEF Be0!FirstFrom, FirstFrom, Be0!SelectInSeq, SelectInSeq, Be0!Min, Min
    <2>2. \A q, r : Be0!WithoutFirstFrom(q, r) = WithoutFirstFrom(q, r)
      BY <2>1 DEF Be0!WithoutFirstFrom, WithoutFirstFrom, Be0!RemoveAt, RemoveAt
    <2>3. RecvFlit(f)
      BY <1>4, <2>1, <2>2 DEF Be0!Recv, Be0!RecvFlit, RecvFlit
    <2>4. Conserving'
      BY <1>0, <2>3, ConservingOnRecv
    <2>5. PICK q : ctx' = [ctx EXCEPT ![f[2]] = [ctx[f[2]] EXCEPT !.core = q]]
      BY <2>3 DEF RecvFlit
    <2>6. f[2] \in Node
      BY FlowIs
    <2>7. PICK C : C = ctx
      OBVIOUS
    <2>8. /\ C = [n \in Node |-> C[n]] /\ (\A n \in Node : Fresh(C[n]))
          /\ ctx' = [C EXCEPT ![f[2]] = [C[f[2]] EXCEPT !.core = q]]
      BY <1>0, <2>5, <2>7 DEF Conserving, Keeping
    <2>9. Fresh([C[f[2]] EXCEPT !.core = q])
      <3>1. PICK r : r = C[f[2]]
        OBVIOUS
      <3>2. Fresh(r)
        BY <2>6, <2>8, <3>1
      <3>3. Fresh([r EXCEPT !.core = q])
        BY <3>2, FreshElsewhere
      <3> QED
        BY <3>1, <3>3
    <2>10. \A n \in Node : Fresh(ctx'[n])
      BY <2>6, <2>8, <2>9
    <2> QED
      BY <2>4, <2>10 DEF Be0Conserving
  <1> QED
    BY <1>1, <1>2, <1>3, <1>4 DEF Be0Next

\* pnbe0_init establishes it.
LEMMA Be0ConservingAtFirst ==
  ASSUME FlowAssumption, CornerSize \in Nat \ {0}, Be0!Init
  PROVE  Be0Conserving
  <1> DEFINE C == [n \in Node |-> Be0!Context(n)]
  <1>1. /\ ctx = C /\ sent = [f \in Flows |-> 0] /\ got = [f \in Flows |-> {}] /\ lost = {}
    BY DEF Be0!Init, Be0!InitWith, Be0!Node, Node
  <1>2. \A n \in Node : /\ Parts \subseteq DOMAIN C[n]
                        /\ C[n].inWest = NoFlit /\ C[n].inSouth = NoFlit /\ C[n].inCore = NoFlit
                        /\ C[n].inj = <<>> /\ C[n].core = <<>> /\ C[n].corner = <<>>
                        /\ C[n].outEast = NoFlit /\ C[n].outNorth = NoFlit
                        /\ C[n].dropped = {} /\ C[n].fatal = FALSE
    BY DEF Be0!Context, Parts, Be0!EmptyBuffer
  <1>3. \A n \in Node : Fresh(C[n])
    BY DEF Be0!Context, Fresh, Turns, Be0!EmptyBuffer
  <1>4. ctx = [n \in Node |-> C[n]] /\ \A n \in Node : ctx[n] = C[n]
    BY <1>1
  <1> HIDE DEF C
  <1>5. Conserving
    BY <1>1, <1>2, <1>4, ConservingAtFirst
  <1> QED
    BY <1>3, <1>4, <1>5 DEF Be0Conserving

\* In pnbe0, with a corner buffer that takes at least one flit, every flit that was
\* sent is in exactly one place of one router until it is received or replaced by a
\* flit of a core: a flit that waits for the corner buffer to send is neither
\* forgotten nor stored twice.
THEOREM Be0Conserves ==
  FlowAssumption /\ CornerSize \in Nat \ {0} => (Be0Spec => []Be0!Conservation)
  <1> SUFFICES ASSUME FlowAssumption, CornerSize \in Nat \ {0} PROVE Be0Spec => []Be0!Conservation
    OBVIOUS
  <1>1. Be0!Init => Be0Conserving
    BY Be0ConservingAtFirst
  <1>2. Be0Conserving /\ [Be0Next]_vars => Be0Conserving'
    BY Be0ConservingKept
  <1>3. Be0Conserving => Be0!Conservation
    <2>1. ASSUME Be0Conserving PROVE Be0!Conservation
      <3>1. Conserved([n \in Node |-> Held(ctx[n])])
        BY <2>1, ConservingMeans DEF Be0Conserving
      <3>2. [n \in Node |-> Held(ctx[n])] = [n \in Node |-> Be0!Holds(n)]
        BY DEF Held, Be0!Holds, Be0!Store
      <3>3. \A held, f, k : Be0!Copies(held, f, k) = Copies(held, f, k)
        BY DEF Be0!Copies, Copies, Be0!IsFlit, IsFlit, Be0!Cardinality, Cardinality
      <3>4. \A f, k : Be0!IsLost(f, k) <=> IsLost(f, k)
        BY DEF Be0!IsLost, IsLost, Be0!IsFlit, IsFlit
      <3>5. \A held : Be0!Conserved(held) <=> Conserved(held)
        BY <3>3, <3>4 DEF Be0!Conserved, Conserved
      <3> QED
        BY <3>1, <3>2, <3>5 DEF Be0!Conservation, Be0!Node, Node
    <2> QED
      BY <2>1
  <1> QED
    BY <1>1, <1>2, <1>3, PTL DEF Be0Spec

-----------------------------------------------------------------------------
\* pnoa.  Its corner buffer is one place, and what is put into a place that is not
\* free replaces what it finds there.

\* The corner buffer of pnoa is one place; seen as a queue it holds one flit or none.
Cell(x) == IF x = NoFlit THEN <<>> ELSE <<x>>
View(r) == [r EXCEPT !.corner = Cell(r.corner)]

\* A cell holds what the place holds.
LEMMA CellIs ==
  ASSUME NEW x \in Slot
  PROVE  Cell(x) \in Seq(Sent) /\ \A f, k : Times(Cell(x), f, k) = One(x, f, k)
  <1>1. CASE x = NoFlit
    <2>1. Cell(x) = <<>>
      BY <1>1 DEF Cell
    <2> QED
      BY <1>1, <2>1, TimesEmpty, OneIs
  <1>2. CASE x # NoFlit
    <2>1. Cell(x) = <<x>> /\ x \in Sent
      BY <1>2 DEF Cell, Slot
    <2> QED
      BY <2>1, TimesOne
  <1> QED
    BY <1>1, <1>2

\* A view differs from the context in the corner only.
LEMMA ViewIs ==
  ASSUME NEW r, Parts \subseteq DOMAIN r
  PROVE  /\ Parts \subseteq DOMAIN View(r)
         /\ View(r).inWest = r.inWest /\ View(r).inSouth = r.inSouth /\ View(r).inCore = r.inCore
         /\ View(r).inj = r.inj /\ View(r).core = r.core /\ View(r).corner = Cell(r.corner)
         /\ View(r).outEast = r.outEast /\ View(r).outNorth = r.outNorth
         /\ View(r).dropped = r.dropped /\ View(r).fatal = r.fatal
  BY DEF View, Parts

\* A stage that changes some parts changes the same parts of the view.
LEMMA ViewExcept ==
  ASSUME NEW r, NEW s, NEW P, Parts \subseteq DOMAIN r, Except(r, s, P)
  PROVE  Except(View(r), View(s), P)
  <1>1. Parts \subseteq DOMAIN s /\ \A x \in Parts \ P : s[x] = r[x]
    BY DEF Except
  <1>2. DOMAIN View(s) = DOMAIN s /\ DOMAIN View(r) = DOMAIN r
    BY DEF View
  <1>3. ASSUME NEW x \in Parts \ P PROVE View(s)[x] = View(r)[x]
    <2>1. CASE x = "corner"
      BY <1>1, <2>1, <1>3 DEF View
    <2>2. CASE x # "corner"
      BY <1>1, <2>2, <1>3 DEF View
    <2> QED
      BY <2>1, <2>2
  <1> QED
    BY <1>1, <1>2, <1>3 DEF Except

\* A context of pnoa.
Single(n, r) == Parts \subseteq DOMAIN r /\ r.corner \in Slot /\ Carrier(n, View(r))

\* The flit fc has been added to one that is counted once, or the flit fc, which
\* is there once, has been taken out.
Pushed(n, v, w, fc) ==
  /\ Carrier(n, w) /\ (w.fatal <=> v.fatal) /\ w.inWest = v.inWest /\ w.inSouth = v.inSouth
  /\ \A f, k : Load(v, f, k) + One(fc, f, k) <= 1 => Load(w, f, k) = Load(v, f, k) + One(fc, f, k)
Pulled(n, v, w, fc) ==
  /\ Carrier(n, w) /\ (w.fatal <=> v.fatal) /\ w.inWest = v.inWest /\ w.inSouth = v.inSouth
  /\ \A f, k : Load(v, f, k) = Load(w, f, k) + One(fc, f, k)

\* A replaced flit is among the lost ones.
LEMMA GoneWith ==
  ASSUME NEW r, NEW s, NEW x, s.dropped = r.dropped \cup ({x} \ {NoFlit}), NEW f, NEW k,
         Gone(r, f, k) + One(x, f, k) <= 1
  PROVE  Gone(s, f, k) = Gone(r, f, k) + One(x, f, k)
  <1>1. One(x, f, k) = 1 <=> \E fc \in {x} \ {NoFlit} : IsFlit(fc, f, k)
    BY DEF One, IsFlit
  <1>2. Gone(s, f, k) = 1 <=> Gone(r, f, k) = 1 \/ One(x, f, k) = 1
    BY <1>1 DEF Gone
  <1>3. Gone(s, f, k) \in {0, 1} /\ Gone(r, f, k) \in {0, 1} /\ One(x, f, k) \in {0, 1}
    BY OneIs DEF Gone
  <1> QED
    BY <1>2, <1>3

\* The east output takes a flit, whether it is free or not.
LEMMA EastPushed ==
  ASSUME NEW n, NEW r, NEW s, NEW fc, Carrier(n, r), fc \in Sent,
         Except(r, s, {"outEast", "dropped"}), s.outEast = fc,
         s.dropped = r.dropped \cup ({r.outEast} \ {NoFlit})
  PROVE  Pushed(n, r, s, fc)
  <1>1. /\ s.inWest = r.inWest /\ s.inSouth = r.inSouth /\ s.inCore = r.inCore
        /\ s.inj = r.inj /\ s.core = r.core /\ s.corner = r.corner
        /\ s.outNorth = r.outNorth /\ s.fatal = r.fatal /\ Parts \subseteq DOMAIN s
    BY DEF Except, Parts
  <1>2. Carrier(n, s)
    BY <1>1 DEF Carrier, Slot
  <1>3. ASSUME NEW f, NEW k, Load(r, f, k) + One(fc, f, k) <= 1
        PROVE  Load(s, f, k) = Load(r, f, k) + One(fc, f, k)
    <2>1. /\ One(r.inCore, f, k) \in Nat /\ Times(r.inj, f, k) \in Nat
          /\ Times(r.core, f, k) \in Nat /\ Times(r.corner, f, k) \in Nat
          /\ One(r.outEast, f, k) \in Nat /\ One(r.outNorth, f, k) \in Nat
          /\ Gone(r, f, k) \in Nat /\ One(fc, f, k) \in Nat
      BY LoadTyped, OneIs
    <2>2. Gone(r, f, k) + One(r.outEast, f, k) <= 1
      BY <1>3, <2>1 DEF Load
    <2>3. Gone(s, f, k) = Gone(r, f, k) + One(r.outEast, f, k)
      BY <2>2, GoneWith
    <2> QED
      BY <1>1, <2>1, <2>3 DEF Load
  <1> QED
    BY <1>1, <1>2, <1>3 DEF Pushed

\* The north output takes a flit, whether it is free or not.
LEMMA NorthPushed ==
  ASSUME NEW n, NEW r, NEW s, NEW fc, Carrier(n, r), fc \in Sent,
         Except(r, s, {"outNorth", "dropped"}), s.outNorth = fc,
         s.dropped = r.dropped \cup ({r.outNorth} \ {NoFlit})
  PROVE  Pushed(n, r, s, fc)
  <1>1. /\ s.inWest = r.inWest /\ s.inSouth = r.inSouth /\ s.inCore = r.inCore
        /\ s.inj = r.inj /\ s.core = r.core /\ s.corner = r.corner
        /\ s.outEast = r.outEast /\ s.fatal = r.fatal /\ Parts \subseteq DOMAIN s
    BY DEF Except, Parts
  <1>2. Carrier(n, s)
    BY <1>1 DEF Carrier, Slot
  <1>3. ASSUME NEW f, NEW k, Load(r, f, k) + One(fc, f, k) <= 1
        PROVE  Load(s, f, k) = Load(r, f, k) + One(fc, f, k)
    <2>1. /\ One(r.inCore, f, k) \in Nat /\ Times(r.inj, f, k) \in Nat
          /\ Times(r.core, f, k) \in Nat /\ Times(r.corner, f, k) \in Nat
          /\ One(r.outEast, f, k) \in Nat /\ One(r.outNorth, f, k) \in Nat
          /\ Gone(r, f, k) \in Nat /\ One(fc, f, k) \in Nat
      BY LoadTyped, OneIs
    <2>2. Gone(r, f, k) + One(r.outNorth, f, k) <= 1
      BY <1>3, <2>1 DEF Load
    <2>3. Gone(s, f, k) = Gone(r, f, k) + One(r.outNorth, f, k)
      BY <2>2, GoneWith
    <2> QED
      BY <1>1, <2>1, <2>3 DEF Load
  <1> QED
    BY <1>1, <1>2, <1>3 DEF Pushed

\* Here x is what the corner place held.
LEMMA CornerPushed ==
  ASSUME NEW n, NEW r, NEW s, NEW fc, NEW x \in Slot, Carrier(n, r), fc \in Sent,
         Except(r, s, {"corner", "dropped"}), s.corner = Cell(fc), r.corner = Cell(x),
         s.dropped = r.dropped \cup ({x} \ {NoFlit})
  PROVE  Pushed(n, r, s, fc)
  <1>1. /\ s.inWest = r.inWest /\ s.inSouth = r.inSouth /\ s.inCore = r.inCore
        /\ s.inj = r.inj /\ s.core = r.core /\ s.outNorth = r.outNorth
        /\ s.outEast = r.outEast /\ s.fatal = r.fatal /\ Parts \subseteq DOMAIN s
    BY DEF Except, Parts
  <1>2. Carrier(n, s)
    <2>1. s.corner \in Seq(Sent)
      BY CellIs DEF Slot
    <2>2. s.dropped \in SUBSET Sent
      BY DEF Carrier, Slot
    <2> QED
      BY <1>1, <2>1, <2>2 DEF Carrier, Slot
  <1>3. ASSUME NEW f, NEW k, Load(r, f, k) + One(fc, f, k) <= 1
        PROVE  Load(s, f, k) = Load(r, f, k) + One(fc, f, k)
    <2>1. /\ One(r.inCore, f, k) \in Nat /\ Times(r.inj, f, k) \in Nat
          /\ Times(r.core, f, k) \in Nat
          /\ One(r.outEast, f, k) \in Nat /\ One(r.outNorth, f, k) \in Nat
          /\ Gone(r, f, k) \in Nat /\ One(fc, f, k) \in Nat /\ One(x, f, k) \in Nat
      BY LoadTyped, OneIs
    <2>2. Times(r.corner, f, k) = One(x, f, k) /\ Times(s.corner, f, k) = One(fc, f, k)
      BY CellIs DEF Slot
    <2>3. Gone(r, f, k) + One(x, f, k) <= 1
      BY <1>3, <2>1, <2>2 DEF Load
    <2>4. Gone(s, f, k) = Gone(r, f, k) + One(x, f, k)
      BY <2>3, GoneWith
    <2> QED
      BY <1>1, <2>1, <2>2, <2>4 DEF Load
  <1> QED
    BY <1>1, <1>2, <1>3 DEF Pushed

\* The full core buffer refuses a flit.
LEMMA LostAtCore ==
  ASSUME NoFlit \notin Sent, NEW n, NEW r, NEW s, NEW fc, Carrier(n, r), fc \in Sent,
         Except(r, s, {"dropped"}), s.dropped = r.dropped \cup {fc}
  PROVE  Pushed(n, r, s, fc)
  <1>1. /\ s.inWest = r.inWest /\ s.inSouth = r.inSouth /\ s.inCore = r.inCore
        /\ s.inj = r.inj /\ s.core = r.core /\ s.corner = r.corner
        /\ s.outEast = r.outEast /\ s.outNorth = r.outNorth /\ s.fatal = r.fatal
        /\ Parts \subseteq DOMAIN s
    BY DEF Except, Parts
  <1>2. Carrier(n, s)
    BY <1>1 DEF Carrier
  <1>3. ASSUME NEW f, NEW k, Load(r, f, k) + One(fc, f, k) <= 1
        PROVE  Load(s, f, k) = Load(r, f, k) + One(fc, f, k)
    <2>1. /\ One(r.inCore, f, k) \in Nat /\ Times(r.inj, f, k) \in Nat
          /\ Times(r.core, f, k) \in Nat /\ Times(r.corner, f, k) \in Nat
          /\ One(r.outEast, f, k) \in Nat /\ One(r.outNorth, f, k) \in Nat
          /\ Gone(r, f, k) \in Nat /\ One(fc, f, k) \in Nat
      BY LoadTyped, OneIs
    <2>2. Gone(r, f, k) + One(fc, f, k) <= 1
      BY <1>3, <2>1 DEF Load
    <2>3. s.dropped = r.dropped \cup ({fc} \ {NoFlit})
      OBVIOUS
    <2>4. Gone(s, f, k) = Gone(r, f, k) + One(fc, f, k)
      BY <2>2, <2>3, GoneWith
    <2> QED
      BY <1>1, <2>1, <2>4 DEF Load
  <1> QED
    BY <1>1, <1>2, <1>3 DEF Pushed

\* The core's place is emptied.
LEMMA CorePulled ==
  ASSUME NEW n, NEW r, NEW s, Carrier(n, r), Except(r, s, {"inCore"}), s.inCore = NoFlit
  PROVE  Pulled(n, r, s, r.inCore)
  <1>1. /\ s.inWest = r.inWest /\ s.inSouth = r.inSouth
        /\ s.inj = r.inj /\ s.core = r.core /\ s.corner = r.corner /\ s.dropped = r.dropped
        /\ s.outEast = r.outEast /\ s.outNorth = r.outNorth /\ s.fatal = r.fatal
        /\ Parts \subseteq DOMAIN s
    BY DEF Except, Parts
  <1>2. Carrier(n, s)
    BY <1>1 DEF Carrier, Slot
  <1>3. ASSUME NEW f, NEW k PROVE Load(r, f, k) = Load(s, f, k) + One(r.inCore, f, k)
    <2>1. /\ One(r.inCore, f, k) \in Nat /\ Times(r.inj, f, k) \in Nat
          /\ Times(r.core, f, k) \in Nat /\ Times(r.corner, f, k) \in Nat
          /\ One(r.outEast, f, k) \in Nat /\ One(r.outNorth, f, k) \in Nat
          /\ Gone(r, f, k) \in Nat
      BY LoadTyped
    <2>2. One(s.inCore, f, k) = 0 /\ Gone(s, f, k) = Gone(r, f, k)
      BY <1>1, OneIs DEF Gone
    <2> QED
      BY <1>1, <2>1, <2>2 DEF Load
  <1> QED
    BY <1>1, <1>2, <1>3 DEF Pulled

\* The corner place is emptied.
LEMMA CornerPulled ==
  ASSUME NEW n, NEW r, NEW s, NEW x \in Slot, Carrier(n, r), Except(r, s, {"corner"}),
         r.corner = Cell(x), s.corner = <<>>
  PROVE  Pulled(n, r, s, x)
  <1>1. /\ s.inWest = r.inWest /\ s.inSouth = r.inSouth /\ s.inCore = r.inCore
        /\ s.inj = r.inj /\ s.core = r.core /\ s.dropped = r.dropped
        /\ s.outEast = r.outEast /\ s.outNorth = r.outNorth /\ s.fatal = r.fatal
        /\ Parts \subseteq DOMAIN s
    BY DEF Except, Parts
  <1>2. Carrier(n, s)
    BY <1>1 DEF Carrier
  <1>3. ASSUME NEW f, NEW k PROVE Load(r, f, k) = Load(s, f, k) + One(x, f, k)
    <2>1. /\ One(r.inCore, f, k) \in Nat /\ Times(r.inj, f, k) \in Nat
          /\ Times(r.core, f, k) \in Nat
          /\ One(r.outEast, f, k) \in Nat /\ One(r.outNorth, f, k) \in Nat
          /\ Gone(r, f, k) \in Nat /\ One(x, f, k) \in Nat
      BY LoadTyped, OneIs
    <2>2. Times(s.corner, f, k) = 0 /\ Times(r.corner, f, k) = One(x, f, k)
      BY TimesEmpty, CellIs
    <2>3. Gone(s, f, k) = Gone(r, f, k)
      BY <1>1 DEF Gone
    <2> QED
      BY <1>1, <2>1, <2>2, <2>3 DEF Load
  <1> QED
    BY <1>1, <1>2, <1>3 DEF Pulled

\* A flit that was moved is still there.
LEMMA Moved ==
  ASSUME NEW n, NEW v, NEW u, NEW w, NEW fc, Carrier(n, v), Pulled(n, v, u, fc), Pushed(n, u, w, fc)
  PROVE  Pushed(n, v, w, NoFlit)
  <1>1. ASSUME NEW f, NEW k, Load(v, f, k) + One(NoFlit, f, k) <= 1
        PROVE  Load(w, f, k) = Load(v, f, k) + One(NoFlit, f, k)
    <2>1. One(NoFlit, f, k) = 0 /\ Load(v, f, k) \in Nat
      BY OneIs, LoadTyped
    <2>2. Load(v, f, k) = Load(u, f, k) + One(fc, f, k)
      BY DEF Pulled
    <2>3. Load(w, f, k) = Load(u, f, k) + One(fc, f, k)
      BY <1>1, <2>1, <2>2 DEF Pushed
    <2> QED
      BY <2>1, <2>2, <2>3
  <1> QED
    BY <1>1 DEF Pushed, Pulled

\* A stage of the other routers.
LEMMA PushedByStage ==
  ASSUME NEW n, NEW v, NEW w, NEW fc, Stage(n, v, w, fc), ~v.fatal, ~w.fatal,
         w.inWest = v.inWest, w.inSouth = v.inSouth
  PROVE  Pushed(n, v, w, fc)
  BY DEF Stage, Pushed

\* A stage of the cycle of pnoa at node n that takes the flit fc in.
Step(n, r, s, fc) == Single(n, s) /\ Pushed(n, View(r), View(s), fc)

\* A stage that does nothing.
LEMMA StepIsNone ==
  ASSUME NEW n, NEW r, Single(n, r)
  PROVE  Step(n, r, r, NoFlit)
  <1>1. Carrier(n, View(r))
    BY DEF Single
  <1>2. \A f, k : Load(View(r), f, k) \in Nat /\ One(NoFlit, f, k) = 0
    BY <1>1, LoadTyped, OneIs
  <1> QED
    BY <1>1, <1>2 DEF Step, Pushed

\* A flit is put on the ring to the east.
LEMMA IntoEastIs ==
  ASSUME NoFlit \notin Sent, NEW n, NEW r, Single(n, r), NEW fc \in Sent
  PROVE  Step(n, r, IntoEast(r, fc), fc)
  <1> DEFINE s == IntoEast(r, fc)
  <1>1. Parts \subseteq DOMAIN r /\ r.corner \in Slot /\ Carrier(n, View(r))
    BY DEF Single
  <1>2. s = [r EXCEPT !.dropped = @ \cup ({r.outEast} \ {NoFlit}), !.outEast = fc]
    BY DEF IntoEast
  <1> HIDE DEF s
  <1>3. /\ Except(r, s, {"outEast", "dropped"}) /\ s.outEast = fc
        /\ s.dropped = r.dropped \cup ({r.outEast} \ {NoFlit})
        /\ s.corner = r.corner /\ Parts \subseteq DOMAIN s
    BY <1>1, <1>2 DEF Except, Parts
  <1>4. Except(View(r), View(s), {"outEast", "dropped"})
    BY <1>1, <1>3, ViewExcept
  <1>5. /\ View(s).outEast = fc
        /\ View(s).dropped = View(r).dropped \cup ({View(r).outEast} \ {NoFlit})
    BY <1>1, <1>3, ViewIs
  <1>6. Pushed(n, View(r), View(s), fc)
    BY <1>1, <1>4, <1>5, EastPushed
  <1>7. Step(n, r, s, fc)
    BY <1>1, <1>3, <1>6 DEF Step, Single, Pushed
  <1> QED
    BY <1>7 DEF s

\* A flit is put on the ring to the north.
LEMMA IntoNorthIs ==
  ASSUME NoFlit \notin Sent, NEW n, NEW r, Single(n, r), NEW fc \in Sent
  PROVE  Step(n, r, IntoNorth(r, fc), fc)
  <1> DEFINE s == IntoNorth(r, fc)
  <1>1. Parts \subseteq DOMAIN r /\ r.corner \in Slot /\ Carrier(n, View(r))
    BY DEF Single
  <1>2. s = [r EXCEPT !.dropped = @ \cup ({r.outNorth} \ {NoFlit}), !.outNorth = fc]
    BY DEF IntoNorth
  <1> HIDE DEF s
  <1>3. /\ Except(r, s, {"outNorth", "dropped"}) /\ s.outNorth = fc
        /\ s.dropped = r.dropped \cup ({r.outNorth} \ {NoFlit})
        /\ s.corner = r.corner /\ Parts \subseteq DOMAIN s
    BY <1>1, <1>2 DEF Except, Parts
  <1>4. Except(View(r), View(s), {"outNorth", "dropped"})
    BY <1>1, <1>3, ViewExcept
  <1>5. /\ View(s).outNorth = fc
        /\ View(s).dropped = View(r).dropped \cup ({View(r).outNorth} \ {NoFlit})
    BY <1>1, <1>3, ViewIs
  <1>6. Pushed(n, View(r), View(s), fc)
    BY <1>1, <1>4, <1>5, NorthPushed
  <1>7. Step(n, r, s, fc)
    BY <1>1, <1>3, <1>6 DEF Step, Single, Pushed
  <1> QED
    BY <1>7 DEF s

\* A flit is put into the corner place.
LEMMA IntoCornerIs ==
  ASSUME NoFlit \notin Sent, NEW n, NEW r, Single(n, r), NEW fc \in Sent
  PROVE  Step(n, r, IntoCorner(r, fc), fc)
  <1> DEFINE s == IntoCorner(r, fc)
  <1>1. Parts \subseteq DOMAIN r /\ r.corner \in Slot /\ Carrier(n, View(r))
    BY DEF Single
  <1>2. s = [r EXCEPT !.dropped = @ \cup ({r.corner} \ {NoFlit}), !.corner = fc]
    BY DEF IntoCorner
  <1> HIDE DEF s
  <1>3. /\ Except(r, s, {"corner", "dropped"}) /\ s.corner = fc
        /\ s.dropped = r.dropped \cup ({r.corner} \ {NoFlit})
        /\ s.corner \in Slot /\ Parts \subseteq DOMAIN s
    BY <1>1, <1>2 DEF Except, Parts, Slot
  <1>4. Except(View(r), View(s), {"corner", "dropped"})
    BY <1>1, <1>3, ViewExcept
  <1>5. /\ View(s).corner = Cell(fc) /\ View(r).corner = Cell(r.corner)
        /\ View(s).dropped = View(r).dropped \cup ({r.corner} \ {NoFlit})
    BY <1>1, <1>3, ViewIs
  <1>6. Pushed(n, View(r), View(s), fc)
    BY <1>1, <1>4, <1>5, CornerPushed
  <1>7. Step(n, r, s, fc)
    BY <1>1, <1>3, <1>6 DEF Step, Single, Pushed
  <1> QED
    BY <1>7 DEF s

\* A flit for the core is taken or lost.
LEMMA ToCoreOrLostStep ==
  ASSUME NoFlit \notin Sent, NEW n, NEW r, Single(n, r), ~r.fatal, NEW fc \in Sent, fc.dest = n
  PROVE  Step(n, r, ToCoreOrLost(r, fc), fc)
  <1> DEFINE s == ToCoreOrLost(r, fc)
  <1>1. Parts \subseteq DOMAIN r /\ r.corner \in Slot /\ Carrier(n, View(r))
    BY DEF Single
  <1>2. CASE HasSlot(r.core, CoreSize)
    <2>2. s = [r EXCEPT !.core = Append(@, fc), !.outCore = TRUE]
      BY <1>2 DEF ToCoreOrLost
    <2> HIDE DEF s
    <2>3. /\ Except(r, s, {"core"}) /\ s.core = Append(r.core, fc)
          /\ s.corner = r.corner /\ Parts \subseteq DOMAIN s /\ s.fatal = r.fatal
          /\ s.inWest = r.inWest /\ s.inSouth = r.inSouth
      BY <1>1, <2>2 DEF Except, Parts
    <2>4. Except(View(r), View(s), {"core"})
      BY <1>1, <2>3, ViewExcept
    <2>5. /\ View(s).core = Append(View(r).core, fc)
          /\ ~View(s).fatal /\ ~View(r).fatal
          /\ View(s).inWest = View(r).inWest /\ View(s).inSouth = View(r).inSouth
      BY <1>1, <2>3, ViewIs
    <2>6. Stage(n, View(r), View(s), fc)
      BY <1>1, <2>4, <2>5, CoreTaken
    <2>7. Pushed(n, View(r), View(s), fc)
      BY <2>5, <2>6, PushedByStage
    <2>8. Step(n, r, s, fc)
      BY <1>1, <2>3, <2>7 DEF Step, Single, Pushed
    <2> QED
      BY <2>8 DEF s
  <1>3. CASE ~HasSlot(r.core, CoreSize)
    <2>2. s = [r EXCEPT !.dropped = @ \cup {fc}, !.outCore = TRUE]
      BY <1>3 DEF ToCoreOrLost
    <2> HIDE DEF s
    <2>3. /\ Except(r, s, {"dropped"}) /\ s.dropped = r.dropped \cup {fc}
          /\ s.corner = r.corner /\ Parts \subseteq DOMAIN s
      BY <1>1, <2>2 DEF Except, Parts
    <2>4. Except(View(r), View(s), {"dropped"})
      BY <1>1, <2>3, ViewExcept
    <2>5. View(s).dropped = View(r).dropped \cup {fc}
      BY <1>1, <2>3, ViewIs
    <2>6. Pushed(n, View(r), View(s), fc)
      BY <1>1, <2>4, <2>5, LostAtCore
    <2>7. Step(n, r, s, fc)
      BY <1>1, <2>3, <2>6 DEF Step, Single, Pushed
    <2> QED
      BY <2>7 DEF s
  <1> QED
    BY <1>2, <1>3

\* The flit of the core leaves its place.
LEMMA CoreEmptied ==
  ASSUME NEW n, NEW r, Single(n, r)
  PROVE  LET u == [r EXCEPT !.inCore = NoFlit]
         IN  Single(n, u) /\ Pulled(n, View(r), View(u), r.inCore)
  <1> DEFINE u == [r EXCEPT !.inCore = NoFlit]
  <1>1. Parts \subseteq DOMAIN r /\ r.corner \in Slot /\ Carrier(n, View(r))
    BY DEF Single
  <1>2. Except(r, u, {"inCore"}) /\ u.inCore = NoFlit /\ u.corner = r.corner /\ Parts \subseteq DOMAIN u
    BY <1>1 DEF Except, Parts
  <1> HIDE DEF u
  <1>3. Except(View(r), View(u), {"inCore"}) /\ View(u).inCore = NoFlit /\ View(r).inCore = r.inCore
    BY <1>1, <1>2, ViewExcept, ViewIs
  <1>4. Pulled(n, View(r), View(u), r.inCore)
    BY <1>1, <1>3, CorePulled
  <1>5. Single(n, u)
    BY <1>1, <1>2, <1>4 DEF Single, Pulled
  <1> QED
    BY <1>4, <1>5 DEF u

\* The corner's flit leaves its place.
LEMMA CornerEmptied ==
  ASSUME NEW n, NEW r, Single(n, r)
  PROVE  LET u == [r EXCEPT !.corner = NoFlit]
         IN  Single(n, u) /\ Pulled(n, View(r), View(u), r.corner)
  <1> DEFINE u == [r EXCEPT !.corner = NoFlit]
  <1>1. Parts \subseteq DOMAIN r /\ r.corner \in Slot /\ Carrier(n, View(r))
    BY DEF Single
  <1>2. Except(r, u, {"corner"}) /\ u.corner = NoFlit /\ Parts \subseteq DOMAIN u
    BY <1>1 DEF Except, Parts
  <1> HIDE DEF u
  <1>3. /\ Except(View(r), View(u), {"corner"}) /\ View(r).corner = Cell(r.corner)
        /\ View(u).corner = <<>>
    BY <1>1, <1>2, ViewExcept, ViewIs DEF Cell
  <1>4. Pulled(n, View(r), View(u), r.corner)
    BY <1>1, <1>3, CornerPulled
  <1>5. Single(n, u)
    BY <1>1, <1>2, <1>4 DEF Single, Pulled, Slot
  <1> QED
    BY <1>4, <1>5 DEF u

\* A flit that leaves one place and goes into another is moved.
LEMMA MovedStep ==
  ASSUME NEW n, NEW r, NEW u, NEW s, NEW fc,
         Single(n, r), Pulled(n, View(r), View(u), fc), Step(n, u, s, fc)
  PROVE  Step(n, r, s, NoFlit)
  <1>1. Carrier(n, View(r)) /\ Pushed(n, View(u), View(s), fc)
    BY DEF Single, Step
  <1>2. Pushed(n, View(r), View(s), NoFlit)
    BY <1>1, Moved
  <1> QED
    BY <1>2 DEF Step

\* The core input of pnoa.
LEMMA OaCoreInputKeeps ==
  ASSUME NoFlit \notin Sent, NEW n, NEW r, Single(n, r)
  PROVE  Step(n, r, CoreInput(n, r), NoFlit)
  <1> DEFINE u == [r EXCEPT !.inCore = NoFlit]
  <1>1. Single(n, u) /\ Pulled(n, View(r), View(u), r.inCore)
    BY CoreEmptied
  <1>2. r.inCore \in Slot
    BY ViewIs DEF Single, Carrier
  <1> HIDE DEF u
  <1>3. CASE CoreInput(n, r) = r
    BY <1>3, StepIsNone
  <1>4. CASE r.inCore # NoFlit /\ CoreInput(n, r) = IntoCorner(u, r.inCore)
    <2>1. r.inCore \in Sent
      BY <1>2, <1>4 DEF Slot
    <2>2. Step(n, u, IntoCorner(u, r.inCore), r.inCore)
      BY <1>1, <2>1, IntoCornerIs
    <2> QED
      BY <1>1, <1>4, <2>2, MovedStep
  <1>5. CASE r.inCore # NoFlit /\ CoreInput(n, r) = IntoEast(u, r.inCore)
    <2>1. r.inCore \in Sent
      BY <1>2, <1>5 DEF Slot
    <2>2. Step(n, u, IntoEast(u, r.inCore), r.inCore)
      BY <1>1, <2>1, IntoEastIs
    <2> QED
      BY <1>1, <1>5, <2>2, MovedStep
  <1> QED
    BY <1>3, <1>4, <1>5 DEF CoreInput, u

\* Corner to north in pnoa.
LEMMA OaCornerInputKeeps ==
  ASSUME NoFlit \notin Sent, NEW n, NEW r, Single(n, r)
  PROVE  Step(n, r, CornerInput(r), NoFlit)
  <1> DEFINE u == [r EXCEPT !.corner = NoFlit]
  <1>1. Single(n, u) /\ Pulled(n, View(r), View(u), r.corner)
    BY CornerEmptied
  <1>2. r.corner \in Slot
    BY DEF Single
  <1> HIDE DEF u
  <1>3. CASE CornerInput(r) = r
    BY <1>3, StepIsNone
  <1>4. CASE r.corner # NoFlit /\ CornerInput(r) = IntoNorth(u, r.corner)
    <2>1. r.corner \in Sent
      BY <1>2, <1>4 DEF Slot
    <2>2. Step(n, u, IntoNorth(u, r.corner), r.corner)
      BY <1>1, <2>1, IntoNorthIs
    <2> QED
      BY <1>1, <1>4, <2>2, MovedStep
  <1> QED
    BY <1>3, <1>4 DEF CornerInput, u

\* The west input of pnoa.
LEMMA OaWestInputKeeps ==
  ASSUME NoFlit \notin Sent, NEW n, NEW r, Single(n, r), ~r.fatal
  PROVE  Step(n, r, WestInput(n, r), r.inWest)
  <1>1. r.inWest \in Slot
    BY ViewIs DEF Single, Carrier
  <1>2. CASE r.inWest = NoFlit
    BY <1>2, StepIsNone DEF WestInput
  <1>3. CASE r.inWest # NoFlit
    <2>1. r.inWest \in Sent
      BY <1>1, <1>3 DEF Slot
    <2>2. CASE r.inWest.dest = n
      BY <1>3, <2>1, <2>2, ToCoreOrLostStep DEF WestInput
    <2>3. CASE r.inWest.dest # n /\ InColumn(n, r.inWest)
      BY <1>3, <2>1, <2>3, IntoCornerIs DEF WestInput
    <2>4. CASE r.inWest.dest # n /\ ~InColumn(n, r.inWest)
      BY <1>3, <2>1, <2>4, IntoEastIs DEF WestInput
    <2> QED
      BY <2>2, <2>3, <2>4
  <1> QED
    BY <1>2, <1>3

\* The south input of pnoa.
LEMMA OaSouthTurnKeeps ==
  ASSUME NoFlit \notin Sent, NEW n, NEW r, Single(n, r), ~r.fatal
  PROVE  Step(n, r, SouthTurn(n, r), r.inSouth)
  <1>1. r.inSouth \in Slot
    BY ViewIs DEF Single, Carrier
  <1>2. CASE r.inSouth = NoFlit
    BY <1>2, StepIsNone DEF SouthTurn
  <1>3. CASE r.inSouth # NoFlit
    <2>1. r.inSouth \in Sent
      BY <1>1, <1>3 DEF Slot
    <2>2. CASE r.inSouth.dest = n
      BY <1>3, <2>1, <2>2, ToCoreOrLostStep DEF SouthTurn
    <2>3. CASE r.inSouth.dest # n
      BY <1>3, <2>1, <2>3, IntoNorthIs DEF SouthTurn
    <2> QED
      BY <2>2, <2>3
  <1> QED
    BY <1>2, <1>3

\* The round counter is no place.
LEMMA CounterOnly ==
  ASSUME NEW n, NEW r, Single(n, r), NEW t
  PROVE  Step(n, r, [r EXCEPT !.currentCycle = t], NoFlit)
  <1> DEFINE s == [r EXCEPT !.currentCycle = t]
  <1>1. Parts \subseteq DOMAIN r /\ r.corner \in Slot /\ Carrier(n, View(r))
    BY DEF Single
  <1>2. Except(r, s, {}) /\ s.corner = r.corner /\ Parts \subseteq DOMAIN s
    BY <1>1 DEF Except, Parts
  <1> HIDE DEF s
  <1>3. Except(View(r), View(s), {})
    BY <1>1, <1>2, ViewExcept
  <1>4. Alike(View(r), View(s))
    BY <1>3 DEF Alike, Except
  <1>5. /\ Carrier(n, View(s)) /\ View(s).fatal = View(r).fatal
        /\ View(s).inWest = View(r).inWest /\ View(s).inSouth = View(r).inSouth
        /\ \A f, k : Load(View(s), f, k) = Load(View(r), f, k)
    BY <1>1, <1>4, AlikeIs
  <1>6. \A f, k : Load(View(r), f, k) \in Nat /\ One(NoFlit, f, k) = 0
    BY <1>1, LoadTyped, OneIs
  <1>7. Step(n, r, s, NoFlit)
    BY <1>1, <1>2, <1>5, <1>6 DEF Step, Single, Pushed
  <1> QED
    BY <1>7 DEF s

\* The next flit is prepared in the view as in the context.
LEMMA ViewUpdated ==
  ASSUME NEW n, NEW r, Single(n, r)
  PROVE  View(Updated(r)) = Updated(View(r)) /\ Updated(r).corner = r.corner
  <1>1. Parts \subseteq DOMAIN r
    BY DEF Single
  <1>2. View(r).inCore = r.inCore /\ View(r).inj = r.inj
    BY <1>1, ViewIs
  <1>3. CASE r.inCore # NoFlit
    BY <1>2, <1>3 DEF Updated
  <1>4. CASE r.inCore = NoFlit
    <2>1. PICK a, b : a = Oldest(r.inj) /\ b = Dequeued(r.inj)
      OBVIOUS
    <2>2. Updated(r) = [r EXCEPT !.inCore = a, !.inj = b]
      BY <1>4, <2>1 DEF Updated
    <2>3. Updated(View(r)) = [View(r) EXCEPT !.inCore = a, !.inj = b]
      BY <1>2, <1>4, <2>1 DEF Updated
    <2>4. Updated(r).corner = r.corner
      BY <1>1, <2>2 DEF Parts
    <2>5. View(Updated(r)) = [Updated(r) EXCEPT !.corner = Cell(r.corner)]
      BY <2>4 DEF View
    <2>6. View(r) = [r EXCEPT !.corner = Cell(r.corner)]
      BY DEF View
    <2>7. PICK d : d = Cell(r.corner)
      OBVIOUS
    <2>8. [[r EXCEPT !.inCore = a, !.inj = b] EXCEPT !.corner = d]
            = [[r EXCEPT !.corner = d] EXCEPT !.inCore = a, !.inj = b]
      OBVIOUS
    <2> QED
      BY <2>2, <2>3, <2>4, <2>5, <2>6, <2>7, <2>8
  <1> QED
    BY <1>3, <1>4

\* So this stage keeps the flits.
LEMMA OaUpdatedKeeps ==
  ASSUME NEW n, NEW r, Single(n, r)
  PROVE  Step(n, r, Updated(r), NoFlit)
  <1>1. View(Updated(r)) = Updated(View(r)) /\ Updated(r).corner \in Slot /\ Carrier(n, View(r))
    BY ViewUpdated DEF Single
  <1>2. PICK v : v = View(r)
    OBVIOUS
  <1>3. Carrier(n, v)
    BY <1>1, <1>2
  <1>4. /\ Carrier(n, Updated(v)) /\ Updated(v).fatal = v.fatal
        /\ Updated(v).inWest = v.inWest /\ Updated(v).inSouth = v.inSouth
        /\ \A f, k : Load(Updated(v), f, k) = Load(v, f, k)
    BY <1>3, UpdatedKeeps
  <1>5. \A f, k : Load(v, f, k) \in Nat /\ One(NoFlit, f, k) = 0
    BY <1>3, LoadTyped, OneIs
  <1>6. Pushed(n, v, Updated(v), NoFlit)
    BY <1>4, <1>5 DEF Pushed
  <1>7. Parts \subseteq DOMAIN Updated(r)
    <2>1. DOMAIN Updated(r) = DOMAIN r
      BY DEF Updated
    <2> QED
      BY <2>1 DEF Single
  <1> QED
    BY <1>1, <1>2, <1>4, <1>6, <1>7 DEF Step, Single

\* pnoa_route_one_cycle doubles no flit, even where it puts one into a place that is
\* taken: as each flit is in one place, the one replaced is lost and no other.
LEMMA OaCycleKeeps ==
  ASSUME NoFlit \notin Sent, NEW n, Single(n, ctx[n]), Between(n, View(ctx[n]))
  PROVE  Single(n, Cycle(n)) /\ CycleKeeps(n, View(ctx[n]), View(Cycle(n))) /\ ~View(Cycle(n)).fatal
  <1> DEFINE r == ctx[n]
             u == Updated(r)
             round == NewRound(u)
             core == CoreInput(n, round)
             corner == CornerInput(core)
             west == WestInput(n, corner)
             south == SouthTurn(n, west)
             s == Cycle(n)
  <1>1. PICK t : s = [south EXCEPT !.currentCycle = t]
    BY DEF Cycle
  <1>2. PICK m : round = [u EXCEPT !.currentCycle = m]
    BY DEF NewRound
  <1>3. Single(n, r) /\ ~View(r).fatal
    BY DEF Between
  <1> HIDE DEF r
  <1>4. Step(n, r, u, NoFlit) /\ Single(n, u)
    BY <1>3, OaUpdatedKeeps DEF Step
  <1> HIDE DEF u, round
  <1>5. Step(n, u, round, NoFlit) /\ Single(n, round)
    BY <1>2, <1>4, CounterOnly DEF Step
  <1>6. Step(n, round, core, NoFlit) /\ Single(n, core)
    BY <1>5, OaCoreInputKeeps DEF Step
  <1> HIDE DEF core
  <1>7. Step(n, core, corner, NoFlit) /\ Single(n, corner)
    BY <1>6, OaCornerInputKeeps DEF Step
  <1> HIDE DEF corner
  <1>8. /\ View(u).inWest = View(r).inWest /\ View(u).inSouth = View(r).inSouth
        /\ View(round).inWest = View(u).inWest /\ View(round).inSouth = View(u).inSouth
        /\ View(core).inWest = View(round).inWest /\ View(core).inSouth = View(round).inSouth
        /\ View(corner).inWest = View(core).inWest /\ View(corner).inSouth = View(core).inSouth
        /\ ~View(u).fatal /\ ~View(round).fatal /\ ~View(core).fatal /\ ~View(corner).fatal
    BY <1>3, <1>4, <1>5, <1>6, <1>7 DEF Step, Pushed
  <1>9. ~corner.fatal /\ corner.inWest = View(r).inWest
    BY <1>7, <1>8, ViewIs DEF Single
  <1>10. Step(n, corner, west, View(r).inWest) /\ Single(n, west)
    BY <1>7, <1>9, OaWestInputKeeps DEF Step
  <1> HIDE DEF west
  <1>11. View(west).inSouth = View(r).inSouth /\ ~View(west).fatal
    BY <1>8, <1>10 DEF Step, Pushed
  <1>12. ~west.fatal /\ west.inSouth = View(r).inSouth
    BY <1>10, <1>11, ViewIs DEF Single
  <1>13. Step(n, west, south, View(r).inSouth) /\ Single(n, south)
    BY <1>10, <1>12, OaSouthTurnKeeps DEF Step
  <1> HIDE DEF south, s
  <1>14. Step(n, south, s, NoFlit) /\ Single(n, s)
    BY <1>1, <1>13, CounterOnly DEF Step
  <1>15. Carrier(n, View(s)) /\ ~View(s).fatal
    BY <1>11, <1>13, <1>14 DEF Step, Pushed
  <1>16. ASSUME NEW f, NEW k, Weight(View(r), f, k) <= 1
         PROVE  Load(View(s), f, k) = Weight(View(r), f, k)
    <2>1. /\ Load(View(r), f, k) \in Nat /\ One(NoFlit, f, k) = 0
          /\ One(View(r).inWest, f, k) \in Nat /\ One(View(r).inSouth, f, k) \in Nat
      BY <1>3, LoadTyped, OneIs DEF Single
    <2>2. Load(View(r), f, k) + One(View(r).inSouth, f, k) + One(View(r).inWest, f, k) <= 1
      BY <1>16 DEF Weight
    <2>3. Load(View(u), f, k) = Load(View(r), f, k)
      BY <1>4, <2>1, <2>2 DEF Step, Pushed
    <2>4. Load(View(round), f, k) = Load(View(r), f, k)
      BY <1>5, <2>1, <2>2, <2>3 DEF Step, Pushed
    <2>5. Load(View(core), f, k) = Load(View(r), f, k)
      BY <1>6, <2>1, <2>2, <2>4 DEF Step, Pushed
    <2>6. Load(View(corner), f, k) = Load(View(r), f, k)
      BY <1>7, <2>1, <2>2, <2>5 DEF Step, Pushed
    <2>7. Load(View(west), f, k) = Load(View(r), f, k) + One(View(r).inWest, f, k)
      BY <1>10, <2>1, <2>2, <2>6 DEF Step, Pushed
    <2>8. Load(View(south), f, k) = Load(View(west), f, k) + One(View(r).inSouth, f, k)
      BY <1>13, <2>1, <2>2, <2>7 DEF Step, Pushed
    <2>9. Load(View(s), f, k) = Load(View(south), f, k)
      BY <1>14, <2>1, <2>2, <2>7, <2>8 DEF Step, Pushed
    <2> QED
      BY <2>1, <2>7, <2>8, <2>9 DEF Weight
  <1>17. CycleKeeps(n, View(r), View(s))
    BY <1>15, <1>16 DEF CycleKeeps
  <1> QED
    BY <1>14, <1>15, <1>17 DEF r, s

\* The steps of pnoa, without fairness.
PnoaNext == RouteAll \/ \E f \in Flows : Send(f) \/ Recv(f)
PnoaSpec == Init /\ [][PnoaNext]_vars

\* The inductive invariant of pnoa.
Views == [n \in Node |-> View(ctx[n])]
OaConserving ==
  /\ ctx = [n \in Node |-> ctx[n]] /\ \A n \in Node : Single(n, ctx[n])
  /\ Keeping(Views, sent, got, lost)

\* noc_route_all.
LEMMA OaConservingOnRoute ==
  ASSUME FlowAssumption, OaConserving, RouteAll
  PROVE  OaConserving'
  <1> DEFINE c == [n \in Node |-> Cycle(n)]
             w == [n \in Node |-> View(Cycle(n))]
             H == [n \in Node |-> Handover(c, n)]
             D == [n \in Node |-> View(Handover(c, n))]
  <1>1. \A n \in Node : Single(n, ctx[n]) /\ Between(n, View(ctx[n])) /\ Views[n] = View(ctx[n])
    BY DEF OaConserving, Keeping, Views
  <1>2. \A n \in Node : Single(n, c[n]) /\ CycleKeeps(n, Views[n], w[n]) /\ ~w[n].fatal
    BY <1>1, OaCycleKeeps DEF FlowAssumption
  <1>3. \A n \in Node : w[n] = View(c[n])
    OBVIOUS
  <1>4. /\ \/ (\E n \in Node : c[n].fatal) /\ ctx' = ctx /\ lost' = lost
           \/ /\ \A n \in Node : ~c[n].fatal
              /\ ctx' = H
              /\ lost' = lost \cup UNION {c[n].dropped : n \in Node}
        /\ sent' = sent /\ got' = got
    BY DEF RouteAll, RouteWith
  <1> HIDE DEF c, w
  <1>5. \A n \in Node : /\ w[n].fatal = c[n].fatal /\ w[n].dropped = c[n].dropped
                        /\ w[n].inCore = c[n].inCore /\ w[n].inj = c[n].inj
                        /\ w[n].core = c[n].core /\ w[n].corner = Cell(c[n].corner)
                        /\ w[n].outEast = c[n].outEast /\ w[n].outNorth = c[n].outNorth
    BY <1>2, <1>3, ViewIs DEF Single
  <1>6. \A n \in Node : HandedOver(w, n, D[n]) /\ Single(n, H[n])
    <2> TAKE n \in Node
    <2>1. South(n) \in Node /\ West(n) \in Node
      BY Neighbours
    <2>2. PICK r : r = c[n]
      OBVIOUS
    <2>3. PICK a, b : a = c[South(n)].outNorth /\ b = c[West(n)].outEast
      OBVIOUS
    <2>4. PICK h : h = [r EXCEPT !.inSouth = a, !.inWest = b,
                                 !.outNorth = NoFlit, !.outEast = NoFlit,
                                 !.signalWest = FALSE, !.signalSouth = FALSE,
                                 !.outCore = FALSE, !.outCorner = FALSE, !.dropped = {}]
      OBVIOUS
    <2>5. Handover(c, n) = h /\ H[n] = h /\ D[n] = View(h)
      BY <2>2, <2>3, <2>4 DEF Handover
    <2>6. Parts \subseteq DOMAIN r
      BY <1>2, <2>2 DEF Single
    <2>7. /\ Parts \subseteq DOMAIN h /\ h.inSouth = a /\ h.inWest = b
          /\ h.outNorth = NoFlit /\ h.outEast = NoFlit /\ h.dropped = {}
          /\ h.inCore = r.inCore /\ h.inj = r.inj /\ h.core = r.core
          /\ h.corner = r.corner /\ h.fatal = r.fatal
      BY <2>4, <2>6 DEF Parts
    <2>8. HandedOver(w, n, View(h))
      BY <1>5, <2>1, <2>2, <2>3, <2>7, ViewIs DEF HandedOver
    <2>9. Single(n, h)
      <3>1. Carrier(n, w[n]) /\ Carrier(South(n), w[South(n)]) /\ Carrier(West(n), w[West(n)])
        BY <1>2, <2>1 DEF CycleKeeps
      <3>2. a \in Slot /\ b \in Slot /\ NoFlit \in Slot
        BY <1>5, <2>1, <2>3, <3>1 DEF Carrier, Slot
      <3>3. Carrier(n, View(h))
        BY <2>8, <3>1, <3>2, <2>3, <1>5, <2>1 DEF HandedOver, Carrier
      <3>4. h.corner \in Slot
        BY <1>2, <2>2, <2>7 DEF Single
      <3> QED
        BY <2>7, <3>3, <3>4 DEF Single
    <2> QED
      BY <2>5, <2>8, <2>9
  <1>7. /\ ctx' = H /\ \A n \in Node : H[n] = Handover(c, n)
        /\ lost' = lost \cup DroppedIn(w)
    <2>1. \A n \in Node : ~c[n].fatal
      BY <1>2, <1>5
    <2>2. UNION {c[n].dropped : n \in Node} = DroppedIn(w)
      BY <1>5 DEF DroppedIn
    <2> QED
      BY <1>4, <2>1, <2>2
  <1>8. Views' = D
    BY <1>7 DEF Views
  <1>9. D = [n \in Node |-> D[n]] /\ H = [n \in Node |-> H[n]]
    OBVIOUS
  <1> HIDE DEF D, H
  <1>10. OneRound(Views, w, D)
    BY <1>2, <1>6 DEF OneRound
  <1>11. Keeping(D, sent, got, lost \cup DroppedIn(w))
    BY <1>9, <1>10, KeepingOnRoute DEF OaConserving
  <1> QED
    BY <1>4, <1>6, <1>7, <1>8, <1>9, <1>11 DEF OaConserving

\* *_send_flit.
LEMMA OaConservingOnSend ==
  ASSUME FlowAssumption, OaConserving, NEW f \in Flows, Send(f)
  PROVE  OaConserving'
  <1> DEFINE a == f[1]
  <1>1. a \in Node
    BY FlowIs
  <1>2. PICK C : C = ctx
    OBVIOUS
  <1>3. C = [n \in Node |-> C[n]] /\ \A n \in Node : Single(n, C[n])
    BY <1>2 DEF OaConserving
  <1>4. PICK m \in Marks : ctx' = [C EXCEPT ![a] = Queued(C[a], NextFlit(sent, f, m))]
    BY <1>2 DEF Send, SendFlit, Queued, NextFlit
  <1> DEFINE fc == NextFlit(sent, f, m)
             r == C[a]
             u == Updated(r)
             s == Queued(r, fc)
  <1>5. Single(a, r) /\ Between(a, View(r))
    BY <1>1, <1>2, <1>3 DEF OaConserving, Keeping, Views
  <1>6. s = [u EXCEPT !.inj = Append(@, fc)]
    BY DEF Queued
  <1>7. u.corner = r.corner /\ View(u) = Updated(View(r)) /\ Parts \subseteq DOMAIN u /\ Single(a, u)
    <2>1. Step(a, r, u, NoFlit)
      BY <1>5, OaUpdatedKeeps
    <2> QED
      BY <1>5, <2>1, ViewUpdated DEF Step, Single
  <1>8. View(s) = Queued(View(r), fc) /\ s.corner = r.corner /\ Parts \subseteq DOMAIN s
    <2>1. PICK v : v = u
      OBVIOUS
    <2>2. PICK q : q = Append(v.inj, fc)
      OBVIOUS
    <2>3. s = [v EXCEPT !.inj = q]
      BY <1>6, <2>1, <2>2
    <2>4. Queued(View(r), fc) = [View(v) EXCEPT !.inj = Append(View(v).inj, fc)]
      BY <1>7, <2>1 DEF Queued
    <2>5. View(v).inj = v.inj
      BY <1>7, <2>1, ViewIs
    <2>6. Queued(View(r), fc) = [View(v) EXCEPT !.inj = q]
      BY <2>2, <2>4, <2>5
    <2>7. PICK d : d = Cell(v.corner)
      OBVIOUS
    <2> HIDE DEF s, u, r, fc
    <2>8. s.corner = v.corner /\ Parts \subseteq DOMAIN s
      BY <1>7, <2>1, <2>3 DEF Parts
    <2>9. View(s) = [s EXCEPT !.corner = d] /\ View(v) = [v EXCEPT !.corner = d]
      BY <2>7, <2>8 DEF View
    <2>10. [[v EXCEPT !.inj = q] EXCEPT !.corner = d] = [[v EXCEPT !.corner = d] EXCEPT !.inj = q]
      OBVIOUS
    <2>11. View(s) = Queued(View(r), fc)
      BY <2>3, <2>6, <2>9, <2>10
    <2> QED
      BY <1>7, <2>1, <2>8, <2>11
  <1> DEFINE D == [n \in Node |-> View(ctx'[n])]
  <1>9. /\ ctx' = [n \in Node |-> ctx'[n]] /\ ctx'[a] = s
        /\ \A n \in Node \ {a} : ctx'[n] = C[n]
    BY <1>1, <1>3, <1>4
  <1>10. /\ D = [n \in Node |-> D[n]] /\ D[a] = View(s) /\ Views[a] = View(r)
         /\ \A n \in Node \ {a} : D[n] = Views[n]
    BY <1>1, <1>2, <1>9 DEF Views
  <1>11. Views' = D /\ sent' = [sent EXCEPT ![f] = @ + 1] /\ got' = got /\ lost' = lost
    BY DEF Views, Send, SendFlit
  <1> HIDE DEF s, u, D
  <1>12. SentOne(Views, D, sent, sent', f)
    BY <1>8, <1>10, <1>11 DEF SentOne
  <1>13. Keeping(D, sent', got, lost)
    BY <1>12, KeepingOnSend DEF OaConserving
  <1>14. Single(a, s)
    <2>1. Between(a, D[a])
      BY <1>1, <1>13 DEF Keeping
    <2> QED
      BY <1>5, <1>8, <1>10, <2>1 DEF Single, Between
  <1> QED
    BY <1>3, <1>9, <1>11, <1>13, <1>14 DEF OaConserving

\* *_recv_flit.
LEMMA OaConservingOnRecv ==
  ASSUME FlowAssumption, OaConserving, NEW f \in Flows, Recv(f)
  PROVE  OaConserving'
  <1> DEFINE a == f[2]
             q == ctx[a].core
  <1>1. a \in Node
    BY FlowIs
  <1>2. PICK C : C = ctx
    OBVIOUS
  <1>3. C = [n \in Node |-> C[n]] /\ \A n \in Node : Single(n, C[n])
    BY <1>2 DEF OaConserving
  <1>4. Single(a, C[a]) /\ Between(a, View(C[a])) /\ View(C[a]).core = q
    BY <1>1, <1>2, <1>3, ViewIs DEF OaConserving, Keeping, Views, Single
  <1>5. q \in Seq(Sent) /\ FirstFrom(q, f[1]) # 0
    BY <1>4 DEF Recv, RecvFlit, Between, Carrier
  <1>6. FirstFrom(q, f[1]) \in 1 .. Len(q) /\ q[FirstFrom(q, f[1])].src = f[1]
    <2> HIDE DEF q
    <2> QED
      BY <1>5, FirstFromIs
  <1>7. PICK i \in 1 .. Len(q) : i = FirstFrom(q, f[1])
    BY <1>6
  <1>8. PICK r : r = C[a]
    OBVIOUS
  <1>9. PICK p : p = RemoveAt(r.core, i)
    OBVIOUS
  <1>10. PICK s : s = [r EXCEPT !.core = p]
    OBVIOUS
  <1>11. ctx' = [C EXCEPT ![a] = s] /\ got' = [got EXCEPT ![f] = @ \cup {q[i].seq}]
         /\ sent' = sent /\ lost' = lost
    <2>1. /\ ctx' = [ctx EXCEPT ![a].core = RemoveAt(@, FirstFrom(@, f[1]))]
          /\ got' = [got EXCEPT ![f] = @ \cup {ctx[a].core[FirstFrom(ctx[a].core, f[1])].seq}]
          /\ sent' = sent /\ lost' = lost
      BY DEF Recv, RecvFlit, WithoutFirstFrom
    <2> QED
      BY <1>1, <1>2, <1>3, <1>7, <1>8, <1>9, <1>10, <2>1
  <1>12. s.corner = r.corner /\ Parts \subseteq DOMAIN s
    BY <1>4, <1>8, <1>10 DEF Single, Parts
  <1>13. View(s) = [View(r) EXCEPT !.core = RemoveAt(@, i)]
    <2>1. PICK d : d = Cell(r.corner)
      OBVIOUS
    <2>2. View(s) = [s EXCEPT !.corner = d] /\ View(r) = [r EXCEPT !.corner = d]
      BY <1>12, <2>1 DEF View
    <2>3. [[r EXCEPT !.core = p] EXCEPT !.corner = d] = [[r EXCEPT !.corner = d] EXCEPT !.core = p]
      OBVIOUS
    <2>4. View(r).core = r.core
      BY <1>4, <1>8, ViewIs DEF Single
    <2> QED
      BY <1>9, <1>10, <2>2, <2>3, <2>4
  <1> DEFINE D == [n \in Node |-> View(ctx'[n])]
  <1>14. /\ ctx' = [n \in Node |-> ctx'[n]] /\ ctx'[a] = s
         /\ \A n \in Node \ {a} : ctx'[n] = C[n]
    BY <1>1, <1>3, <1>11
  <1>15. /\ D = [n \in Node |-> D[n]] /\ D[a] = View(s) /\ Views[a] = View(r)
         /\ \A n \in Node \ {a} : D[n] = Views[n]
    BY <1>1, <1>2, <1>8, <1>14 DEF Views
  <1>16. Views' = D
    BY DEF Views
  <1> HIDE DEF D
  <1>17. GotOne(Views, D, got, got', f)
    <2>1. Views[a].core = q
      BY <1>4, <1>8, <1>15
    <2>2. i \in 1 .. Len(Views[a].core) /\ Views[a].core[i].src = f[1]
      BY <1>6, <1>7, <2>1
    <2>3. D[a] = [Views[a] EXCEPT !.core = RemoveAt(@, i)]
      BY <1>13, <1>15
    <2>4. got' = [got EXCEPT ![f] = @ \cup {Views[a].core[i].seq}]
      BY <1>11, <2>1
    <2> HIDE DEF q
    <2> QED
      BY <1>15, <2>2, <2>3, <2>4 DEF GotOne
  <1>18. Keeping(D, sent, got', lost)
    BY <1>17, KeepingOnRecv DEF OaConserving
  <1>19. Single(a, s)
    <2>1. Between(a, D[a])
      BY <1>1, <1>18 DEF Keeping
    <2> QED
      BY <1>4, <1>8, <1>12, <1>15, <2>1 DEF Single, Between
  <1> QED
    BY <1>3, <1>11, <1>14, <1>16, <1>18, <1>19 DEF OaConserving

\* pnoa_init establishes it.
LEMMA OaConservingAtFirst ==
  ASSUME FlowAssumption, Init
  PROVE  OaConserving
  <1>1. /\ ctx = [n \in Node |-> Context(n)]
        /\ sent = [f \in Flows |-> 0] /\ got = [f \in Flows |-> {}] /\ lost = {}
    BY DEF Init, InitWith
  <1> DEFINE D == [n \in Node |-> View(ctx[n])]
  <1>2. \A n \in Node :
          /\ Parts \subseteq DOMAIN ctx[n] /\ ctx[n].corner = NoFlit
          /\ ctx[n].inWest = NoFlit /\ ctx[n].inSouth = NoFlit /\ ctx[n].inCore = NoFlit
          /\ ctx[n].inj = <<>> /\ ctx[n].core = <<>>
          /\ ctx[n].outEast = NoFlit /\ ctx[n].outNorth = NoFlit
          /\ ctx[n].dropped = {} /\ ctx[n].fatal = FALSE
    BY <1>1 DEF Context, Parts, EmptyBuffer
  <1>3. D = [n \in Node |-> D[n]] /\ Views = D /\ \A n \in Node : D[n] = View(ctx[n])
    BY DEF Views
  <1> HIDE DEF D
  <1>4. \A n \in Node :
          /\ Parts \subseteq DOMAIN D[n]
          /\ D[n].inWest = NoFlit /\ D[n].inSouth = NoFlit /\ D[n].inCore = NoFlit
          /\ D[n].inj = <<>> /\ D[n].core = <<>> /\ D[n].corner = <<>>
          /\ D[n].outEast = NoFlit /\ D[n].outNorth = NoFlit
          /\ D[n].dropped = {} /\ D[n].fatal = FALSE
    <2> TAKE n \in Node
    <2>1. PICK r : r = ctx[n]
      OBVIOUS
    <2>2. /\ Parts \subseteq DOMAIN r /\ r.corner = NoFlit /\ D[n] = View(r)
          /\ r.inWest = NoFlit /\ r.inSouth = NoFlit /\ r.inCore = NoFlit
          /\ r.inj = <<>> /\ r.core = <<>>
          /\ r.outEast = NoFlit /\ r.outNorth = NoFlit
          /\ r.dropped = {} /\ r.fatal = FALSE
      BY <1>2, <1>3, <2>1
    <2>3. DOMAIN View(r) = DOMAIN r
      BY DEF View
    <2>4. /\ View(r).inWest = NoFlit /\ View(r).inSouth = NoFlit /\ View(r).inCore = NoFlit
          /\ View(r).inj = <<>> /\ View(r).core = <<>> /\ View(r).corner = <<>>
          /\ View(r).outEast = NoFlit /\ View(r).outNorth = NoFlit /\ View(r).dropped = {}
      BY <2>2, ViewIs DEF Cell
    <2>5. View(r).fatal = FALSE
      BY <2>2 DEF View, Parts
    <2> QED
      BY <2>2, <2>3, <2>4, <2>5
  <1>5. Keeping(D, [f \in Flows |-> 0], [f \in Flows |-> {}], {})
    BY <1>3, <1>4, KeepingAtFirst
  <1>6. \A n \in Node : Single(n, ctx[n])
    <2> TAKE n \in Node
    <2>1. Carrier(n, D[n])
      BY <1>5 DEF Keeping, Between
    <2> QED
      BY <1>2, <1>3, <2>1 DEF Single, Slot
  <1>7. ctx = [n \in Node |-> ctx[n]]
    BY <1>1
  <1>8. Keeping(Views, sent, got, lost)
    BY <1>1, <1>3, <1>5
  <1> QED
    BY <1>6, <1>7, <1>8 DEF OaConserving

\* It contains the conservation of flits.
LEMMA OaConservingMeans ==
  ASSUME OaConserving
  PROVE  Conservation
  <1> DEFINE held == [n \in Node |-> Holds(n)]
  <1>1. PICK C : C = Views
    OBVIOUS
  <1>2. Keeping(C, sent, got, lost)
    BY <1>1 DEF OaConserving
  <1>3. ListedIn(held, C)
    <2>1. ASSUME NEW n \in Node
          PROVE  held[n] \in Seq(Slot) /\ \A f, k : Times(held[n], f, k) = Weight(C[n], f, k)
      <3> DEFINE v == View(ctx[n])
                 p == Store(n)
                 x == ctx[n].corner
      <3>1. Single(n, ctx[n]) /\ Between(n, v) /\ C[n] = v /\ x \in Slot
        BY <1>1 DEF OaConserving, Keeping, Views, Single
      <3>2. /\ v.corner = Cell(x) /\ v.inWest = ctx[n].inWest /\ v.inSouth = ctx[n].inSouth
            /\ v.inCore = ctx[n].inCore /\ v.inj = ctx[n].inj /\ v.core = ctx[n].core
        BY <3>1, ViewIs DEF Single
      <3>3. held[n] = p \o <<x>> /\ Held(v) = p \o Cell(x)
        BY <3>2 DEF Holds, Held, Store
      <3>4. p \in Seq(Slot)
        <4>1. /\ v.inWest \in Slot /\ v.inSouth \in Slot /\ v.inCore \in Slot
              /\ v.inj \in Seq(Slot) /\ v.core \in Seq(Slot)
          BY <3>1 DEF Between, Carrier, Slot
        <4>2. p = <<v.inWest, v.inSouth, v.inCore>> \o v.inj \o v.core
          BY <3>2 DEF Store
        <4> HIDE DEF v, p
        <4> QED
          BY <4>1, <4>2
      <3>5. \A f, k : /\ Times(Cell(x), f, k) = One(x, f, k) /\ Times(<<x>>, f, k) = One(x, f, k)
                      /\ Cell(x) \in Seq(Slot) /\ <<x>> \in Seq(Slot)
        <4>1. <<x>> \in Seq(Slot) /\ \A f, k : Times(<<x>>, f, k) = One(x, f, k)
          BY <3>1, TimesOne
        <4>2. Cell(x) \in Seq(Slot)
          BY <3>1, CellIs DEF Slot
        <4> QED
          BY <3>1, <4>1, <4>2, CellIs
      <3>6. PICK y, z : y = <<x>> /\ z = Cell(x)
        OBVIOUS
      <3> HIDE DEF p, v, x, held
      <3>7. \A f, k : Times(Held(v), f, k) = Weight(v, f, k)
        BY <3>1, HeldIs
      <3>8. y \in Seq(Slot) /\ z \in Seq(Slot)
        BY <3>5, <3>6
      <3>9. \A f, k : /\ Times(p \o y, f, k) = Times(p, f, k) + Times(y, f, k)
                      /\ Times(p \o z, f, k) = Times(p, f, k) + Times(z, f, k)
        BY <3>4, <3>8, TimesConcat
      <3> QED
        BY <3>1, <3>3, <3>4, <3>5, <3>6, <3>7, <3>8, <3>9
    <2>2. DOMAIN held = Node
      OBVIOUS
    <2> HIDE DEF held
    <2> QED
      BY <2>1, <2>2 DEF ListedIn
  <1> HIDE DEF held
  <1>4. \A f, k : IsLost(f, k) <=> InLost(lost, f, k)
    BY DEF IsLost, InLost
  <1>5. \A f \in Flows : \A k \in 1 .. sent[f] :
          Copies(held, f, k) = IF k \in got[f] \/ InLost(lost, f, k) THEN 0 ELSE 1
    BY <1>2, <1>3, KeepingMeans
  <1> QED
    BY <1>4, <1>5 DEF Conservation, Conserved, held

\* In pnoa every flit that was sent is in exactly one place of one router until it is
\* received or lost, on schedule or not.
THEOREM OaConserves == FlowAssumption => (PnoaSpec => []Conservation)
  <1> SUFFICES ASSUME FlowAssumption PROVE PnoaSpec => []Conservation
    OBVIOUS
  <1>1. Init => OaConserving
    BY OaConservingAtFirst
  <1>2. OaConserving /\ [PnoaNext]_vars => OaConserving'
    <2> SUFFICES ASSUME OaConserving, [PnoaNext]_vars PROVE OaConserving'
      OBVIOUS
    <2>1. CASE RouteAll
      BY <2>1, OaConservingOnRoute
    <2>2. ASSUME NEW f \in Flows, Send(f) PROVE OaConserving'
      BY <2>2, OaConservingOnSend
    <2>3. ASSUME NEW f \in Flows, Recv(f) PROVE OaConserving'
      BY <2>3, OaConservingOnRecv
    <2>4. CASE UNCHANGED vars
      BY <2>4 DEF vars, OaConserving, Views
    <2> QED
      BY <2>1, <2>2, <2>3, <2>4 DEF PnoaNext
  <1>3. OaConserving => Conservation
    BY OaConservingMeans
  <1> QED
    BY <1>1, <1>2, <1>3, PTL DEF PnoaSpec

-----------------------------------------------------------------------------
\* The schedule of pnaa.

\* The router of pnaa.c.
Aa == INSTANCE Pnaa

\* What pnaa computes from the number of a phase or of a slot of an even torus:
\* halves of it are added to or taken from the half of the width.
LEMMA OffsetsOfEven ==
  ASSUME NEW half \in Nat, half >= 1, Width = 2 * half
  PROVE  /\ Aa!ColumnOffset(Width - 1) = Width - 1
         /\ \A j \in 1 .. half - 1 : Aa!ColumnOffset(2 * j) = half - j
         /\ \A j \in 0 .. half - 2 : Aa!ColumnOffset(2 * j + 1) = half + j
         /\ \A j \in 0 .. half - 1 : Aa!NodeOffset(2 * j) = half + j
         /\ \A j \in 0 .. half - 2 : Aa!NodeOffset(2 * j + 1) = half - j - 1
  <1>1. Width % 2 = 0 /\ Width \div 2 = half /\ Width \in Nat
    OBVIOUS
  <1>2. \A j \in Nat : (2 * j) % 2 = 0 /\ (2 * j) \div 2 = j /\ (2 * j + 1) % 2 = 1 /\ (2 * j + 1) \div 2 = j
    OBVIOUS
  <1>3. Aa!ColumnOffset(Width - 1) = Width - 1
    BY DEF Aa!ColumnOffset
  <1>4. ASSUME NEW j \in 1 .. half - 1 PROVE Aa!ColumnOffset(2 * j) = half - j
    <2>1. 2 * j # Width - 1 /\ j \in Nat
      OBVIOUS
    <2> QED
      BY <1>1, <1>2, <2>1 DEF Aa!ColumnOffset, Aa!Even
  <1>5. ASSUME NEW j \in 0 .. half - 2 PROVE Aa!ColumnOffset(2 * j + 1) = half + j
    <2>1. 2 * j + 1 # Width - 1 /\ j \in Nat
      OBVIOUS
    <2> QED
      BY <1>1, <1>2, <2>1 DEF Aa!ColumnOffset, Aa!Even
  <1>6. ASSUME NEW j \in 0 .. half - 1 PROVE Aa!NodeOffset(2 * j) = half + j
    <2>1. j \in Nat
      OBVIOUS
    <2> QED
      BY <1>1, <1>2, <2>1 DEF Aa!NodeOffset, Aa!Even
  <1>7. ASSUME NEW j \in 0 .. half - 2 PROVE Aa!NodeOffset(2 * j + 1) = half - j - 1
    <2>1. j \in Nat
      OBVIOUS
    <2> QED
      BY <1>1, <1>2, <2>1 DEF Aa!NodeOffset, Aa!Even
  <1> QED
    BY <1>3, <1>4, <1>5, <1>6, <1>7

\* The schedule of pnaa is complete for every even width: the phases of a round serve
\* every distance to a column, and the slots every distance in a column, once.
THEOREM EvenSchedulesComplete ==
  ASSUME NEW half \in Nat, half >= 1, Width = 2 * half
  PROVE  Aa!ScheduleComplete
  <1> USE OffsetsOfEven
  <1>1. \A i \in Nat : \E j \in Nat : i = 2 * j \/ i = 2 * j + 1
    <2> TAKE i \in Nat
    <2>1. i \div 2 \in Nat /\ (i = 2 * (i \div 2) \/ i = 2 * (i \div 2) + 1)
      OBVIOUS
    <2> QED
      BY <2>1
  <1>2. {Aa!ColumnOffset(p) : p \in 1 .. Width - 1} = 1 .. Width - 1
    <2>1. ASSUME NEW p \in 1 .. Width - 1 PROVE Aa!ColumnOffset(p) \in 1 .. Width - 1
      <3>0. p \in Nat
        OBVIOUS
      <3>1. PICK j \in Nat : p = 2 * j \/ p = 2 * j + 1
        BY <1>1, <3>0
      <3>2. CASE p = 2 * j
        <4>1. j \in 1 .. half - 1
          BY <3>2
        <4> QED
          BY <3>2, <4>1
      <3>3. CASE p = 2 * j + 1 /\ p # Width - 1
        <4>1. j \in 0 .. half - 2
          BY <3>3
        <4> QED
          BY <3>3, <4>1
      <3> QED
        BY <3>1, <3>2, <3>3
    <2>2. ASSUME NEW d \in 1 .. Width - 1 PROVE \E p \in 1 .. Width - 1 : Aa!ColumnOffset(p) = d
      <3>1. CASE d = Width - 1
        BY <3>1
      <3>2. CASE d < half
        <4>1. half - d \in 1 .. half - 1 /\ 2 * (half - d) \in 1 .. Width - 1
          BY <3>2
        <4>2. Aa!ColumnOffset(2 * (half - d)) = half - (half - d)
          BY <4>1
        <4> QED
          BY <4>1, <4>2
      <3>3. CASE d >= half /\ d # Width - 1
        <4>1. d - half \in 0 .. half - 2 /\ 2 * (d - half) + 1 \in 1 .. Width - 1
          BY <3>3
        <4>2. Aa!ColumnOffset(2 * (d - half) + 1) = half + (d - half)
          BY <4>1
        <4> QED
          BY <4>1, <4>2
      <3> QED
        BY <3>1, <3>2, <3>3
    <2> QED
      BY <2>1, <2>2
  <1>3. {Aa!NodeOffset(c) : c \in 0 .. Width - 2} = 1 .. Width - 1
    <2>1. ASSUME NEW c \in 0 .. Width - 2 PROVE Aa!NodeOffset(c) \in 1 .. Width - 1
      <3>0. c \in Nat
        OBVIOUS
      <3>1. PICK j \in Nat : c = 2 * j \/ c = 2 * j + 1
        BY <1>1, <3>0
      <3>2. CASE c = 2 * j
        <4>1. j \in 0 .. half - 1
          BY <3>2
        <4> QED
          BY <3>2, <4>1
      <3>3. CASE c = 2 * j + 1
        <4>1. j \in 0 .. half - 2
          BY <3>3
        <4> QED
          BY <3>3, <4>1
      <3> QED
        BY <3>1, <3>2, <3>3
    <2>2. ASSUME NEW d \in 1 .. Width - 1 PROVE \E c \in 0 .. Width - 2 : Aa!NodeOffset(c) = d
      <3>1. CASE d < half
        <4>1. half - d - 1 \in 0 .. half - 2 /\ 2 * (half - d - 1) + 1 \in 0 .. Width - 2
          BY <3>1
        <4>2. Aa!NodeOffset(2 * (half - d - 1) + 1) = half - (half - d - 1) - 1
          BY <4>1
        <4> QED
          BY <4>1, <4>2
      <3>2. CASE d >= half
        <4>1. d - half \in 0 .. half - 1 /\ 2 * (d - half) \in 0 .. Width - 2
          BY <3>2
        <4>2. Aa!NodeOffset(2 * (d - half)) = half + (d - half)
          BY <4>1
        <4> QED
          BY <4>1, <4>2
      <3> QED
        BY <3>1, <3>2
    <2> QED
      BY <2>1, <2>2
  <1>4. {Aa!HorizontalOffset(c) : c \in 0 .. Width - 1} = 0 .. Width - 1
    <2>1. /\ Aa!HorizontalOffset(Width - 1) = 0
          /\ \A c \in 0 .. Width - 2 : Aa!HorizontalOffset(c) = Aa!NodeOffset(c)
      BY DEF Aa!HorizontalOffset
    <2>2. 0 .. Width - 1 = (0 .. Width - 2) \cup {Width - 1} /\ 0 .. Width - 1 = (1 .. Width - 1) \cup {0}
      OBVIOUS
    <2> QED
      BY <1>3, <2>1, <2>2
  <1> QED
    BY <1>2, <1>3, <1>4 DEF Aa!ScheduleComplete

-----------------------------------------------------------------------------
\* The schedule of pnoa.

\* A flit for a column d columns away is sent in the first of these cycles of a
\* round (the test in front of "core to east"), and is in its column in the second.
Departure(d) == d * (Width - 2)
Arrival(d) == d * (Width - 1)

\* What the schedule asks for.  The columns of a round are served in Width cycles,
\* so a column is not longer than that; and a flit to the sender itself would go
\* round its own column once, against the flits that the schedule sends there.
OnSchedule ==
  /\ Width >= 2 /\ Height <= Width
  /\ \A f \in Flows : f \in Node \X Node /\ f[1] # f[2]

\* The number of columns to the east, and of rows to the north, up to the destination.
Columns(n, fc) == IF X(fc.dest) < X(n) THEN Width + X(fc.dest) - X(n) ELSE X(fc.dest) - X(n)
Rows(n, fc) == IF Y(fc.dest) > Y(n) THEN Y(n) + Height - Y(fc.dest) ELSE Y(n) - Y(fc.dest)

\* The context of a router of pnoa.
Router ==
  [inWest : Slot, inSouth : Slot, inCore : Slot,
   inj : Seq(Sent), corner : Slot, core : Seq(Sent),
   currentCycle : Nat,
   outEast : Slot, outNorth : Slot, signalWest : BOOLEAN,
   signalSouth : BOOLEAN, outCore : BOOLEAN, outCorner : BOOLEAN,
   dropped : SUBSET Sent, fatal : BOOLEAN]

\* Between two cycles the flit in the west input has passed as many columns as
\* cycles since its departure,
WestOnTime(n, r) ==
  r.inWest # NoFlit => \E d \in 1 .. Width - 1 :
    /\ Departure(d) < r.currentCycle /\ r.currentCycle <= Arrival(d)
    /\ Columns(n, r.inWest) = Arrival(d) - r.currentCycle
\* the one in the corner slot has just arrived in its column,
CornerOnTime(n, r) ==
  r.corner # NoFlit =>
    /\ InColumn(n, r.corner) /\ r.corner.dest # n
    /\ \E d \in 0 .. Width - 1 : r.currentCycle = Arrival(d) + 1
\* and the one in the south input left a corner slot h cycles ago.
SouthOnTime(n, r) ==
  r.inSouth # NoFlit =>
    /\ InColumn(n, r.inSouth)
    /\ \E d \in 0 .. Width - 1, h \in 1 .. Height - 1 :
         r.currentCycle = Arrival(d) + 1 + h /\ Rows(n, r.inSouth) < Height - h
\* The same after currentCycle is set back, when the last flits reach their nodes.
SouthInTime(n, r) == r.inSouth # NoFlit /\ r.inSouth.dest # n => SouthOnTime(n, r)
\* The outputs are empty and nothing was replaced; no flit is for its sender.
Idle(r) == r.outEast = NoFlit /\ r.outNorth = NoFlit /\ r.dropped = {} /\ ~r.fatal
ForOthers(n, r) ==
  /\ r.inCore # NoFlit => r.inCore.dest # n
  /\ \A i \in 1 .. Len(r.inj) : r.inj[i].dest # n

\* A flit that a step loses is one for a core whose buffer is full, up to the slot
\* that a second flit takes in the same cycle.
OnlyOverflow == \A fc \in lost' \ lost : CoreSize - Len(ctx[fc.dest].core) <= 1

-----------------------------------------------------------------------------
\* Both are numbers, and d cycles apart: one for every column.
LEMMA DepartureTyped ==
  ASSUME OnSchedule, NEW d \in 0 .. Width - 1
  PROVE  Departure(d) \in Nat /\ Arrival(d) \in Nat /\ Arrival(d) = Departure(d) + d
  <1>1. Width \in Nat /\ Width - 2 \in Nat /\ Width - 1 \in Nat /\ d \in Nat
    BY TorusAssumption DEF OnSchedule
  <1> QED
    BY <1>1 DEF Departure, Arrival

\* Two departures are Width - 2 cycles apart, two arrivals Width - 1.
LEMMA Apart ==
  ASSUME OnSchedule, NEW d \in 0 .. Width - 1, NEW e \in 0 .. Width - 1, d < e
  PROVE  /\ Departure(d) + (Width - 2) <= Departure(e)
         /\ Arrival(d) + (Width - 1) <= Arrival(e)
  <1>1. Width \in Nat /\ Width - 2 \in Nat /\ Width - 1 \in Nat /\ d \in Nat /\ e \in Nat /\ d + 1 <= e
    BY TorusAssumption DEF OnSchedule
  <1>2. ASSUME NEW k \in Nat PROVE d * k + k <= e * k
    <2>1. (d + 1) * k = d * k + k
      BY <1>1
    <2>2. (d + 1) * k <= e * k
      BY <1>1
    <2> QED
      BY <1>1, <2>1, <2>2
  <1> QED
    BY <1>1, <1>2 DEF Departure, Arrival

\* The last arrival leaves Width cycles of the round, in which the flit is taken
\* to its node.
LEMMA RoundIs ==
  ASSUME OnSchedule
  PROVE  RoundTime \in Nat /\ RoundTime = Arrival(Width - 1) + Width
  <1>1. Width \in Nat /\ Width >= 2
    BY TorusAssumption DEF OnSchedule
  <1>2. Width * (Width - 1) = (Width - 1) * (Width - 1) + (Width - 1) /\ Width * (Width - 1) \in Nat
    BY <1>1
  <1> QED
    BY <1>1, <1>2 DEF RoundTime, Arrival

\* All arrivals are early enough in the round for that.
LEMMA ArrivalInRound ==
  ASSUME OnSchedule, NEW d \in 0 .. Width - 1
  PROVE  /\ Arrival(d) + Width <= RoundTime
         /\ d # 0 => Arrival(d) > 0
         /\ Arrival(0) = 0
  <1>1. Width \in Nat /\ Width >= 2 /\ d \in Nat /\ 0 \in 0 .. Width - 1 /\ Width - 1 \in 0 .. Width - 1
    BY TorusAssumption DEF OnSchedule
  <1>2. Arrival(0) = 0
    BY <1>1 DEF Arrival
  <1>3. /\ d # Width - 1 => Arrival(d) + (Width - 1) <= Arrival(Width - 1)
        /\ d # 0 => Arrival(0) + (Width - 1) <= Arrival(d)
    BY <1>1, Apart
  <1> QED
    BY <1>1, <1>2, <1>3, RoundIs, DepartureTyped

\* When the core may put a flit on the east output, no flit from the west passes.
LEMMA EastFree ==
  ASSUME OnSchedule, NEW d \in 1 .. Width - 1, NEW e \in 1 .. Width - 1,
         Departure(d) < Departure(e)
  PROVE  Departure(e) >= Arrival(d)
  <1>1. Width \in Nat /\ d \in 0 .. Width - 1 /\ e \in 0 .. Width - 1
    BY TorusAssumption
  <1>2. d < e
    <2>1. SUFFICES ASSUME e <= d PROVE FALSE
      BY <1>1
    <2>2. e < d => Departure(e) + (Width - 2) <= Departure(d)
      BY <1>1, Apart
    <2> QED
      BY <1>1, <2>1, <2>2, DepartureTyped DEF OnSchedule
  <1>3. d <= Width - 2 /\ Departure(d) + (Width - 2) <= Departure(e)
    BY <1>1, <1>2, Apart
  <1> QED
    BY <1>1, <1>3, DepartureTyped

\* One more than a multiple leaves the remainder 1.
LEMMA OneAfter ==
  ASSUME NEW v \in Nat, v > 1, NEW d \in Nat
  PROVE  (d * v + 1) % v = 1
  <1> DEFINE k == d * v + 1
             q == k \div v
             m == k % v
  <1>1. k \in Nat
    OBVIOUS
  <1>2. k = v * q + m /\ q \in Nat /\ m \in 0 .. v - 1
    <2> HIDE DEF k
    <2> QED
      BY <1>1
  <1>3. d * v + 1 = v * q + m /\ d * v = v * d
    BY <1>2
  <1> HIDE DEF k, q, m
  <1>4. ~(q < d)
    <2>1. SUFFICES ASSUME q < d PROVE FALSE
      OBVIOUS
    <2>2. v * (q + 1) <= v * d /\ v * (q + 1) = v * q + v
      BY <1>2, <2>1
    <2> QED
      BY <1>2, <1>3, <2>2
  <1>5. ~(d < q)
    <2>1. SUFFICES ASSUME d < q PROVE FALSE
      OBVIOUS
    <2>2. v * (d + 1) <= v * q /\ v * (d + 1) = v * d + v
      BY <1>2, <2>1
    <2> QED
      BY <1>2, <1>3, <2>2
  <1>6. q = d
    BY <1>2, <1>4, <1>5
  <1>7. m = 1
    BY <1>2, <1>3, <1>6
  <1> QED
    BY <1>7 DEF m, k

\* A flit in the corner goes north in the next cycle, and none does in cycle 0.
LEMMA CornerSlot ==
  ASSUME OnSchedule, NEW r, NEW d \in 0 .. Width - 1
  PROVE  /\ r.currentCycle = Arrival(d) + 1 => NorthSlot(r)
         /\ r.currentCycle = 0 => ~NorthSlot(r)
  <1>1. Width \in Nat /\ Width >= 2 /\ d \in Nat
    BY TorusAssumption DEF OnSchedule
  <1>2. 0 % (Width - 1) = 0
    BY <1>1
  <1>3. Width > 2 => (d * (Width - 1) + 1) % (Width - 1) = 1
    <2>1. \A v \in Nat : v > 1 => (d * v + 1) % v = 1
      BY OneAfter
    <2> QED
      BY <1>1, <2>1
  <1>4. Arrival(d) + 1 # 0
    BY DepartureTyped
  <1> QED
    BY <1>1, <1>2, <1>3, <1>4 DEF NorthSlot, Arrival

-----------------------------------------------------------------------------
\* A router to the east is one column nearer to the destination,
LEMMA ColumnsLeft ==
  ASSUME NEW n \in Node, NEW fc \in Sent
  PROVE  /\ Columns(n, fc) \in 0 .. Width - 1
         /\ Columns(n, fc) = 0 <=> InColumn(n, fc)
         /\ Columns(West(n), fc) > 0 => Columns(n, fc) = Columns(West(n), fc) - 1
  <1> DEFINE w == IF X(n) = 0 THEN Width - 1 ELSE X(n) - 1
  <1>1. fc.dest \in Node
    BY DEF Sent
  <1>2. X(n) \in 0 .. Width - 1 /\ X(fc.dest) \in 0 .. Width - 1 /\ Y(n) \in 0 .. Height - 1
    BY <1>1, Coordinates
  <1>3. w \in 0 .. Width - 1 /\ Width \in Nat
    BY <1>2, TorusAssumption
  <1>4. X(West(n)) = w
    <2>1. West(n) = RankOf(w, Y(n))
      BY DEF West
    <2> HIDE DEF w
    <2> QED
      BY <1>2, <1>3, <2>1, CoordinatesOfRank
  <1> QED
    BY <1>2, <1>3, <1>4 DEF Columns, InColumn

\* and one to the north one row nearer.
LEMMA RowsLeft ==
  ASSUME NEW n \in Node, NEW fc \in Sent
  PROVE  /\ Rows(n, fc) \in 0 .. Height - 1
         /\ InColumn(n, fc) => (Rows(n, fc) = 0 <=> fc.dest = n)
         /\ InColumn(South(n), fc) => InColumn(n, fc)
         /\ Rows(South(n), fc) > 0 => Rows(n, fc) = Rows(South(n), fc) - 1
  <1> DEFINE s == IF Y(n) = Height - 1 THEN 0 ELSE Y(n) + 1
  <1>1. fc.dest \in Node
    BY DEF Sent
  <1>2. /\ X(n) \in 0 .. Width - 1 /\ Y(fc.dest) \in 0 .. Height - 1 /\ Y(n) \in 0 .. Height - 1
        /\ RankOf(X(n), Y(n)) = n /\ RankOf(X(fc.dest), Y(fc.dest)) = fc.dest
    BY <1>1, Coordinates, RankOfCoordinates
  <1>3. s \in 0 .. Height - 1 /\ Height \in Nat
    BY <1>2, TorusAssumption
  <1>4. X(South(n)) = X(n) /\ Y(South(n)) = s
    <2>1. South(n) = RankOf(X(n), s)
      BY DEF South
    <2> HIDE DEF s
    <2> QED
      BY <1>2, <1>3, <2>1, CoordinatesOfRank
  <1>5. InColumn(n, fc) => (Y(fc.dest) = Y(n) <=> fc.dest = n)
    BY <1>2 DEF InColumn
  <1> QED
    BY <1>2, <1>3, <1>4, <1>5 DEF Rows, InColumn

-----------------------------------------------------------------------------
\* What is left behind the oldest flit of a buffer.
LEMMA TailIsSeq ==
  ASSUME NEW S, NEW q \in Seq(S), q # <<>>
  PROVE  /\ Tail(q) \in Seq(S) /\ Head(q) \in S /\ Len(Tail(q)) = Len(q) - 1 /\ Len(q) > 0
         /\ Head(q) = q[1] /\ \A i \in 1 .. Len(q) - 1 : Tail(q)[i] = q[i + 1]
  OBVIOUS

\* Preparing the core's next flit, pnoa_updateInjectionQueue.
LEMMA UpdatedIs ==
  ASSUME NEW r \in Router, NEW n
  PROVE  /\ Updated(r) \in Router
         /\ Updated(r).inWest = r.inWest /\ Updated(r).inSouth = r.inSouth
         /\ Updated(r).corner = r.corner /\ Updated(r).core = r.core
         /\ Updated(r).currentCycle = r.currentCycle
         /\ Idle(r) => Idle(Updated(r))
         /\ ForOthers(n, r) => ForOthers(n, Updated(r))
  <1>1. CASE r.inCore # NoFlit
    BY <1>1 DEF Updated
  <1>2. CASE r.inCore = NoFlit
    <2> DEFINE a == Oldest(r.inj)
               b == Dequeued(r.inj)
    <2>1. r.inj \in Seq(Sent)
      BY DEF Router
    <2>2. /\ a \in Slot /\ b \in Seq(Sent)
          /\ (\A i \in 1 .. Len(r.inj) : r.inj[i].dest # n) =>
                /\ a # NoFlit => a.dest # n
                /\ \A i \in 1 .. Len(b) : b[i].dest # n
      <3>1. CASE r.inj = <<>>
        BY <2>1, <3>1 DEF Slot, Oldest, Dequeued, EmptyBuffer
      <3>2. CASE r.inj # <<>>
        BY <2>1, <3>2, TailIsSeq DEF Slot, Oldest, Dequeued, EmptyBuffer
      <3> QED
        BY <3>1, <3>2
    <2>3. Updated(r) = [r EXCEPT !.inCore = a, !.inj = b]
      BY <1>2 DEF Updated
    <2> HIDE DEF a, b
    <2>4. Updated(r) \in Router
      BY <2>2, <2>3 DEF Router
    <2>5. /\ Updated(r).inWest = r.inWest /\ Updated(r).inSouth = r.inSouth
          /\ Updated(r).corner = r.corner /\ Updated(r).core = r.core
          /\ Updated(r).currentCycle = r.currentCycle
          /\ Updated(r).inCore = a /\ Updated(r).inj = b
          /\ Updated(r).outEast = r.outEast /\ Updated(r).outNorth = r.outNorth
          /\ Updated(r).dropped = r.dropped /\ Updated(r).fatal = r.fatal
      BY <2>3 DEF Router
    <2> QED
      BY <2>2, <2>4, <2>5 DEF Idle, ForOthers
  <1> QED
    BY <1>1, <1>2

\* The begin of a cycle, at the end of a round with all rings empty.
LEMMA NewRoundIs ==
  ASSUME OnSchedule, NEW n \in Node, NEW r \in Router, r.currentCycle \in 0 .. RoundTime,
         WestOnTime(n, r), CornerOnTime(n, r), SouthOnTime(n, r)
  PROVE  /\ NewRound(r) \in Router
         /\ NewRound(r).currentCycle = IF r.currentCycle = RoundTime THEN 0 ELSE r.currentCycle
         /\ NewRound(r).core = r.core
         /\ Idle(r) => Idle(NewRound(r))
         /\ ForOthers(n, r) => ForOthers(n, NewRound(r))
         /\ WestOnTime(n, NewRound(r)) /\ CornerOnTime(n, NewRound(r)) /\ SouthInTime(n, NewRound(r))
  <1> DEFINE s == NewRound(r)
             t == IF r.currentCycle = RoundTime THEN 0 ELSE r.currentCycle
  <1>0. RoundTime \in Nat /\ Width \in Nat /\ Height \in Nat /\ Width >= 2 /\ Height <= Width
    BY RoundIs, TorusAssumption DEF OnSchedule
  <1>1. t \in Nat
    BY <1>0
  <1>2. s = [r EXCEPT !.currentCycle = t]
    BY DEF NewRound
  <1> HIDE DEF s
  <1>3. /\ s \in Router /\ s.currentCycle = t /\ s.core = r.core
        /\ s.inWest = r.inWest /\ s.inSouth = r.inSouth /\ s.corner = r.corner
        /\ s.inCore = r.inCore /\ s.inj = r.inj
        /\ s.outEast = r.outEast /\ s.outNorth = r.outNorth
        /\ s.dropped = r.dropped /\ s.fatal = r.fatal
    BY <1>1, <1>2 DEF Router
  <1>4. CASE r.currentCycle # RoundTime
    BY <1>3, <1>4 DEF s, Idle, ForOthers, WestOnTime, CornerOnTime, SouthOnTime, SouthInTime
  <1>5. CASE r.currentCycle = RoundTime
    <2>1. r.inWest = NoFlit
      BY <1>0, <1>5, ArrivalInRound, DepartureTyped DEF WestOnTime
    <2>2. r.corner = NoFlit
      BY <1>0, <1>5, ArrivalInRound, DepartureTyped DEF CornerOnTime
    <2>3. r.inSouth # NoFlit => r.inSouth.dest = n
      <3>1. SUFFICES ASSUME r.inSouth # NoFlit PROVE r.inSouth.dest = n
        OBVIOUS
      <3>2. PICK d \in 0 .. Width - 1, h \in 1 .. Height - 1 :
              r.currentCycle = Arrival(d) + 1 + h /\ Rows(n, r.inSouth) < Height - h
        BY <3>1 DEF SouthOnTime
      <3>3. Arrival(d) \in Nat /\ Arrival(d) + Width <= RoundTime
        BY ArrivalInRound, DepartureTyped
      <3>4. Rows(n, r.inSouth) < 1
        BY <1>0, <1>5, <3>2, <3>3
      <3>5. r.inSouth \in Sent
        BY <3>1 DEF Router, Slot
      <3> QED
        BY <1>0, <3>1, <3>4, <3>5, RowsLeft DEF SouthOnTime
    <2> QED
      BY <1>3, <2>1, <2>2, <2>3 DEF s, Idle, ForOthers, WestOnTime, CornerOnTime, SouthInTime
  <1> QED
    BY <1>4, <1>5

-----------------------------------------------------------------------------
\* The flit on the east output is on time too, with this column before it,
EastOnTime(n, r) ==
  r.outEast # NoFlit => \E d \in 1 .. Width - 1 :
    /\ Departure(d) <= r.currentCycle /\ r.currentCycle < Arrival(d)
    /\ Columns(n, r.outEast) = Arrival(d) - r.currentCycle

\* and as long as only the core has used the output, it departs in this cycle.
EastDeparts(r) ==
  r.outEast # NoFlit => \E d \in 1 .. Width - 1 : r.currentCycle = Departure(d)

\* The corner's flit is the core's of cycle 0, or leaves at once.
CornerInTime(n, r) ==
  r.corner # NoFlit =>
    /\ InColumn(n, r.corner) /\ r.corner.dest # n
    /\ r.currentCycle = 0 \/ \E d \in 0 .. Width - 1 : r.currentCycle = Arrival(d) + 1

\* The core sends its flit, into free places.
LEMMA CoreInputIs ==
  ASSUME OnSchedule, NEW n \in Node, NEW r \in Router, Idle(r), ForOthers(n, r),
         CornerOnTime(n, r)
  PROVE  /\ CoreInput(n, r) \in Router
         /\ CoreInput(n, r).inWest = r.inWest /\ CoreInput(n, r).inSouth = r.inSouth
         /\ CoreInput(n, r).core = r.core
         /\ CoreInput(n, r).currentCycle = r.currentCycle
         /\ CoreInput(n, r).outNorth = NoFlit /\ CoreInput(n, r).dropped = {}
         /\ ~CoreInput(n, r).fatal
         /\ ForOthers(n, CoreInput(n, r))
         /\ EastOnTime(n, CoreInput(n, r))
         /\ EastDeparts(CoreInput(n, r))
         /\ CornerInTime(n, CoreInput(n, r))
  <1> DEFINE s == CoreInput(n, r)
             fc == r.inCore
  <1>0. /\ r.inCore \in Slot /\ r.currentCycle \in Nat /\ Width \in Nat /\ Width >= 2
        /\ r.outEast = NoFlit /\ r.outNorth = NoFlit /\ r.dropped = {} /\ ~r.fatal
    BY TorusAssumption DEF Router, Idle, OnSchedule
  <1>1. CASE fc = NoFlit
    <2>1. s = r
      BY <1>1 DEF CoreInput
    <2> QED
      BY <1>0, <2>1 DEF CornerOnTime, EastOnTime, EastDeparts, CornerInTime
  <1>2. CASE fc # NoFlit /\ InColumn(n, fc) /\ r.currentCycle = 0
    <2>1. r.corner = NoFlit
      BY <1>0, <1>2, DepartureTyped DEF CornerOnTime
    <2>2. s = [r EXCEPT !.inCore = NoFlit, !.dropped = {}, !.corner = fc]
      <3>1. s = IntoCorner([r EXCEPT !.inCore = NoFlit], fc)
        BY <1>2 DEF CoreInput
      <3> DEFINE u == [r EXCEPT !.inCore = NoFlit]
      <3>2. u.dropped = {} /\ u.corner = NoFlit /\ u.dropped \cup ({u.corner} \ {NoFlit}) = {}
        BY <1>0, <2>1 DEF Router
      <3> QED
        BY <3>1, <3>2 DEF IntoCorner, Router
    <2> HIDE DEF s
    <2>3. s \in Router
      BY <1>0, <2>2 DEF Router, Slot
    <2>4. /\ s.inWest = r.inWest /\ s.inSouth = r.inSouth /\ s.core = r.core
          /\ s.currentCycle = r.currentCycle /\ s.outNorth = NoFlit /\ s.outEast = NoFlit
          /\ s.dropped = {} /\ ~s.fatal /\ s.inCore = NoFlit /\ s.inj = r.inj /\ s.corner = fc
      BY <1>0, <2>2 DEF Router
    <2> QED
      BY <1>2, <2>3, <2>4 DEF s, ForOthers, EastOnTime, EastDeparts, CornerInTime
  <1>3. CASE fc # NoFlit /\ ~(InColumn(n, fc) /\ r.currentCycle = 0) /\ EastSlot(n, r)
    <2>2. s = [r EXCEPT !.inCore = NoFlit, !.dropped = {}, !.outEast = fc]
      <3>1. s = IntoEast([r EXCEPT !.inCore = NoFlit], fc)
        BY <1>3 DEF CoreInput
      <3> DEFINE u == [r EXCEPT !.inCore = NoFlit]
      <3>2. u.dropped = {} /\ u.outEast = NoFlit /\ u.dropped \cup ({u.outEast} \ {NoFlit}) = {}
        BY <1>0 DEF Router
      <3> QED
        BY <3>1, <3>2 DEF IntoEast, Router
    <2> HIDE DEF s
    <2>3. s \in Router
      BY <1>0, <2>2 DEF Router, Slot
    <2>4. /\ s.inWest = r.inWest /\ s.inSouth = r.inSouth /\ s.core = r.core
          /\ s.currentCycle = r.currentCycle /\ s.outNorth = NoFlit /\ s.outEast = fc
          /\ s.dropped = {} /\ ~s.fatal /\ s.inCore = NoFlit /\ s.inj = r.inj /\ s.corner = r.corner
      BY <1>0, <2>2 DEF Router
    <2>5. /\ Distance(n, fc) \in 1 .. Width - 1 /\ r.currentCycle = Departure(Distance(n, fc))
          /\ Columns(n, fc) = Distance(n, fc)
      <3>1. fc.dest \in Node
        BY <1>0, <1>3 DEF Slot, Sent
      <3>2. X(fc.dest) \in 0 .. Width - 1 /\ X(n) \in 0 .. Width - 1
        BY <3>1, Coordinates
      <3> QED
        BY <1>0, <1>3, <3>2 DEF EastSlot, Distance, Columns, Departure
    <2>6. PICK d \in 1 .. Width - 1 : r.currentCycle = Departure(d) /\ Columns(n, fc) = d
      BY <2>5
    <2>7. Departure(d) < Arrival(d) /\ Columns(n, fc) = Arrival(d) - Departure(d)
      BY <1>0, <2>6, DepartureTyped
    <2>8. EastOnTime(n, s)
      BY <1>0, <2>4, <2>6, <2>7 DEF EastOnTime
    <2> QED
      BY <2>3, <2>4, <2>6, <2>8 DEF s, ForOthers, CornerOnTime, EastDeparts, CornerInTime
  <1>4. CASE fc # NoFlit /\ ~(InColumn(n, fc) /\ r.currentCycle = 0) /\ ~EastSlot(n, r)
    <2>1. s = r
      BY <1>4 DEF CoreInput
    <2> QED
      BY <1>0, <2>1 DEF CornerOnTime, EastOnTime, EastDeparts, CornerInTime
  <1> QED
    BY <1>1, <1>2, <1>3, <1>4

\* A flit is in the corner behind the cycle of an arrival, the core's too.
CornerFilled(n, r) ==
  r.corner # NoFlit =>
    /\ InColumn(n, r.corner) /\ r.corner.dest # n
    /\ \E d \in 0 .. Width - 1 : r.currentCycle = Arrival(d)
\* The corner slot sends it in the cycle after that.
NorthDeparts(n, r) ==
  r.outNorth # NoFlit =>
    /\ InColumn(n, r.outNorth) /\ r.outNorth.dest # n
    /\ \E d \in 0 .. Width - 1 : r.currentCycle = Arrival(d) + 1

\* The corner slot sends north before a flit from the west comes into it.
LEMMA CornerInputIs ==
  ASSUME OnSchedule, NEW n \in Node, NEW r \in Router,
         r.outNorth = NoFlit, r.dropped = {}, CornerInTime(n, r)
  PROVE  /\ CornerInput(r) \in Router
         /\ CornerInput(r).inWest = r.inWest /\ CornerInput(r).inSouth = r.inSouth
         /\ CornerInput(r).inCore = r.inCore /\ CornerInput(r).inj = r.inj
         /\ CornerInput(r).core = r.core /\ CornerInput(r).currentCycle = r.currentCycle
         /\ CornerInput(r).outEast = r.outEast /\ CornerInput(r).fatal = r.fatal
         /\ CornerInput(r).dropped = {}
         /\ CornerFilled(n, CornerInput(r)) /\ NorthDeparts(n, CornerInput(r))
         /\ CornerInput(r).corner # NoFlit => r.currentCycle = 0
  <1> DEFINE s == CornerInput(r)
  <1>0. Arrival(0) = 0 /\ 0 \in 0 .. Width - 1
    <2>1. 0 \in 0 .. Width - 1
      BY TorusAssumption
    <2> QED
      BY <2>1, ArrivalInRound
  <1>1. CASE r.corner = NoFlit
    <2>1. s = r
      BY <1>1 DEF CornerInput
    <2> QED
      BY <1>1, <2>1 DEF CornerFilled, NorthDeparts
  <1>2. CASE r.corner # NoFlit /\ r.currentCycle = 0
    <2>1. s = r
      BY <1>0, <1>2, CornerSlot DEF CornerInput
    <2> QED
      BY <1>0, <1>2, <2>1 DEF CornerInTime, CornerFilled, NorthDeparts
  <1>3. CASE r.corner # NoFlit /\ r.currentCycle # 0
    <2>1. NorthSlot(r)
      BY <1>3, CornerSlot DEF CornerInTime
    <2>2. s = [r EXCEPT !.corner = NoFlit, !.dropped = {}, !.outNorth = r.corner]
      <3>1. s = IntoNorth([r EXCEPT !.corner = NoFlit], r.corner)
        BY <1>3, <2>1 DEF CornerInput
      <3> DEFINE u == [r EXCEPT !.corner = NoFlit]
      <3>2. u.dropped = {} /\ u.outNorth = NoFlit /\ u.dropped \cup ({u.outNorth} \ {NoFlit}) = {}
        BY DEF Router
      <3> QED
        BY <3>1, <3>2 DEF IntoNorth, Router
    <2> HIDE DEF s
    <2>3. s \in Router
      BY <2>2 DEF Router, Slot
    <2>4. /\ s.inWest = r.inWest /\ s.inSouth = r.inSouth /\ s.core = r.core
          /\ s.currentCycle = r.currentCycle /\ s.outNorth = r.corner /\ s.outEast = r.outEast
          /\ s.dropped = {} /\ s.fatal = r.fatal /\ s.inCore = r.inCore /\ s.inj = r.inj /\ s.corner = NoFlit
      BY <2>2 DEF Router
    <2> QED
      BY <1>3, <2>3, <2>4 DEF s, CornerInTime, CornerFilled, NorthDeparts
  <1> QED
    BY <1>1, <1>2, <1>3

\* A flit taken by the core, or lost because the core buffer is full.
LEMMA ToCoreOrLostIs ==
  ASSUME NEW r \in Router, NEW fc \in Sent, CoreSize \in Nat
  PROVE  /\ ToCoreOrLost(r, fc) \in Router
         /\ ToCoreOrLost(r, fc).inSouth = r.inSouth /\ ToCoreOrLost(r, fc).inCore = r.inCore
         /\ ToCoreOrLost(r, fc).inj = r.inj /\ ToCoreOrLost(r, fc).corner = r.corner
         /\ ToCoreOrLost(r, fc).currentCycle = r.currentCycle
         /\ ToCoreOrLost(r, fc).outEast = r.outEast /\ ToCoreOrLost(r, fc).outNorth = r.outNorth
         /\ ToCoreOrLost(r, fc).fatal = r.fatal
         /\ Len(ToCoreOrLost(r, fc).core) <= Len(r.core) + 1
         /\ \/ ToCoreOrLost(r, fc).dropped = r.dropped
            \/ Len(r.core) >= CoreSize /\ ToCoreOrLost(r, fc).dropped = r.dropped \cup {fc}
  <1> DEFINE s == ToCoreOrLost(r, fc)
  <1>1. r.core \in Seq(Sent) /\ Len(r.core) \in Nat
    BY DEF Router
  <1>2. CASE HasSlot(r.core, CoreSize)
    <2>1. s = [r EXCEPT !.core = Append(@, fc), !.outCore = TRUE]
      BY <1>2 DEF ToCoreOrLost
    <2>2. Append(r.core, fc) \in Seq(Sent) /\ Len(Append(r.core, fc)) = Len(r.core) + 1
      BY <1>1
    <2> HIDE DEF s
    <2>3. s \in Router
      BY <2>1, <2>2 DEF Router
    <2>4. /\ s.inSouth = r.inSouth /\ s.inCore = r.inCore /\ s.inj = r.inj /\ s.corner = r.corner
          /\ s.currentCycle = r.currentCycle /\ s.outEast = r.outEast /\ s.outNorth = r.outNorth
          /\ s.fatal = r.fatal /\ s.dropped = r.dropped /\ s.core = Append(r.core, fc)
      BY <2>1 DEF Router
    <2> QED
      BY <1>1, <2>2, <2>3, <2>4 DEF s
  <1>3. CASE ~HasSlot(r.core, CoreSize)
    <2>1. s = [r EXCEPT !.dropped = @ \cup {fc}, !.outCore = TRUE]
      BY <1>3 DEF ToCoreOrLost
    <2> HIDE DEF s
    <2>3. s \in Router
      <3>1. r.dropped \cup {fc} \in SUBSET Sent
        BY DEF Router
      <3> QED
        BY <2>1, <3>1 DEF Router
    <2>4. /\ s.inSouth = r.inSouth /\ s.inCore = r.inCore /\ s.inj = r.inj /\ s.corner = r.corner
          /\ s.currentCycle = r.currentCycle /\ s.outEast = r.outEast /\ s.outNorth = r.outNorth
          /\ s.fatal = r.fatal /\ s.dropped = r.dropped \cup {fc} /\ s.core = r.core
      BY <2>1 DEF Router
    <2>5. Len(r.core) >= CoreSize
      BY <1>1, <1>3 DEF HasSlot
    <2> QED
      BY <1>1, <2>3, <2>4, <2>5 DEF s
  <1> QED
    BY <1>2, <1>3

\* From the west to the core, into the corner slot, which is free then, or to the
\* east output, which the core has not taken.
LEMMA WestInputIs ==
  ASSUME OnSchedule, NEW n \in Node, NEW r \in Router, CoreSize \in Nat, r.dropped = {},
         WestOnTime(n, r), EastOnTime(n, r), EastDeparts(r),
         CornerFilled(n, r), r.corner # NoFlit => r.currentCycle = 0
  PROVE  /\ WestInput(n, r) \in Router
         /\ WestInput(n, r).inSouth = r.inSouth
         /\ WestInput(n, r).inCore = r.inCore /\ WestInput(n, r).inj = r.inj
         /\ WestInput(n, r).currentCycle = r.currentCycle
         /\ WestInput(n, r).outNorth = r.outNorth /\ WestInput(n, r).fatal = r.fatal
         /\ Len(WestInput(n, r).core) <= Len(r.core) + 1
         /\ \A fc \in WestInput(n, r).dropped : fc.dest = n /\ Len(r.core) >= CoreSize
         /\ EastOnTime(n, WestInput(n, r)) /\ CornerFilled(n, WestInput(n, r))
  <1> DEFINE s == WestInput(n, r)
             fc == r.inWest
  <1>0. r.currentCycle \in Nat /\ Width \in Nat /\ Width >= 2 /\ r.core \in Seq(Sent) /\ Len(r.core) \in Nat
    BY TorusAssumption DEF Router, OnSchedule
  <1>1. CASE fc = NoFlit
    <2>1. s = r
      BY <1>1 DEF WestInput
    <2> QED
      BY <1>0, <2>1
  <1>2. CASE fc # NoFlit
    <2>0. fc \in Sent
      BY <1>2 DEF Router, Slot
    <2>1. PICK d \in 1 .. Width - 1 :
            /\ Departure(d) < r.currentCycle /\ r.currentCycle <= Arrival(d)
            /\ Columns(n, fc) = Arrival(d) - r.currentCycle
      BY <1>2 DEF WestOnTime
    <2>2. /\ d \in 0 .. Width - 1 /\ Departure(d) \in Nat /\ Arrival(d) \in Nat
          /\ Columns(n, fc) \in 0 .. Width - 1 /\ (Columns(n, fc) = 0 <=> InColumn(n, fc))
      BY <1>0, <2>0, ColumnsLeft, DepartureTyped
    <2>3. CASE fc.dest = n
      <3>1. s = ToCoreOrLost(r, fc)
        BY <1>2, <2>3 DEF WestInput
      <3> HIDE DEF s
      <3> QED
        BY <2>0, <2>3, <3>1, ToCoreOrLostIs DEF s, EastOnTime, CornerFilled
    <2>4. CASE fc.dest # n /\ InColumn(n, fc)
      <3>1. r.corner = NoFlit /\ r.currentCycle = Arrival(d)
        BY <1>0, <2>1, <2>2, <2>4
      <3>2. s = [r EXCEPT !.dropped = {}, !.corner = fc]
        <4>1. s = IntoCorner(r, fc)
          BY <1>2, <2>4 DEF WestInput
        <4>2. r.dropped \cup ({r.corner} \ {NoFlit}) = {}
          BY <3>1
        <4> QED
          BY <4>1, <4>2 DEF IntoCorner
      <3> HIDE DEF s
      <3>3. s \in Router
        BY <2>0, <3>2 DEF Router, Slot
      <3>4. /\ s.inSouth = r.inSouth /\ s.core = r.core
            /\ s.currentCycle = r.currentCycle /\ s.outNorth = r.outNorth /\ s.outEast = r.outEast
            /\ s.dropped = {} /\ s.fatal = r.fatal /\ s.inCore = r.inCore /\ s.inj = r.inj /\ s.corner = fc
        BY <3>2 DEF Router
      <3>5. CornerFilled(n, s)
        BY <2>2, <2>4, <3>1, <3>4 DEF CornerFilled
      <3> QED
        BY <1>0, <3>3, <3>4, <3>5 DEF s, EastOnTime
    <2>5. CASE fc.dest # n /\ ~InColumn(n, fc)
      <3>1. r.currentCycle < Arrival(d)
        BY <1>0, <2>1, <2>2, <2>5
      <3>2. r.outEast = NoFlit
        <4>1. SUFFICES ASSUME r.outEast # NoFlit PROVE FALSE
          OBVIOUS
        <4>2. PICK e \in 1 .. Width - 1 : r.currentCycle = Departure(e)
          BY <4>1 DEF EastDeparts
        <4>3. Departure(e) >= Arrival(d)
          BY <2>1, <4>2, EastFree
        <4> QED
          BY <1>0, <2>2, <3>1, <4>2, <4>3
      <3>3. s = [r EXCEPT !.dropped = {}, !.outEast = fc]
        <4>1. s = IntoEast(r, fc)
          BY <1>2, <2>5 DEF WestInput
        <4>2. r.dropped \cup ({r.outEast} \ {NoFlit}) = {}
          BY <3>2
        <4> QED
          BY <4>1, <4>2 DEF IntoEast
      <3> HIDE DEF s
      <3>4. s \in Router
        BY <2>0, <3>3 DEF Router, Slot
      <3>5. /\ s.inSouth = r.inSouth /\ s.core = r.core
            /\ s.currentCycle = r.currentCycle /\ s.outNorth = r.outNorth /\ s.outEast = fc
            /\ s.dropped = {} /\ s.fatal = r.fatal /\ s.inCore = r.inCore /\ s.inj = r.inj /\ s.corner = r.corner
        BY <3>3 DEF Router
      <3>6. EastOnTime(n, s)
        BY <1>0, <2>1, <2>2, <3>1, <3>5 DEF EastOnTime
      <3> QED
        BY <1>0, <3>4, <3>5, <3>6 DEF s, CornerFilled
    <2> QED
      BY <2>3, <2>4, <2>5
  <1> QED
    BY <1>1, <1>2

\* The flit on the north output left a corner slot h cycles ago.
NorthOnTime(n, r) ==
  r.outNorth # NoFlit =>
    /\ InColumn(n, r.outNorth) /\ Rows(n, r.outNorth) > 0
    /\ \E d \in 0 .. Width - 1, h \in 0 .. Height - 2 :
         r.currentCycle = Arrival(d) + 1 + h /\ Rows(n, r.outNorth) < Height - h

\* So does one that leaves the corner slot now.
LEMMA DepartsOnTime ==
  ASSUME OnSchedule, NEW n \in Node, NEW r \in Router, NorthDeparts(n, r)
  PROVE  NorthOnTime(n, r)
  <1>1. SUFFICES ASSUME r.outNorth # NoFlit PROVE NorthOnTime(n, r)
    BY DEF NorthOnTime
  <1>2. r.outNorth \in Sent /\ Height \in Nat
    BY <1>1, TorusAssumption DEF Router, Slot
  <1>3. Rows(n, r.outNorth) \in 0 .. Height - 1 /\ Rows(n, r.outNorth) > 0
    BY <1>1, <1>2, RowsLeft DEF NorthDeparts
  <1>4. PICK d \in 0 .. Width - 1 : r.currentCycle = Arrival(d) + 1
    BY <1>1 DEF NorthDeparts
  <1>5. 0 \in 0 .. Height - 2 /\ r.currentCycle = Arrival(d) + 1 + 0 /\ Rows(n, r.outNorth) < Height - 0
    BY <1>2, <1>3, <1>4, DepartureTyped
  <1> QED
    BY <1>1, <1>3, <1>5 DEF NorthOnTime, NorthDeparts

\* From the south to the core, or to the north output, which no corner has taken.
LEMMA SouthTurnIs ==
  ASSUME OnSchedule, NEW n \in Node, NEW r \in Router, CoreSize \in Nat,
         SouthInTime(n, r), NorthDeparts(n, r)
  PROVE  /\ SouthTurn(n, r) \in Router
         /\ SouthTurn(n, r).inCore = r.inCore /\ SouthTurn(n, r).inj = r.inj
         /\ SouthTurn(n, r).currentCycle = r.currentCycle
         /\ SouthTurn(n, r).corner = r.corner
         /\ SouthTurn(n, r).outEast = r.outEast /\ SouthTurn(n, r).fatal = r.fatal
         /\ \A fc \in SouthTurn(n, r).dropped :
              fc \in r.dropped \/ (fc.dest = n /\ Len(r.core) >= CoreSize)
         /\ NorthOnTime(n, SouthTurn(n, r))
  <1> DEFINE s == SouthTurn(n, r)
             fc == r.inSouth
  <1>0. /\ r.currentCycle \in Nat /\ Width \in Nat /\ Height \in Nat /\ Width >= 2 /\ Height <= Width
        /\ NorthOnTime(n, r)
    BY TorusAssumption, DepartsOnTime DEF Router, OnSchedule
  <1>1. CASE fc = NoFlit
    <2>1. s = r
      BY <1>1 DEF SouthTurn
    <2> QED
      BY <1>0, <2>1
  <1>2. CASE fc # NoFlit /\ fc.dest = n
    <2>0. fc \in Sent
      BY <1>2 DEF Router, Slot
    <2>1. s = ToCoreOrLost(r, fc)
      BY <1>2 DEF SouthTurn
    <2> HIDE DEF s
    <2> QED
      BY <1>0, <1>2, <2>0, <2>1, ToCoreOrLostIs DEF s, NorthOnTime
  <1>3. CASE fc # NoFlit /\ fc.dest # n
    <2>0. fc \in Sent
      BY <1>3 DEF Router, Slot
    <2>1. InColumn(n, fc)
      BY <1>3 DEF SouthInTime, SouthOnTime
    <2>2. PICK d \in 0 .. Width - 1, h \in 1 .. Height - 1 :
            r.currentCycle = Arrival(d) + 1 + h /\ Rows(n, fc) < Height - h
      BY <1>3 DEF SouthInTime, SouthOnTime
    <2>3. Rows(n, fc) \in 0 .. Height - 1 /\ Rows(n, fc) > 0 /\ Arrival(d) \in Nat
      BY <1>3, <2>0, <2>1, RowsLeft, DepartureTyped
    <2>4. h \in 0 .. Height - 2
      BY <1>0, <2>2, <2>3
    <2>5. r.outNorth = NoFlit
      <3>1. SUFFICES ASSUME r.outNorth # NoFlit PROVE FALSE
        OBVIOUS
      <3>2. PICK e \in 0 .. Width - 1 : r.currentCycle = Arrival(e) + 1
        BY <3>1 DEF NorthDeparts
      <3>3. Arrival(e) = Arrival(d) + h /\ Arrival(e) \in Nat
        BY <2>2, <2>3, <3>2, DepartureTyped
      <3>4. /\ d < e => Arrival(d) + (Width - 1) <= Arrival(e)
            /\ e < d => Arrival(e) + (Width - 1) <= Arrival(d)
        BY Apart
      <3>5. d # e
        BY <2>2, <2>3, <3>3
      <3> QED
        BY <1>0, <2>3, <2>4, <3>3, <3>4, <3>5
    <2>6. s = [r EXCEPT !.dropped = r.dropped, !.outNorth = fc]
      <3>1. s = IntoNorth(r, fc)
        BY <1>3 DEF SouthTurn
      <3>2. r.dropped \cup ({r.outNorth} \ {NoFlit}) = r.dropped
        BY <2>5
      <3> QED
        BY <3>1, <3>2 DEF IntoNorth
    <2> HIDE DEF s
    <2>7. s \in Router
      BY <2>0, <2>6 DEF Router, Slot
    <2>8. /\ s.currentCycle = r.currentCycle /\ s.outNorth = fc /\ s.outEast = r.outEast
          /\ s.dropped = r.dropped /\ s.fatal = r.fatal /\ s.inCore = r.inCore /\ s.inj = r.inj
          /\ s.corner = r.corner
      BY <2>6 DEF Router
    <2>9. NorthOnTime(n, s)
      BY <2>1, <2>2, <2>3, <2>4, <2>8 DEF NorthOnTime
    <2> QED
      BY <2>7, <2>8, <2>9 DEF s
  <1> QED
    BY <1>1, <1>2, <1>3

-----------------------------------------------------------------------------
\* The outputs at the end of a cycle, when currentCycle counts the next one.
EastNext(n, r) ==
  r.outEast # NoFlit => \E d \in 1 .. Width - 1 :
    /\ Departure(d) < r.currentCycle /\ r.currentCycle <= Arrival(d)
    /\ Columns(n, r.outEast) = Arrival(d) - r.currentCycle + 1
NorthNext(n, r) ==
  r.outNorth # NoFlit =>
    /\ InColumn(n, r.outNorth) /\ Rows(n, r.outNorth) > 0
    /\ \E d \in 0 .. Width - 1, h \in 1 .. Height - 1 :
         r.currentCycle = Arrival(d) + 1 + h /\ Rows(n, r.outNorth) <= Height - h

\* Counting the cycle makes one out of the other.
LEMMA EndIs ==
  ASSUME OnSchedule, NEW n \in Node, NEW r \in Router,
         EastOnTime(n, r), NorthOnTime(n, r), CornerFilled(n, r)
  PROVE  LET s == [r EXCEPT !.currentCycle = @ + 1]
         IN  /\ s \in Router /\ s.currentCycle = r.currentCycle + 1
             /\ s.inCore = r.inCore /\ s.inj = r.inj /\ s.dropped = r.dropped /\ s.fatal = r.fatal
             /\ EastNext(n, s) /\ NorthNext(n, s) /\ CornerOnTime(n, s)
  <1> DEFINE s == [r EXCEPT !.currentCycle = @ + 1]
             t == r.currentCycle
  <1>1. /\ t \in Nat /\ Width \in Nat /\ Height \in Nat
        /\ \A d \in 0 .. Width - 1 : Departure(d) \in Nat /\ Arrival(d) \in Nat
    BY TorusAssumption, DepartureTyped DEF Router
  <1>2. /\ s \in Router /\ s.currentCycle = t + 1 /\ s.inCore = r.inCore /\ s.inj = r.inj
        /\ s.dropped = r.dropped /\ s.fatal = r.fatal /\ s.corner = r.corner
        /\ s.outEast = r.outEast /\ s.outNorth = r.outNorth
    BY <1>1 DEF Router
  <1> HIDE DEF s
  <1>3. EastNext(n, s)
    <2>1. SUFFICES ASSUME r.outEast # NoFlit PROVE EastNext(n, s)
      BY <1>2 DEF EastNext
    <2>2. PICK d \in 1 .. Width - 1 :
            Departure(d) <= t /\ t < Arrival(d) /\ Columns(n, r.outEast) = Arrival(d) - t
      BY <2>1 DEF EastOnTime
    <2>3. /\ Departure(d) < t + 1 /\ t + 1 <= Arrival(d)
          /\ Columns(n, r.outEast) = Arrival(d) - (t + 1) + 1
      BY <1>1, <2>2
    <2> QED
      BY <1>2, <2>3 DEF EastNext
  <1>4. NorthNext(n, s)
    <2>1. SUFFICES ASSUME r.outNorth # NoFlit PROVE NorthNext(n, s)
      BY <1>2 DEF NorthNext
    <2>2. PICK d \in 0 .. Width - 1, h \in 0 .. Height - 2 :
            t = Arrival(d) + 1 + h /\ Rows(n, r.outNorth) < Height - h
      BY <2>1 DEF NorthOnTime
    <2>3. r.outNorth \in Sent
      BY <2>1 DEF Router, Slot
    <2>4. Rows(n, r.outNorth) \in 0 .. Height - 1
      BY <2>3, RowsLeft
    <2>5. /\ h + 1 \in 1 .. Height - 1 /\ t + 1 = Arrival(d) + 1 + (h + 1)
          /\ Rows(n, r.outNorth) <= Height - (h + 1)
      BY <1>1, <2>2, <2>4
    <2> QED
      BY <1>2, <2>1, <2>5 DEF NorthNext, NorthOnTime
  <1>5. CornerOnTime(n, s)
    BY <1>1, <1>2 DEF CornerOnTime, CornerFilled
  <1> QED
    BY <1>2, <1>3, <1>4, <1>5 DEF s

\* All of it for one router, between two cycles.
RouterOnTime(n, r) ==
  /\ Idle(r) /\ ForOthers(n, r)
  /\ WestOnTime(n, r) /\ CornerOnTime(n, r) /\ SouthOnTime(n, r)

\* pnoa_route_one_cycle: nothing is replaced, what is dropped found no room.
LEMMA CycleIs ==
  ASSUME OnSchedule, CoreSize \in Nat, NEW n \in Node, ctx[n] \in Router,
         ctx[n].currentCycle \in 0 .. RoundTime, RouterOnTime(n, ctx[n])
  PROVE  /\ Cycle(n) \in Router /\ ~Cycle(n).fatal /\ ForOthers(n, Cycle(n))
         /\ Cycle(n).currentCycle =
              (IF ctx[n].currentCycle = RoundTime THEN 0 ELSE ctx[n].currentCycle) + 1
         /\ EastNext(n, Cycle(n)) /\ NorthNext(n, Cycle(n)) /\ CornerOnTime(n, Cycle(n))
         /\ \A fc \in Cycle(n).dropped : fc.dest = n /\ Len(ctx[n].core) + 1 >= CoreSize
  <1> DEFINE u == Updated(ctx[n])
             now == IF ctx[n].currentCycle = RoundTime THEN 0 ELSE ctx[n].currentCycle
             a == NewRound(u)
             b == CoreInput(n, a)
             c == CornerInput(b)
             d == WestInput(n, c)
             e == SouthTurn(n, d)
  <1>1. /\ u \in Router /\ u.currentCycle = ctx[n].currentCycle /\ u.core = ctx[n].core
        /\ Idle(u) /\ ForOthers(n, u) /\ WestOnTime(n, u) /\ CornerOnTime(n, u) /\ SouthOnTime(n, u)
    <2>1. /\ u \in Router /\ u.currentCycle = ctx[n].currentCycle /\ u.core = ctx[n].core
          /\ Idle(u) /\ ForOthers(n, u)
          /\ u.inWest = ctx[n].inWest /\ u.inSouth = ctx[n].inSouth /\ u.corner = ctx[n].corner
      BY UpdatedIs DEF RouterOnTime
    <2> HIDE DEF u
    <2> QED
      BY <2>1 DEF RouterOnTime, WestOnTime, CornerOnTime, SouthOnTime
  <1> HIDE DEF u
  <1>2. /\ a \in Router /\ a.currentCycle = now /\ a.core = ctx[n].core
        /\ Idle(a) /\ ForOthers(n, a)
        /\ WestOnTime(n, a) /\ CornerOnTime(n, a) /\ SouthInTime(n, a)
    BY <1>1, NewRoundIs
  <1> HIDE DEF a, now
  <1>3. /\ b \in Router /\ b.inWest = a.inWest /\ b.inSouth = a.inSouth /\ b.core = a.core
        /\ b.currentCycle = a.currentCycle /\ b.outNorth = NoFlit /\ b.dropped = {} /\ ~b.fatal
        /\ ForOthers(n, b) /\ EastOnTime(n, b) /\ EastDeparts(b) /\ CornerInTime(n, b)
    BY <1>2, CoreInputIs
  <1> HIDE DEF b
  <1>4. /\ c \in Router /\ c.inWest = b.inWest /\ c.inSouth = b.inSouth
        /\ c.inCore = b.inCore /\ c.inj = b.inj /\ c.core = b.core
        /\ c.currentCycle = b.currentCycle /\ c.outEast = b.outEast /\ c.fatal = b.fatal
        /\ c.dropped = {} /\ CornerFilled(n, c) /\ NorthDeparts(n, c)
        /\ c.corner # NoFlit => c.currentCycle = 0
    BY <1>3, CornerInputIs
  <1> HIDE DEF c
  <1>5. WestOnTime(n, c) /\ EastOnTime(n, c) /\ EastDeparts(c)
    BY <1>2, <1>3, <1>4 DEF WestOnTime, EastOnTime, EastDeparts
  <1>6. /\ d \in Router /\ d.inSouth = c.inSouth /\ d.inCore = c.inCore /\ d.inj = c.inj
        /\ d.currentCycle = c.currentCycle /\ d.outNorth = c.outNorth /\ d.fatal = c.fatal
        /\ Len(d.core) <= Len(c.core) + 1
        /\ \A fc \in d.dropped : fc.dest = n /\ Len(c.core) >= CoreSize
        /\ EastOnTime(n, d) /\ CornerFilled(n, d)
    BY <1>4, <1>5, WestInputIs
  <1> HIDE DEF d
  <1>7. SouthInTime(n, d) /\ NorthDeparts(n, d)
    BY <1>2, <1>3, <1>4, <1>6 DEF SouthInTime, SouthOnTime, NorthDeparts
  <1>8. /\ e \in Router /\ e.inCore = d.inCore /\ e.inj = d.inj
        /\ e.currentCycle = d.currentCycle /\ e.corner = d.corner
        /\ e.outEast = d.outEast /\ e.fatal = d.fatal
        /\ \A fc \in e.dropped : fc \in d.dropped \/ (fc.dest = n /\ Len(d.core) >= CoreSize)
        /\ NorthOnTime(n, e)
    BY <1>6, <1>7, SouthTurnIs
  <1> HIDE DEF e
  <1>9. EastOnTime(n, e) /\ CornerFilled(n, e)
    BY <1>6, <1>8 DEF EastOnTime, CornerFilled
  <1>10. Cycle(n) = [e EXCEPT !.currentCycle = @ + 1]
    BY DEF Cycle, e, d, c, b, a, u
  <1>11. /\ Cycle(n) \in Router /\ Cycle(n).currentCycle = e.currentCycle + 1
         /\ Cycle(n).inCore = e.inCore /\ Cycle(n).inj = e.inj /\ Cycle(n).dropped = e.dropped
         /\ Cycle(n).fatal = e.fatal
         /\ EastNext(n, Cycle(n)) /\ NorthNext(n, Cycle(n)) /\ CornerOnTime(n, Cycle(n))
    BY <1>8, <1>9, <1>10, EndIs
  <1>12. ForOthers(n, Cycle(n))
    BY <1>3, <1>4, <1>6, <1>8, <1>11 DEF ForOthers
  <1>13. /\ Len(ctx[n].core) \in Nat /\ Len(c.core) \in Nat /\ Len(d.core) \in Nat /\ c.core = ctx[n].core
    BY <1>2, <1>3, <1>4, <1>6 DEF Router
  <1>14. \A fc \in Cycle(n).dropped : fc.dest = n /\ Len(ctx[n].core) + 1 >= CoreSize
    BY <1>6, <1>8, <1>11, <1>13
  <1> QED
    BY <1>2, <1>3, <1>4, <1>6, <1>8, <1>11, <1>12, <1>14 DEF now

-----------------------------------------------------------------------------
\* The inductive invariant: all routers are in the same cycle of the round, and
\* every flit is where the schedule wants it.
PnoaInv ==
  /\ ctx \in [Node -> Router] /\ sent \in [Flows -> Nat]
  /\ \E t \in 0 .. RoundTime : \A n \in Node : ctx[n].currentCycle = t
  /\ \A n \in Node : RouterOnTime(n, ctx[n])

\* noc_init_all starts all routers in cycle 0, empty.
LEMMA PnoaInit == OnSchedule /\ Init => PnoaInv
  <1> SUFFICES ASSUME OnSchedule, Init PROVE PnoaInv
    OBVIOUS
  <1>1. ctx = [n \in Node |-> Context(n)] /\ sent = [f \in Flows |-> 0]
    BY DEF Init, InitWith
  <1>2. ASSUME NEW n \in Node PROVE Context(n) \in Router
    BY DEF Context, Router, Slot, EmptyBuffer
  <1>3. 0 \in 0 .. RoundTime
    BY RoundIs
  <1>4. ASSUME NEW n \in Node PROVE ctx[n].currentCycle = 0 /\ RouterOnTime(n, ctx[n])
    <2>1. ctx[n] = Context(n)
      BY <1>1
    <2> QED
      BY <2>1 DEF Context, RouterOnTime, Idle, ForOthers, WestOnTime, CornerOnTime, SouthOnTime, EmptyBuffer
  <1> QED
    BY <1>1, <1>2, <1>3, <1>4 DEF PnoaInv

\* The exchange at the end of a cycle puts every flit where it is one step nearer.
LEMMA HandoverIs ==
  ASSUME OnSchedule, NEW t \in Nat, NEW c, NEW n \in Node,
         \A m \in Node : /\ c[m] \in Router /\ ~c[m].fatal /\ ForOthers(m, c[m])
                         /\ c[m].currentCycle = t
                         /\ EastNext(m, c[m]) /\ NorthNext(m, c[m]) /\ CornerOnTime(m, c[m])
  PROVE  /\ Handover(c, n) \in Router /\ Handover(c, n).currentCycle = t
         /\ RouterOnTime(n, Handover(c, n))
  <1> DEFINE s == Handover(c, n)
             w == c[West(n)].outEast
             v == c[South(n)].outNorth
  <1>1. West(n) \in Node /\ South(n) \in Node
    BY Neighbours
  <1>2. /\ w \in Slot /\ v \in Slot /\ c[West(n)] \in Router /\ c[South(n)] \in Router
        /\ c[West(n)].currentCycle = t /\ c[South(n)].currentCycle = t
        /\ EastNext(West(n), c[West(n)]) /\ NorthNext(South(n), c[South(n)])
    BY <1>1 DEF Router
  <1>3. c[n] \in Router /\ Width \in Nat /\ Height \in Nat
    BY TorusAssumption
  <1>4. s = [c[n] EXCEPT !.inSouth = v, !.inWest = w,
               !.outNorth = NoFlit, !.outEast = NoFlit,
               !.signalWest = FALSE, !.signalSouth = FALSE,
               !.outCore = FALSE, !.outCorner = FALSE, !.dropped = {}]
    BY DEF Handover
  <1> HIDE DEF s, w, v
  <1>5. s \in Router
    <2>1. w \in Slot /\ v \in Slot /\ c[n] \in Router /\ NoFlit \in Slot
      BY <1>2, <1>3 DEF Slot
    <2> HIDE DEF Slot
    <2> QED
      BY <1>4, <2>1 DEF Router
  <1>6. /\ s.inSouth = v /\ s.inWest = w /\ s.outNorth = NoFlit /\ s.outEast = NoFlit
        /\ s.dropped = {} /\ s.fatal = c[n].fatal /\ s.currentCycle = t
        /\ s.corner = c[n].corner /\ s.inCore = c[n].inCore /\ s.inj = c[n].inj
    BY <1>3, <1>4 DEF Router
  <1>7. WestOnTime(n, s)
    <2>1. SUFFICES ASSUME w # NoFlit PROVE WestOnTime(n, s)
      BY <1>6 DEF WestOnTime
    <2>2. PICK d \in 1 .. Width - 1 :
            Departure(d) < t /\ t <= Arrival(d) /\ Columns(West(n), w) = Arrival(d) - t + 1
      BY <1>2, <2>1 DEF EastNext, w
    <2>3. w \in Sent /\ Arrival(d) \in Nat
      BY <1>2, <1>3, <2>1, DepartureTyped DEF Slot
    <2>4. Columns(n, w) = Columns(West(n), w) - 1
      BY <2>2, <2>3, ColumnsLeft
    <2>5. Columns(n, w) = Arrival(d) - t
      BY <2>2, <2>3, <2>4
    <2> QED
      BY <1>6, <2>2, <2>5 DEF WestOnTime
  <1>8. SouthOnTime(n, s)
    <2>1. SUFFICES ASSUME v # NoFlit PROVE SouthOnTime(n, s)
      BY <1>6 DEF SouthOnTime
    <2>2. InColumn(South(n), v) /\ Rows(South(n), v) > 0
      BY <1>2, <2>1 DEF NorthNext, v
    <2>3. PICK d \in 0 .. Width - 1, h \in 1 .. Height - 1 :
            t = Arrival(d) + 1 + h /\ Rows(South(n), v) <= Height - h
      BY <1>2, <2>1 DEF NorthNext, v
    <2>4. v \in Sent
      BY <1>2, <2>1 DEF Slot
    <2>5. InColumn(n, v) /\ Rows(n, v) = Rows(South(n), v) - 1 /\ Rows(South(n), v) \in 0 .. Height - 1
      BY <1>1, <2>2, <2>4, RowsLeft
    <2>6. Rows(n, v) < Height - h
      BY <1>3, <2>3, <2>5
    <2> QED
      BY <1>6, <2>3, <2>5, <2>6 DEF SouthOnTime
  <1>9. CornerOnTime(n, s) /\ ForOthers(n, s) /\ Idle(s)
    <2>1. c[n].currentCycle = t /\ CornerOnTime(n, c[n]) /\ ForOthers(n, c[n]) /\ ~c[n].fatal
      OBVIOUS
    <2> QED
      BY <1>6, <2>1 DEF CornerOnTime, ForOthers, Idle
  <1> QED
    BY <1>5, <1>6, <1>7, <1>8, <1>9 DEF RouterOnTime, s

\* noc_route_all.
LEMMA PnoaRoute ==
  ASSUME OnSchedule, CoreSize \in Nat, PnoaInv, RouteAll
  PROVE  PnoaInv' /\ OnlyOverflow
  <1>1. PICK t \in 0 .. RoundTime : \A n \in Node : ctx[n].currentCycle = t
    BY DEF PnoaInv
  <1> DEFINE now == IF t = RoundTime THEN 0 ELSE t
             c == [n \in Node |-> Cycle(n)]
  <1>2. RoundTime \in Nat /\ RoundTime > 0 /\ now + 1 \in 0 .. RoundTime /\ now + 1 \in Nat
    <2>1. RoundTime \in Nat /\ RoundTime > 0
      <3>1. Width \in Nat /\ Width >= 2 /\ Width - 1 \in 0 .. Width - 1
        BY TorusAssumption DEF OnSchedule
      <3> QED
        BY <3>1, RoundIs, DepartureTyped
    <2> QED
      BY <2>1
  <1>3. ASSUME NEW n \in Node
        PROVE  /\ Cycle(n) \in Router /\ ~Cycle(n).fatal /\ ForOthers(n, Cycle(n))
               /\ Cycle(n).currentCycle = now + 1
               /\ EastNext(n, Cycle(n)) /\ NorthNext(n, Cycle(n)) /\ CornerOnTime(n, Cycle(n))
               /\ \A fc \in Cycle(n).dropped : fc.dest = n /\ Len(ctx[n].core) + 1 >= CoreSize
    <2>1. ctx[n] \in Router /\ ctx[n].currentCycle = t /\ RouterOnTime(n, ctx[n])
      BY <1>1 DEF PnoaInv
    <2> QED
      BY <1>1, <2>1, CycleIs
  <1> HIDE DEF now
  <1>4. \A n \in Node : c[n] = Cycle(n)
    OBVIOUS
  <1>5. \A m \in Node : /\ c[m] \in Router /\ ~c[m].fatal /\ ForOthers(m, c[m])
                        /\ c[m].currentCycle = now + 1
                        /\ EastNext(m, c[m]) /\ NorthNext(m, c[m]) /\ CornerOnTime(m, c[m])
                        /\ \A fc \in c[m].dropped : fc.dest = m /\ Len(ctx[m].core) + 1 >= CoreSize
    BY <1>3, <1>4
  <1>6. /\ ctx' = [n \in Node |-> Handover(c, n)]
        /\ lost' = lost \cup UNION {c[n].dropped : n \in Node}
        /\ UNCHANGED <<sent, got>>
    <2>1. ~(\E n \in Node : c[n].fatal)
      BY <1>5
    <2> HIDE DEF c
    <2>2. \E b \in {c} :
            IF \E n \in Node : b[n].fatal
            THEN stopped' = TRUE /\ UNCHANGED <<ctx, lost>>
            ELSE /\ ctx' = [n \in Node |-> Handover(b, n)]
                 /\ lost' = lost \cup UNION {b[n].dropped : n \in Node}
                 /\ UNCHANGED stopped
      BY DEF RouteAll, RouteWith, c
    <2>3. UNCHANGED <<sent, got>>
      BY DEF RouteAll, RouteWith
    <2> QED
      BY <2>1, <2>2, <2>3
  <1> HIDE DEF c
  <1>7. ASSUME NEW n \in Node
        PROVE  /\ ctx'[n] \in Router /\ ctx'[n].currentCycle = now + 1 /\ RouterOnTime(n, ctx'[n])
    <2>1. ctx'[n] = Handover(c, n)
      BY <1>6
    <2>2. \A m \in Node : /\ c[m] \in Router /\ ~c[m].fatal /\ ForOthers(m, c[m])
                          /\ c[m].currentCycle = now + 1
                          /\ EastNext(m, c[m]) /\ NorthNext(m, c[m]) /\ CornerOnTime(m, c[m])
      BY <1>5
    <2>3. /\ Handover(c, n) \in Router /\ Handover(c, n).currentCycle = now + 1
          /\ RouterOnTime(n, Handover(c, n))
      BY <1>2, <2>2, HandoverIs
    <2> QED
      BY <2>1, <2>3
  <1>8. ctx' \in [Node -> Router] /\ sent' \in [Flows -> Nat]
    BY <1>6, <1>7 DEF PnoaInv
  <1>9. PnoaInv'
    BY <1>2, <1>7, <1>8 DEF PnoaInv
  <1>10. OnlyOverflow
    <2>1. SUFFICES ASSUME NEW fc \in lost' \ lost
                   PROVE  CoreSize - Len(ctx[fc.dest].core) <= 1
      BY DEF OnlyOverflow
    <2>2. PICK n \in Node : fc \in c[n].dropped
      BY <1>6, <2>1
    <2>3. fc.dest = n /\ Len(ctx[n].core) + 1 >= CoreSize
      BY <1>5, <2>2
    <2>4. Len(ctx[n].core) \in Nat
      BY DEF PnoaInv, Router
    <2> QED
      BY <2>3, <2>4
  <1> QED
    BY <1>9, <1>10

\* noc_send_flit: the flit waits in the injection buffer.
LEMMA PnoaSend ==
  ASSUME OnSchedule, PnoaInv, NEW f \in Flows, Send(f)
  PROVE  PnoaInv' /\ OnlyOverflow
  <1> DEFINE n == f[1]
             r == Updated(ctx[n])
  <1>1. n \in Node /\ f[2] \in Node /\ f[2] # n
    BY DEF OnSchedule
  <1>2. ctx[n] \in Router /\ RouterOnTime(n, ctx[n]) /\ sent[f] + 1 \in Nat
    BY <1>1 DEF PnoaInv
  <1>3. /\ r \in Router /\ r.currentCycle = ctx[n].currentCycle
        /\ r.inWest = ctx[n].inWest /\ r.inSouth = ctx[n].inSouth /\ r.corner = ctx[n].corner
        /\ Idle(r) /\ ForOthers(n, r)
    BY <1>2, UpdatedIs DEF RouterOnTime
  <1>4. PICK m \in Marks :
          ctx' = [ctx EXCEPT ![n] = [r EXCEPT !.inj =
            Append(@, [src |-> n, dest |-> f[2], seq |-> sent[f] + 1, marked |-> m])]]
    BY DEF Send, SendFlit
  <1> DEFINE fc == [src |-> n, dest |-> f[2], seq |-> sent[f] + 1, marked |-> m]
             q == Append(r.inj, fc)
             s == [r EXCEPT !.inj = q]
  <1>5. fc \in Sent /\ fc.dest # n
    BY <1>1, <1>2 DEF Sent
  <1>6. ctx' = [ctx EXCEPT ![n] = s]
    BY <1>4
  <1> HIDE DEF r, fc
  <1>7. r.inj \in Seq(Sent)
    BY <1>3 DEF Router
  <1>8. /\ q \in Seq(Sent)
        /\ (\A i \in 1 .. Len(r.inj) : r.inj[i].dest # n) => \A i \in 1 .. Len(q) : q[i].dest # n
    BY <1>5, <1>7
  <1> HIDE DEF q
  <1>9. /\ s \in Router /\ s.currentCycle = r.currentCycle
        /\ s.inWest = r.inWest /\ s.inSouth = r.inSouth /\ s.corner = r.corner
        /\ s.inCore = r.inCore /\ s.inj = q /\ s.outEast = r.outEast /\ s.outNorth = r.outNorth
        /\ s.dropped = r.dropped /\ s.fatal = r.fatal
    BY <1>3, <1>8 DEF Router
  <1> HIDE DEF s
  <1>10. RouterOnTime(n, s)
    BY <1>2, <1>3, <1>8, <1>9
       DEF RouterOnTime, Idle, ForOthers, WestOnTime, CornerOnTime, SouthOnTime
  <1>11. /\ ctx' \in [Node -> Router] /\ ctx'[n] = s
         /\ \A k \in Node \ {n} : ctx'[k] = ctx[k]
    BY <1>1, <1>6, <1>9 DEF PnoaInv
  <1>12. sent' \in [Flows -> Nat] /\ lost' = lost
    BY <1>2 DEF Send, SendFlit, PnoaInv
  <1>13. \A k \in Node : /\ ctx'[k].currentCycle = ctx[k].currentCycle
                         /\ RouterOnTime(k, ctx'[k])
    BY <1>3, <1>9, <1>10, <1>11 DEF PnoaInv
  <1>14. PnoaInv'
    BY <1>11, <1>12, <1>13 DEF PnoaInv
  <1> QED
    BY <1>12, <1>14 DEF OnlyOverflow

\* The core buffer without the flit that was taken.
LEMMA FirstTaken ==
  ASSUME NEW q \in Seq(Sent), NEW s, FirstFrom(q, s) # 0
  PROVE  WithoutFirstFrom(q, s) \in Seq(Sent)
  <1>1. FirstFrom(q, s) \in 1 .. Len(q)
    BY FirstFromIs
  <1> QED
    BY <1>1 DEF WithoutFirstFrom, RemoveAt

\* noc_recv_flit.
LEMMA PnoaRecv ==
  ASSUME OnSchedule, PnoaInv, NEW f \in Flows, Recv(f)
  PROVE  PnoaInv' /\ OnlyOverflow
  <1> DEFINE n == f[2]
             r == ctx[n]
             q == WithoutFirstFrom(r.core, f[1])
             s == [r EXCEPT !.core = q]
  <1>1. n \in Node
    BY DEF OnSchedule
  <1>2. r \in Router /\ RouterOnTime(n, r)
    BY <1>1 DEF PnoaInv
  <1>3. q \in Seq(Sent)
    <2>1. r.core \in Seq(Sent) /\ FirstFrom(r.core, f[1]) # 0
      BY <1>2 DEF Router, Recv, RecvFlit
    <2> QED
      BY <2>1, FirstTaken
  <1>4. ctx' = [ctx EXCEPT ![n] = s] /\ lost' = lost /\ sent' = sent
    BY DEF Recv, RecvFlit
  <1> HIDE DEF q
  <1>5. /\ s \in Router /\ s.currentCycle = r.currentCycle
        /\ s.inWest = r.inWest /\ s.inSouth = r.inSouth /\ s.corner = r.corner
        /\ s.inCore = r.inCore /\ s.inj = r.inj /\ s.outEast = r.outEast /\ s.outNorth = r.outNorth
        /\ s.dropped = r.dropped /\ s.fatal = r.fatal
    BY <1>2, <1>3 DEF Router
  <1> HIDE DEF s
  <1>6. RouterOnTime(n, s)
    BY <1>2, <1>5
       DEF RouterOnTime, Idle, ForOthers, WestOnTime, CornerOnTime, SouthOnTime
  <1>7. /\ ctx' \in [Node -> Router] /\ ctx'[n] = s
        /\ \A k \in Node \ {n} : ctx'[k] = ctx[k]
    BY <1>1, <1>4, <1>5 DEF PnoaInv
  <1>8. \A k \in Node : /\ ctx'[k].currentCycle = ctx[k].currentCycle
                        /\ RouterOnTime(k, ctx'[k])
    BY <1>5, <1>6, <1>7 DEF PnoaInv
  <1>9. PnoaInv'
    BY <1>4, <1>7, <1>8 DEF PnoaInv
  <1> QED
    BY <1>4, <1>9 DEF OnlyOverflow

\* In pnoa no flit replaces another one in a corner slot or on a ring, although
\* pnoa.c never asks whether the place is free: the only flits that get lost are
\* those for which the destination's core buffer has no room.
THEOREM NothingCollides ==
  ASSUME OnSchedule, CoreSize \in Nat
  PROVE  PnoaSpec => [][OnlyOverflow]_vars
  <1>1. Init => PnoaInv
    BY PnoaInit
  <1>2. PnoaInv /\ [PnoaNext]_vars => PnoaInv' /\ [OnlyOverflow]_vars
    <2> SUFFICES ASSUME PnoaInv, [PnoaNext]_vars
                 PROVE  PnoaInv' /\ [OnlyOverflow]_vars
      OBVIOUS
    <2>1. CASE RouteAll
      BY <2>1, PnoaRoute
    <2>2. ASSUME NEW f \in Flows, Send(f) PROVE PnoaInv' /\ OnlyOverflow
      BY <2>2, PnoaSend
    <2>3. ASSUME NEW f \in Flows, Recv(f) PROVE PnoaInv' /\ OnlyOverflow
      BY <2>3, PnoaRecv
    <2>4. CASE UNCHANGED vars
      BY <2>4 DEF vars, PnoaInv
    <2> QED
      BY <2>1, <2>2, <2>3, <2>4 DEF PnoaNext
  <1> QED
    BY <1>1, <1>2, PTL DEF PnoaSpec
=============================================================================
