--------------------------- MODULE MpiBarrierProofs ---------------------------
(***************************************************************************)
(* MPI_Barrier is a barrier and its asserts hold, for every number of      *)
(* processes and of rounds.                                                *)
(*                                                                         *)
(* The argument counts flits.  Every channel holds at most one token and   *)
(* one release, and the counters of the processes say which; the token of  *)
(* a round has passed all processes before the root releases one of them.  *)
(***************************************************************************)
EXTENDS MpiBarrier, Integers, SequenceTheorems, WellFoundedInduction, TLAPS

\* The channels of the barrier hold at most two flits; what Append, Head and Tail
\* do to sequences as short as that.
LEMMA ShortSequences ==
  ASSUME NEW S, NEW a \in S, NEW b \in S
  PROVE  /\ Append(<<>>, a) = <<a>> /\ Append(<<a>>, b) = <<a, b>>
         /\ <<a>> # <<>> /\ Head(<<a>>) = a /\ Tail(<<a>>) = <<>>
         /\ <<a, b>> # <<>> /\ Head(<<a, b>>) = a /\ Tail(<<a, b>>) = <<b>>
  <1>1. Append(<<>>, a) = <<a>>
    OBVIOUS
  <1>2. Append(<<a>>, b) = <<a, b>>
    <2>1. <<a>> \in Seq(S) /\ <<a, b>> \in Seq(S) /\ Len(<<a>>) = 1 /\ Len(<<a, b>>) = 2
      OBVIOUS
    <2>2. Append(<<a>>, b) \in Seq(S) /\ Len(Append(<<a>>, b)) = 2
      BY <2>1
    <2>3. ASSUME NEW i \in 1 .. 2 PROVE Append(<<a>>, b)[i] = <<a, b>>[i]
      <3>1. CASE i = 1
        BY <2>1, <3>1
      <3>2. CASE i = 2
        BY <2>1, <3>2
      <3> QED
        BY <3>1, <3>2
    <2> QED
      BY <2>1, <2>2, <2>3, SeqEqual
  <1>3. <<a>> # <<>> /\ Head(<<a>>) = a
    OBVIOUS
  <1>4. Tail(<<a>>) = <<>>
    OBVIOUS
  <1>5. <<a, b>> # <<>> /\ Head(<<a, b>>) = a
    OBVIOUS
  <1>6. Tail(<<a, b>>) = <<b>>
    OBVIOUS
  <1> QED
    BY <1>1, <1>2, <1>3, <1>4, <1>5, <1>6

\* How many tokens a process has sent and taken.
Tokens(p) == entered[p] - (IF pc[p] = "send" \/ (p # 0 /\ pc[p] = "token") THEN 1 ELSE 0)
Taken(p) == entered[p] - (IF pc[p] = "token" \/ (p = 0 /\ pc[p] = "send") THEN 1 ELSE 0)

\* How many releases the root has sent to p.
Told(p) == left[0] + (IF pc[0] = "tell" /\ p < told THEN 1 ELSE 0)

Control ==
  /\ pc[0] # "release"
  /\ pc[0] = "tell" => told < Size
  /\ \A p \in Process : p # 0 => pc[p] # "tell"
  /\ \A p \in Process : left[p] = entered[p] - (IF pc[p] = "out" THEN 0 ELSE 1)

Order ==
  /\ \A p \in Process :
       Taken(p) <= Tokens(Previous(p)) /\ Tokens(Previous(p)) <= Taken(p) + 1
  /\ \A p, q \in Process : p <= q => Tokens(q) <= Tokens(p)
  /\ \A p \in Process : p # 0 => left[p] <= Told(p) /\ Told(p) <= left[p] + 1

TokenPart(p) == IF Taken(p) < Tokens(Previous(p)) THEN <<Previous(p)>> ELSE <<>>
ReleasePart(p) == IF left[p] < Told(p) THEN <<Release>> ELSE <<>>

\* From process 0 to process 1 a token follows a release, never the reverse.
Contents ==
  /\ \A p \in Process : p # 1 => chan[Previous(p)][p] = TokenPart(p)
  /\ \A p \in Process : p > 1 => chan[0][p] = ReleasePart(p)
  /\ chan[0][1] = IF left[1] < Told(1)
                  THEN IF Taken(1) < Tokens(0) THEN <<Release, 0>> ELSE <<Release>>
                  ELSE IF Taken(1) < Tokens(0) THEN <<0>> ELSE <<>>

Inv == TypeOK /\ AssertsHold /\ Control /\ Order /\ Contents

-----------------------------------------------------------------------------
\* The ranks of Previous and Following, without arithmetic modulo Size.
LEMMA Ring ==
  ASSUME NEW p \in Process
  PROVE  /\ Previous(p) \in Process /\ Following(p) \in Process
         /\ Following(p) = IF p = Size - 1 THEN 0 ELSE p + 1
         /\ Previous(Following(p)) = p
         /\ \A q \in Process : Previous(q) = p => q = Following(p)
         /\ Previous(p) # p
         /\ 0 \in Process /\ 1 \in Process /\ Size - 1 \in Process /\ 0 # 1
         /\ Previous(1) = 0
  <1> USE BarrierAssumption
  <1>1. Following(p) = IF p = Size - 1 THEN 0 ELSE p + 1
    BY DEF Process, Following
  <1> QED
    BY <1>1 DEF Process, Previous

\* The counters are numbers.
LEMMA CountersTyped ==
  ASSUME TypeOK, NEW p \in Process
  PROVE  /\ Tokens(p) \in Int /\ Taken(p) \in Int /\ Told(p) \in Int
         /\ entered[p] \in Nat /\ left[p] \in Nat /\ told \in Nat
  <1>1. 0 \in Process /\ Size \in Nat /\ Rounds \in Nat
    BY Ring, BarrierAssumption
  <1>2. entered[p] \in Nat /\ left[p] \in Nat /\ told \in Nat /\ left[0] \in Nat
    BY <1>1 DEF TypeOK
  <1> QED
    BY <1>2 DEF Tokens, Taken, Told

\* The token of a round has passed a process before the root releases anybody.
LEMMA Ahead ==
  ASSUME TypeOK, Control, Order
  PROVE  \A p \in Process :
           /\ Taken(0) <= Tokens(p) /\ Tokens(p) <= entered[p]
           /\ p # 0 => Told(p) <= Taken(0)
           /\ left[p] <= Taken(0) /\ Taken(0) <= Taken(p)
           /\ left[p] <= Taken(p) /\ Taken(p) <= left[p] + 1
           /\ left[p] <= Tokens(p) /\ Tokens(p) <= left[p] + 1
           /\ p # 0 => Tokens(p) <= Taken(p)
  <1> SUFFICES ASSUME NEW p \in Process
               PROVE  /\ Taken(0) <= Tokens(p) /\ Tokens(p) <= entered[p]
                      /\ p # 0 => Told(p) <= Taken(0)
                      /\ left[p] <= Taken(0) /\ Taken(0) <= Taken(p)
                      /\ left[p] <= Taken(p) /\ Taken(p) <= left[p] + 1
                      /\ left[p] <= Tokens(p) /\ Tokens(p) <= left[p] + 1
                      /\ p # 0 => Tokens(p) <= Taken(p)
    OBVIOUS
  <1>1. /\ Tokens(p) \in Int /\ Taken(p) \in Int /\ Taken(0) \in Int
        /\ Tokens(Size - 1) \in Int /\ Told(p) \in Int
        /\ entered[p] \in Nat /\ left[p] \in Nat /\ left[0] \in Nat /\ entered[0] \in Nat
        /\ 0 \in Process /\ Size - 1 \in Process
    BY Ring, CountersTyped
  <1>2. Previous(0) = Size - 1 /\ p <= Size - 1
    BY BarrierAssumption DEF Previous, Process
  <1>3. Taken(0) <= Tokens(Size - 1) /\ Tokens(Size - 1) <= Tokens(p)
    BY <1>1, <1>2 DEF Order
  <1>4. Tokens(p) <= entered[p]
    BY <1>1 DEF Tokens
  <1>5. p # 0 => Told(p) <= Taken(0) /\ left[p] <= Told(p)
    BY <1>1 DEF Order, Told, Taken, Control
  <1>6. left[0] <= Taken(0)
    BY <1>1 DEF Taken, Control
  <1>7. pc[p] \in {"out", "send", "token", "release", "tell"}
    BY DEF TypeOK
  <1>8. /\ left[p] <= Taken(p) /\ Taken(p) <= left[p] + 1
        /\ left[p] <= Tokens(p) /\ Tokens(p) <= left[p] + 1
    BY <1>1, <1>7 DEF Control, Taken, Tokens
  <1>9. p # 0 => Tokens(p) <= Taken(p)
    BY <1>1, <1>7 DEF Taken, Tokens
  <1> QED
    BY <1>1, <1>3, <1>4, <1>5, <1>6, <1>8, <1>9

\* A process that enters sends and takes nothing.
LEMMA EnterKeeps ==
  ASSUME Inv, NEW p \in Process, ~aborted, Enter(p)
  PROVE  Inv'
  <1>0. TypeOK /\ AssertsHold /\ Control /\ Order /\ Contents
    BY DEF Inv
  <1>1. /\ 0 \in Process /\ left[p] \in Nat /\ entered[p] \in Nat /\ Rounds \in Nat
        /\ left[p] = entered[p]
    BY <1>0, Ring, CountersTyped, BarrierAssumption DEF Enter, Control
  <1>2. TypeOK'
    BY <1>0, <1>1 DEF Enter, TypeOK
  <1>3. \A q \in Process :
          /\ pc'[q] = IF q # p THEN pc[q] ELSE IF p = 0 THEN "send" ELSE "token"
          /\ entered'[q] = IF q = p THEN entered[q] + 1 ELSE entered[q]
    BY <1>0 DEF Enter, TypeOK
  <1>4. pc[p] = "out" /\ told' = told /\ left' = left /\ chan' = chan /\ ~aborted'
    BY <1>0 DEF Enter, AssertsHold
  <1>5. \A q \in Process : Tokens(q)' = Tokens(q) /\ Taken(q)' = Taken(q)
    <2> SUFFICES ASSUME NEW q \in Process
                 PROVE  Tokens(q)' = Tokens(q) /\ Taken(q)' = Taken(q)
      OBVIOUS
    <2>1. entered[q] \in Nat
      BY <1>0, CountersTyped
    <2> QED
      BY <1>3, <1>4, <2>1 DEF Tokens, Taken
  <1>6. \A q \in Process : Told(q)' = Told(q)
    BY <1>1, <1>3, <1>4 DEF Told
  <1>7. Control'
    <2>1. \A q \in Process : left'[q] = entered'[q] - (IF pc'[q] = "out" THEN 0 ELSE 1)
      BY <1>0, <1>1, <1>3, <1>4 DEF Control
    <2> QED
      BY <1>0, <1>1, <1>3, <1>4, <2>1 DEF Control
  <1>8. Order'
    BY <1>0, <1>4, <1>5, <1>6, Ring DEF Order
  <1>9. Contents' /\ AssertsHold'
    BY <1>0, <1>4, <1>5, <1>6, Ring DEF Contents, TokenPart, ReleasePart, AssertsHold
  <1> QED
    BY <1>2, <1>7, <1>8, <1>9 DEF Inv

\* The token goes to a process that has taken all tokens sent to it before, and
\* that is released only when the token has been everywhere.
LEMMA PassTokenKeeps ==
  ASSUME Inv, NEW p \in Process, ~aborted, PassToken(p)
  PROVE  Inv'
  <1>0. TypeOK /\ AssertsHold /\ Control /\ Order /\ Contents
    BY DEF Inv
  <1> DEFINE F == Following(p)
  <1>1. /\ 0 \in Process /\ 1 \in Process /\ F \in Process /\ 0 # 1 /\ Previous(F) = p
        /\ \A q \in Process : Previous(q) \in Process /\ (Previous(q) = p => q = F)
        /\ Previous(1) = 0
    BY Ring
  <1> HIDE DEF F
  <1>2. \A q \in Process :
          pc'[q] = IF q # p THEN pc[q] ELSE IF p = 0 THEN "token" ELSE "release"
    BY <1>0 DEF PassToken, TypeOK, AfterSend
  <1>3. \A s, d \in Process :
          chan'[s][d] = IF s = p /\ d = F THEN Append(chan[s][d], p) ELSE chan[s][d]
    BY <1>0, <1>1 DEF PassToken, SendFlit, TypeOK, F
  <1>4. /\ pc[p] = "send" /\ told' = told /\ entered' = entered /\ left' = left /\ ~aborted'
        /\ aborted' \in BOOLEAN
    BY <1>0 DEF PassToken, TypeOK, AssertsHold
  <1>5. TypeOK'
    <2>1. p \in Flit
      BY DEF Flit
    <2>2. Append(chan[p][F], p) \in Seq(Flit)
      BY <1>0, <1>1, <2>1 DEF TypeOK
    <2>3. chan' \in [Process -> [Process -> Seq(Flit)]]
      BY <1>0, <1>1, <2>2 DEF PassToken, SendFlit, TypeOK, F
    <2>4. pc' \in [Process -> {"out", "send", "token", "release", "tell"}]
      BY <1>0 DEF PassToken, TypeOK, AfterSend
    <2> QED
      BY <1>0, <1>4, <2>3, <2>4 DEF TypeOK
  <1>6. \A q \in Process :
          /\ Tokens(q) \in Int /\ Taken(q) \in Int /\ entered[q] \in Nat /\ left[q] \in Nat
    BY <1>0, CountersTyped
  <1>7. \A q \in Process : /\ Tokens(q)' = (IF q = p THEN Tokens(q) + 1 ELSE Tokens(q))
                           /\ Taken(q)' = Taken(q)
    <2> SUFFICES ASSUME NEW q \in Process
                 PROVE  /\ Tokens(q)' = (IF q = p THEN Tokens(q) + 1 ELSE Tokens(q))
                        /\ Taken(q)' = Taken(q)
      OBVIOUS
    <2> QED
      BY <1>2, <1>4, <1>6 DEF Tokens, Taken
  <1>8. \A q \in Process : Told(q)' = Told(q)
    BY <1>1, <1>2, <1>4 DEF Told
  <1>9. Control'
    BY <1>0, <1>1, <1>2, <1>4 DEF Control
  <1>10. Taken(F) = Tokens(p)
    <2>1. Taken(F) <= Tokens(p)
      BY <1>0, <1>1 DEF Order
    <2>2. Tokens(p) = left[p]
      BY <1>0, <1>4, <1>6 DEF Tokens, Control
    <2>3. left[p] <= Taken(0)
      BY <1>0, <1>1, <1>6, Ahead
    <2>4. Taken(0) <= Taken(F)
      BY <1>0, <1>1, <1>6, Ahead
    <2> QED
      BY <1>1, <1>6, <2>1, <2>2, <2>3, <2>4
  <1>11. p # 0 => Taken(p) = Tokens(p) + 1
    BY <1>4, <1>6 DEF Tokens, Taken
  <1>12. \A q, r \in Process : q <= r => Tokens(r)' <= Tokens(q)'
    <2> SUFFICES ASSUME NEW q \in Process, NEW r \in Process, q <= r
                 PROVE  Tokens(r)' <= Tokens(q)'
      OBVIOUS
    <2>1. Tokens(r) <= Tokens(q)
      BY <1>0 DEF Order
    <2>2. CASE r = p /\ q # p
      <3>1. q <= Previous(p) /\ p # 0 /\ Previous(p) \in Process
        BY <2>2, Ring, BarrierAssumption DEF Previous, Process
      <3>2. Taken(p) <= Tokens(Previous(p)) /\ Tokens(Previous(p)) <= Tokens(q)
        BY <1>0, <3>1 DEF Order
      <3> QED
        BY <1>6, <1>7, <1>11, <2>2, <3>1, <3>2
    <2> QED
      BY <1>6, <1>7, <2>1, <2>2
  <1>13. Order'
    <2>1. \A q \in Process :
            Taken(q)' <= Tokens(Previous(q))' /\ Tokens(Previous(q))' <= Taken(q)' + 1
      BY <1>0, <1>1, <1>6, <1>7, <1>10 DEF Order
    <2>2. \A q \in Process : q # 0 => left'[q] <= Told(q)' /\ Told(q)' <= left'[q] + 1
      BY <1>0, <1>4, <1>8 DEF Order
    <2> QED
      BY <1>0, <1>12, <2>1, <2>2 DEF Order
  <1>14. Contents'
    <2>1. ASSUME NEW q \in Process, q # 1 PROVE chan'[Previous(q)][q] = TokenPart(q)'
      <3>1. chan[Previous(q)][q] = TokenPart(q)
        BY <1>0, <2>1 DEF Contents
      <3>2. CASE q = F
        <4>1. TokenPart(q) = <<>> /\ TokenPart(q)' = <<p>>
          BY <1>1, <1>6, <1>7, <1>10, <3>2 DEF TokenPart
        <4>2. Append(<<>>, p) = <<p>>
          BY ShortSequences
        <4>3. chan[p][F] = <<>>
          BY <1>1, <3>1, <3>2, <4>1
        <4>4. chan'[p][F] = Append(chan[p][F], p)
          BY <1>1, <1>3
        <4> QED
          BY <1>1, <3>2, <4>1, <4>2, <4>3, <4>4
      <3>3. CASE q # F
        BY <1>1, <1>3, <1>7, <3>1, <3>3 DEF TokenPart
      <3> QED
        BY <3>2, <3>3
    <2>2. ASSUME NEW q \in Process, q > 1 PROVE chan'[0][q] = ReleasePart(q)'
      BY <1>0, <1>1, <1>3, <1>4, <1>8, <2>2 DEF Contents, ReleasePart
    <2>3. chan'[0][1] = IF left'[1] < Told(1)'
                        THEN IF Taken(1)' < Tokens(0)' THEN <<Release, 0>> ELSE <<Release>>
                        ELSE IF Taken(1)' < Tokens(0)' THEN <<0>> ELSE <<>>
      <3>1. CASE p = 0
        <4>1. F = 1 /\ ~(Taken(1) < Tokens(0)) /\ Taken(1)' < Tokens(0)'
          BY <1>1, <1>6, <1>7, <1>10, <3>1
        <4>2. chan'[0][1] = Append(chan[0][1], 0)
          BY <1>1, <1>3, <3>1, <4>1
        <4>3. chan[0][1] = IF left[1] < Told(1) THEN <<Release>> ELSE <<>>
          BY <1>0, <4>1 DEF Contents
        <4> QED
          BY <1>1, <1>4, <1>8, <4>1, <4>2, <4>3, ShortSequences
      <3>2. CASE p # 0
        BY <1>0, <1>1, <1>3, <1>4, <1>7, <1>8, <3>2 DEF Contents
      <3> QED
        BY <3>1, <3>2
    <2> QED
      BY <1>0, <2>1, <2>2, <2>3 DEF Contents
  <1> QED
    BY <1>4, <1>5, <1>9, <1>13, <1>14 DEF AssertsHold, Inv

\* A process that takes the token finds nothing but the token of its round.
LEMMA TakeTokenKeeps ==
  ASSUME Inv, NEW p \in Process, ~aborted, TakeToken(p)
  PROVE  Inv'
  <1> DEFINE R == Previous(p)
  <1>0. TypeOK /\ AssertsHold /\ Control /\ Order /\ Contents
    BY DEF Inv
  <1>1. /\ 0 \in Process /\ 1 \in Process /\ R \in Process /\ 0 # 1 /\ Previous(1) = 0
        /\ \A q \in Process : Previous(q) \in Process /\ (q > 1 => Previous(q) # 0)
    BY Ring, BarrierAssumption DEF Process, Previous
  <1> HIDE DEF R
  <1>2. \A q \in Process :
          pc'[q] = IF q # p THEN pc[q] ELSE IF p = 0 THEN "tell" ELSE "send"
    BY <1>0 DEF TakeToken, TypeOK
  <1>3. /\ chan[R][p] # <<>>
        /\ \A s, d \in Process :
             chan'[s][d] = IF s = R /\ d = p THEN Tail(chan[s][d]) ELSE chan[s][d]
    BY <1>0, <1>1 DEF TakeToken, RecvFlit, TypeOK, R
  <1>4. /\ pc[p] = "token" /\ entered' = entered /\ left' = left
        /\ told' = (IF p = 0 THEN 1 ELSE told) /\ aborted' = ~(Head(chan[R][p]) = R)
    BY DEF TakeToken, Check, ToldAfter, R
  <1>5. \A q \in Process :
          /\ Tokens(q) \in Int /\ Taken(q) \in Int /\ Told(q) \in Int
          /\ entered[q] \in Nat /\ left[q] \in Nat
    BY <1>0, CountersTyped
  <1>6. TypeOK'
    <2>1. Tail(chan[R][p]) \in Seq(Flit)
      BY <1>0, <1>1, <1>3 DEF TypeOK
    <2>2. chan' \in [Process -> [Process -> Seq(Flit)]]
      BY <1>0, <1>1, <2>1 DEF TakeToken, RecvFlit, TypeOK, R
    <2>3. pc' \in [Process -> {"out", "send", "token", "release", "tell"}]
      BY <1>0 DEF TakeToken, TypeOK
    <2>4. told' \in 1 .. Size
      BY <1>0, <1>4, BarrierAssumption DEF TypeOK
    <2>5. aborted' \in BOOLEAN
      BY <1>4
    <2> QED
      BY <1>0, <1>4, <2>2, <2>3, <2>4, <2>5 DEF TypeOK
  <1>7. \A q \in Process : /\ Tokens(q)' = Tokens(q)
                           /\ Taken(q)' = (IF q = p THEN Taken(q) + 1 ELSE Taken(q))
    <2> SUFFICES ASSUME NEW q \in Process
                 PROVE  /\ Tokens(q)' = Tokens(q)
                        /\ Taken(q)' = (IF q = p THEN Taken(q) + 1 ELSE Taken(q))
      OBVIOUS
    <2> QED
      BY <1>2, <1>4, <1>5 DEF Tokens, Taken
  <1>8. \A q \in Process : q # 0 => Told(q)' = Told(q)
    <2> SUFFICES ASSUME NEW q \in Process, q # 0 PROVE Told(q)' = Told(q)
      OBVIOUS
    <2>1. ~(q < 1)
      BY BarrierAssumption DEF Process
    <2> QED
      BY <1>1, <1>2, <1>4, <2>1 DEF Told
  <1>9. Control'
    <2>1. 1 < Size
      BY BarrierAssumption
    <2> QED
      BY <1>0, <1>1, <1>2, <1>4, <2>1 DEF Control
  <1>10. chan[R][p] = <<R>> /\ Taken(p) < Tokens(R)
    <2>1. CASE p # 1
      BY <1>0, <1>3, <2>1 DEF Contents, TokenPart, R
    <2>2. CASE p = 1
      <3>1. Taken(1) = left[1]
        BY <1>0, <1>1, <1>4, <1>5, <2>2 DEF Taken, Control
      <3>2. Told(1) <= Taken(0) /\ Taken(0) <= Taken(1)
        BY <1>0, <1>1, <1>5, Ahead
      <3>3. ~(left[1] < Told(1))
        BY <1>1, <1>5, <3>1, <3>2
      <3> QED
        BY <1>0, <1>1, <1>3, <2>2, <3>3 DEF Contents, R
    <2> QED
      BY <2>1, <2>2
  <1>11. chan'[R][p] = <<>> /\ ~aborted'
    <2>1. Tail(<<R>>) = <<>> /\ Head(<<R>>) = R
      BY ShortSequences
    <2> QED
      BY <1>1, <1>3, <1>4, <1>10, <2>1
  <1>12. Order'
    <2>1. \A q \in Process :
            Taken(q)' <= Tokens(Previous(q))' /\ Tokens(Previous(q))' <= Taken(q)' + 1
      BY <1>0, <1>1, <1>5, <1>7, <1>10 DEF Order, R
    <2>2. \A q \in Process : q # 0 => left'[q] <= Told(q)' /\ Told(q)' <= left'[q] + 1
      BY <1>0, <1>4, <1>8 DEF Order
    <2>3. \A q, r \in Process : q <= r => Tokens(r)' <= Tokens(q)'
      BY <1>0, <1>7 DEF Order
    <2> QED
      BY <2>1, <2>2, <2>3 DEF Order
  <1>13. ~(Taken(p)' < Tokens(R)')
    BY <1>0, <1>1, <1>5, <1>7 DEF Order, R
  <1>14. Contents'
    <2>1. ASSUME NEW q \in Process, q # 1 PROVE chan'[Previous(q)][q] = TokenPart(q)'
      <3>1. CASE q = p
        BY <1>11, <1>13, <3>1 DEF TokenPart, R
      <3>2. CASE q # p
        BY <1>0, <1>1, <1>3, <1>7, <2>1, <3>2 DEF Contents, TokenPart
      <3> QED
        BY <3>1, <3>2
    <2>2. ASSUME NEW q \in Process, q > 1 PROVE chan'[0][q] = ReleasePart(q)'
      <3>1. q # 0 /\ (q = p => R # 0)
        BY <1>1, <2>2 DEF R
      <3> QED
        BY <1>0, <1>1, <1>3, <1>4, <1>8, <2>2, <3>1 DEF Contents, ReleasePart
    <2>3. chan'[0][1] = IF left'[1] < Told(1)'
                        THEN IF Taken(1)' < Tokens(0)' THEN <<Release, 0>> ELSE <<Release>>
                        ELSE IF Taken(1)' < Tokens(0)' THEN <<0>> ELSE <<>>
      <3>1. CASE p = 1
        <4>1. Told(1) <= Taken(0) /\ Taken(0) <= Taken(1) /\ Taken(1) = left[1]
          BY <1>0, <1>1, <1>4, <1>5, <3>1, Ahead DEF Taken, Control
        <4>2. ~(left'[1] < Told(1)')
          BY <1>1, <1>4, <1>5, <1>8, <4>1
        <4> QED
          BY <1>1, <1>11, <1>13, <3>1, <4>2 DEF R
      <3>2. CASE p # 1
        BY <1>0, <1>1, <1>3, <1>4, <1>7, <1>8, <3>2 DEF Contents
      <3> QED
        BY <3>1, <3>2
    <2> QED
      BY <2>1, <2>2, <2>3 DEF Contents
  <1> QED
    BY <1>6, <1>9, <1>11, <1>12, <1>14 DEF AssertsHold, Inv

\* The root releases a process that has not been released in this round, when
\* no token is on the way to it.
LEMMA TellKeeps ==
  ASSUME Inv, ~aborted, Tell
  PROVE  Inv'
  <1>0. TypeOK /\ AssertsHold /\ Control /\ Order /\ Contents
    BY DEF Inv
  <1>1. /\ 0 \in Process /\ 1 \in Process /\ 0 # 1 /\ Previous(1) = 0
        /\ \A q \in Process : Previous(q) \in Process /\ (q # 1 => Previous(q) # 0)
    <2>1. ASSUME NEW q \in Process, Previous(q) = 0 PROVE q = 1
      <3>1. Size >= 2
        BY BarrierAssumption
      <3> QED
        BY <2>1, <3>1, BarrierAssumption DEF Process, Previous
    <2>2. 0 \in Process
      BY BarrierAssumption DEF Process
    <2>3. \A q \in Process : Previous(q) \in Process
      BY Ring
    <2> QED
      BY <2>1, <2>2, <2>3, Ring
  <1>2. /\ pc[0] = "tell" /\ told < Size /\ told \in 1 .. Size - 1 /\ told \in Process
        /\ told # 0 /\ told' = told + 1 /\ entered' = entered /\ ~aborted'
        /\ aborted' \in BOOLEAN
    BY <1>0, BarrierAssumption DEF Tell, Control, TypeOK, Process
  <1>3. \A s, d \in Process :
          chan'[s][d] = IF s = 0 /\ d = told THEN Append(chan[s][d], Release)
                        ELSE chan[s][d]
    BY <1>0, <1>1, <1>2 DEF Tell, SendFlit, TypeOK
  <1>4. \A q \in Process :
          /\ Tokens(q) \in Int /\ Taken(q) \in Int /\ Told(q) \in Int
          /\ entered[q] \in Nat /\ left[q] \in Nat
    BY <1>0, CountersTyped
  <1>5. \/ /\ told + 1 = Size
           /\ \A q \in Process : /\ pc'[q] = IF q = 0 THEN "out" ELSE pc[q]
                                 /\ left'[q] = IF q = 0 THEN left[q] + 1 ELSE left[q]
        \/ told + 1 < Size /\ pc' = pc /\ left' = left
    <2>1. told \in Nat /\ Size \in Nat
      BY <1>2, BarrierAssumption
    <2>2. CASE told + 1 = Size
      <3>1. pc' = [pc EXCEPT ![0] = "out"] /\ left' = [left EXCEPT ![0] = left[0] + 1]
        BY <2>2 DEF Tell
      <3> QED
        BY <1>0, <2>2, <3>1 DEF TypeOK
    <2>3. CASE told + 1 # Size
      BY <1>2, <2>1, <2>3 DEF Tell
    <2> QED
      BY <2>2, <2>3
  <1>6. TypeOK'
    <2>1. Release \in Flit
      BY DEF Flit
    <2>2. Append(chan[0][told], Release) \in Seq(Flit)
      BY <1>0, <1>1, <1>2, <2>1 DEF TypeOK
    <2>3. chan' \in [Process -> [Process -> Seq(Flit)]]
      BY <1>0, <1>1, <1>2, <2>2 DEF Tell, SendFlit, TypeOK
    <2>4. pc' \in [Process -> {"out", "send", "token", "release", "tell"}]
      BY <1>0 DEF Tell, TypeOK
    <2>5. left[0] + 1 = entered[0]
      BY <1>0, <1>1, <1>2, <1>4 DEF Control
    <2>8. entered[0] \in 0 .. Rounds
      BY <1>0, <1>1 DEF TypeOK
    <2>6. left' \in [Process -> 0 .. Rounds]
      BY <1>0, <2>5, <2>8, BarrierAssumption DEF Tell, TypeOK
    <2>7. told' \in 1 .. Size
      BY <1>2, BarrierAssumption
    <2> QED
      BY <1>0, <1>2, <2>3, <2>4, <2>6, <2>7 DEF TypeOK
  <1>7. \A q \in Process : Tokens(q)' = Tokens(q) /\ Taken(q)' = Taken(q)
    <2> SUFFICES ASSUME NEW q \in Process
                 PROVE  Tokens(q)' = Tokens(q) /\ Taken(q)' = Taken(q)
      OBVIOUS
    <2> QED
      BY <1>2, <1>4, <1>5 DEF Tokens, Taken
  <1>8. \A q \in Process : q # 0 =>
          Told(q)' = (IF q = told THEN Told(q) + 1 ELSE Told(q)) /\ left'[q] = left[q]
    <2> SUFFICES ASSUME NEW q \in Process, q # 0
                 PROVE  /\ Told(q)' = (IF q = told THEN Told(q) + 1 ELSE Told(q))
                        /\ left'[q] = left[q]
      OBVIOUS
    <2>1. q \in Nat /\ q < Size
      BY BarrierAssumption DEF Process
    <2> QED
      BY <1>1, <1>2, <1>4, <1>5, <2>1, BarrierAssumption DEF Told
  <1>9. Control'
    <2>1. \A q \in Process : left'[q] = entered'[q] - (IF pc'[q] = "out" THEN 0 ELSE 1)
      BY <1>0, <1>1, <1>2, <1>4, <1>5 DEF Control
    <2> QED
      BY <1>0, <1>1, <1>2, <1>5, <2>1 DEF Control
  <1>10. left[told] = Told(told)
    <2>1. Told(told) = left[0] /\ Taken(0) = left[0] + 1
      BY <1>0, <1>1, <1>2, <1>4 DEF Told, Taken, Control
    <2>2. Taken(0) <= Taken(told) /\ Taken(told) <= left[told] + 1
      BY <1>0, <1>2, <1>4, <1>1, Ahead
    <2>3. left[told] <= Told(told)
      BY <1>0, <1>2 DEF Order
    <2> QED
      BY <1>1, <1>2, <1>4, <2>1, <2>2, <2>3
  <1>11. Order'
    <2>1. \A q \in Process :
            Taken(q)' <= Tokens(Previous(q))' /\ Tokens(Previous(q))' <= Taken(q)' + 1
      BY <1>0, <1>1, <1>7 DEF Order
    <2>2. \A q \in Process : q # 0 => left'[q] <= Told(q)' /\ Told(q)' <= left'[q] + 1
      BY <1>0, <1>4, <1>8, <1>10 DEF Order
    <2>3. \A q, r \in Process : q <= r => Tokens(r)' <= Tokens(q)'
      BY <1>0, <1>7 DEF Order
    <2> QED
      BY <2>1, <2>2, <2>3 DEF Order
  <1>12. Contents'
    <2>0. Append(<<>>, Release) = <<Release>>
      BY ShortSequences
    <2>1. ASSUME NEW q \in Process, q # 1 PROVE chan'[Previous(q)][q] = TokenPart(q)'
      BY <1>0, <1>1, <1>3, <1>7, <2>1 DEF Contents, TokenPart
    <2>2. ASSUME NEW q \in Process, q > 1 PROVE chan'[0][q] = ReleasePart(q)'
      <3>1. q # 0 /\ chan[0][q] = ReleasePart(q)
        BY <1>0, <2>2 DEF Contents
      <3>2. CASE q = told
        <4>1. ReleasePart(q) = <<>> /\ ReleasePart(q)' = <<Release>>
          BY <1>4, <1>8, <1>10, <3>1, <3>2 DEF ReleasePart
        <4>2. chan'[0][q] = Append(chan[0][q], Release)
          BY <1>1, <1>3, <3>2
        <4> QED
          BY <2>0, <3>1, <4>1, <4>2
      <3>3. CASE q # told
        BY <1>1, <1>3, <1>8, <3>1, <3>3 DEF ReleasePart
      <3> QED
        BY <3>2, <3>3
    <2>3. chan'[0][1] = IF left'[1] < Told(1)'
                        THEN IF Taken(1)' < Tokens(0)' THEN <<Release, 0>> ELSE <<Release>>
                        ELSE IF Taken(1)' < Tokens(0)' THEN <<0>> ELSE <<>>
      <3>1. CASE told = 1
        <4>1. Taken(0) <= Taken(1) /\ Taken(1) <= Tokens(0)
          BY <1>0, <1>1, <1>4, Ahead DEF Order
        <4>2. Tokens(0) = Taken(0)
          BY <1>1, <1>2 DEF Tokens, Taken
        <4>3. ~(left[1] < Told(1)) /\ left'[1] < Told(1)' /\ ~(Taken(1) < Tokens(0))
          BY <1>1, <1>4, <1>8, <1>10, <3>1, <4>1, <4>2
        <4>4. chan[0][1] = <<>> /\ chan'[0][1] = Append(chan[0][1], Release)
          BY <1>0, <1>1, <1>3, <3>1, <4>3 DEF Contents
        <4> QED
          BY <1>1, <1>7, <2>0, <4>3, <4>4
      <3>2. CASE told # 1
        BY <1>0, <1>1, <1>3, <1>7, <1>8, <3>2 DEF Contents
      <3> QED
        BY <3>1, <3>2
    <2> QED
      BY <2>1, <2>2, <2>3 DEF Contents
  <1> QED
    BY <1>2, <1>6, <1>9, <1>11, <1>12 DEF AssertsHold, Inv

\* A process that waits for its release finds nothing but the release.
LEMMA ReleaseArrives ==
  ASSUME Inv, NEW p \in Process, Released(p)
  PROVE  /\ p # 0 /\ left[p] < Told(p) /\ Head(chan[0][p]) = Release
         /\ p > 1 => Tail(chan[0][p]) = <<>>
         /\ p = 1 => Tail(chan[0][p]) = IF Taken(1) < Tokens(0) THEN <<0>> ELSE <<>>
  <1>0. TypeOK /\ AssertsHold /\ Control /\ Order /\ Contents
    BY DEF Inv
  <1>1. 0 \in Process /\ 1 \in Process /\ 0 # 1 /\ Previous(1) = 0 /\ 0 \in Nat
    BY Ring
  <1>2. pc[p] = "release" /\ chan[0][p] # <<>> /\ p # 0
    BY <1>0 DEF Released, RecvFlit, Control
  <1>3. /\ Tokens(p) \in Int /\ Taken(p) \in Int /\ Told(p) \in Int /\ left[p] \in Nat
        /\ entered[p] \in Nat /\ Tokens(0) \in Int /\ Taken(0) \in Int /\ left[0] \in Nat
        /\ Taken(1) \in Int /\ Told(1) \in Int /\ left[1] \in Nat
    BY <1>0, <1>1, CountersTyped
  <1>4. Head(<<Release>>) = Release /\ Tail(<<Release>>) = <<>>
    BY ShortSequences
  <1>5. Head(<<Release, 0>>) = Release /\ Tail(<<Release, 0>>) = <<0>>
    <2>1. 0 \in Nat /\ Release \in Nat
      BY DEF Release
    <2> QED
      BY <2>1, ShortSequences
  <1>6. CASE p > 1
    <2>1. chan[0][p] = ReleasePart(p)
      BY <1>0, <1>6 DEF Contents
    <2>2. left[p] < Told(p)
      BY <1>2, <2>1 DEF ReleasePart
    <2>3. chan[0][p] = <<Release>>
      BY <2>1, <2>2 DEF ReleasePart
    <2>4. Head(chan[0][p]) = Release /\ Tail(chan[0][p]) = <<>>
      BY <1>4, <2>3
    <2>5. p # 1
      BY <1>6
    <2> QED
      BY <1>2, <2>2, <2>4, <2>5
  <1>7. CASE p = 1
    <2>1. left[1] < Told(1)
      <3>1. SUFFICES ASSUME ~(left[1] < Told(1)) PROVE FALSE
        OBVIOUS
      <3>2. Taken(1) < Tokens(0)
        BY <1>0, <1>2, <1>7, <3>1 DEF Contents
      <3>3. Taken(1) = left[1] + 1
        BY <1>0, <1>1, <1>2, <1>3, <1>7 DEF Taken, Control
      <3>4. Tokens(0) <= left[0] + 1 /\ left[0] <= Told(1)
        BY <1>0, <1>1, <1>3, Ahead DEF Told
      <3> QED
        BY <1>3, <3>1, <3>2, <3>3, <3>4
    <2>2. chan[0][1] = IF Taken(1) < Tokens(0) THEN <<Release, 0>> ELSE <<Release>>
      BY <1>0, <2>1 DEF Contents
    <2>3. CASE Taken(1) < Tokens(0)
      <3>1. chan[0][1] = <<Release, 0>>
        BY <2>2, <2>3
      <3>2. Head(chan[0][p]) = Release /\ Tail(chan[0][p]) = <<0>>
        BY <1>5, <1>7, <3>1
      <3> QED
        BY <1>2, <1>7, <2>1, <2>3, <3>2
    <2>4. CASE ~(Taken(1) < Tokens(0))
      <3>1. chan[0][1] = <<Release>>
        BY <2>2, <2>4
      <3>2. Head(chan[0][p]) = Release /\ Tail(chan[0][p]) = <<>>
        BY <1>4, <1>7, <3>1
      <3> QED
        BY <1>2, <1>7, <2>1, <2>4, <3>2
    <2> QED
      BY <2>3, <2>4
  <1>8. p > 1 \/ p = 1
    BY <1>2, BarrierAssumption DEF Process
  <1> QED
    BY <1>1, <1>2, <1>6, <1>7, <1>8

\* A release moves nothing but the channel and the process it is for.
LEMMA ReleasedKeeps ==
  ASSUME Inv, NEW p \in Process, ~aborted, Released(p)
  PROVE  Inv'
  <1>0. TypeOK /\ AssertsHold /\ Control /\ Order /\ Contents
    BY DEF Inv
  <1>1. /\ 0 \in Process /\ 1 \in Process /\ 0 # 1 /\ Previous(1) = 0
        /\ \A q \in Process : Previous(q) \in Process
        /\ \A q \in Process : q # 1 => Previous(q) # 0
    <2>1. ASSUME NEW q \in Process, q # 1 PROVE Previous(q) # 0
      BY <2>1, BarrierAssumption DEF Process, Previous
    <2>2. \A q \in Process : Previous(q) \in Process
      BY Ring
    <2> QED
      BY <2>1, <2>2, Ring
  <1>2. /\ p # 0 /\ left[p] < Told(p) /\ Head(chan[0][p]) = Release
        /\ p > 1 => Tail(chan[0][p]) = <<>>
        /\ p = 1 => Tail(chan[0][p]) = IF Taken(1) < Tokens(0) THEN <<0>> ELSE <<>>
    BY ReleaseArrives
  <1>3. /\ pc[p] = "release" /\ told' = told /\ entered' = entered /\ ~aborted'
        /\ aborted' \in BOOLEAN
    BY <1>2 DEF Released, Check
  <1>4. \A s, d \in Process :
          chan'[s][d] = IF s = 0 /\ d = p THEN Tail(chan[s][d]) ELSE chan[s][d]
    BY <1>0, <1>1 DEF Released, RecvFlit, TypeOK
  <1>5. \A q \in Process : /\ pc'[q] = IF q = p THEN "out" ELSE pc[q]
                           /\ left'[q] = IF q = p THEN left[q] + 1 ELSE left[q]
    BY <1>0 DEF Released, TypeOK
  <1>6. \A q \in Process :
          /\ Tokens(q) \in Int /\ Taken(q) \in Int /\ Told(q) \in Int
          /\ entered[q] \in Nat /\ left[q] \in Nat
    BY <1>0, CountersTyped
  <1>7. left[p] + 1 = entered[p]
    BY <1>0, <1>3, <1>6 DEF Control
  <1>8. TypeOK'
    <2>1. chan[0][p] \in Seq(Flit) /\ chan[0][p] # <<>>
      BY <1>0, <1>1 DEF TypeOK, Released, RecvFlit
    <2>2. Tail(chan[0][p]) \in Seq(Flit)
      BY <2>1
    <2>3. chan' \in [Process -> [Process -> Seq(Flit)]]
      BY <1>0, <1>1, <2>2 DEF Released, RecvFlit, TypeOK
    <2>4. pc' \in [Process -> {"out", "send", "token", "release", "tell"}]
      BY <1>0 DEF Released, TypeOK
    <2>5. entered[p] \in 0 .. Rounds
      BY <1>0 DEF TypeOK
    <2>6. left' \in [Process -> 0 .. Rounds]
      BY <1>0, <1>7, <2>5, BarrierAssumption DEF Released, TypeOK
    <2> QED
      BY <1>0, <1>3, <2>3, <2>4, <2>6 DEF TypeOK
  <1>9. \A q \in Process : Tokens(q)' = Tokens(q) /\ Taken(q)' = Taken(q)
    <2> SUFFICES ASSUME NEW q \in Process
                 PROVE  Tokens(q)' = Tokens(q) /\ Taken(q)' = Taken(q)
      OBVIOUS
    <2> QED
      BY <1>2, <1>3, <1>5, <1>6 DEF Tokens, Taken
  <1>10. \A q \in Process : Told(q)' = Told(q)
    BY <1>1, <1>2, <1>3, <1>5 DEF Told
  <1>11. Control'
    <2>1. \A q \in Process : left'[q] = entered'[q] - (IF pc'[q] = "out" THEN 0 ELSE 1)
      BY <1>0, <1>3, <1>5, <1>6, <1>7 DEF Control
    <2> QED
      BY <1>0, <1>1, <1>2, <1>3, <1>5, <2>1 DEF Control
  <1>12. Order'
    <2>1. \A q \in Process :
            Taken(q)' <= Tokens(Previous(q))' /\ Tokens(Previous(q))' <= Taken(q)' + 1
      BY <1>0, <1>1, <1>9 DEF Order
    <2>2. \A q \in Process : q # 0 => left'[q] <= Told(q)' /\ Told(q)' <= left'[q] + 1
      BY <1>0, <1>2, <1>5, <1>6, <1>10 DEF Order
    <2>3. \A q, r \in Process : q <= r => Tokens(r)' <= Tokens(q)'
      BY <1>0, <1>9 DEF Order
    <2> QED
      BY <2>1, <2>2, <2>3 DEF Order
  <1>13. ~(left'[p] < Told(p)')
    BY <1>0, <1>2, <1>5, <1>6, <1>10 DEF Order
  <1>14. Contents'
    <2>1. ASSUME NEW q \in Process, q # 1 PROVE chan'[Previous(q)][q] = TokenPart(q)'
      BY <1>0, <1>1, <1>4, <1>9, <2>1 DEF Contents, TokenPart
    <2>2. ASSUME NEW q \in Process, q > 1 PROVE chan'[0][q] = ReleasePart(q)'
      <3>1. CASE q = p
        <4>1. chan'[0][q] = <<>>
          BY <1>1, <1>2, <1>4, <2>2, <3>1
        <4> QED
          BY <1>13, <3>1, <4>1 DEF ReleasePart
      <3>2. CASE q # p
        BY <1>0, <1>1, <1>4, <1>5, <1>10, <2>2, <3>2 DEF Contents, ReleasePart
      <3> QED
        BY <3>1, <3>2
    <2>3. chan'[0][1] = IF left'[1] < Told(1)'
                        THEN IF Taken(1)' < Tokens(0)' THEN <<Release, 0>> ELSE <<Release>>
                        ELSE IF Taken(1)' < Tokens(0)' THEN <<0>> ELSE <<>>
      <3>1. CASE p = 1
        <4>1. chan'[0][1] = IF Taken(1) < Tokens(0) THEN <<0>> ELSE <<>>
          BY <1>1, <1>2, <1>4, <3>1
        <4> QED
          BY <1>1, <1>9, <1>13, <3>1, <4>1
      <3>2. CASE p # 1
        BY <1>0, <1>1, <1>4, <1>5, <1>9, <1>10, <3>2 DEF Contents
      <3> QED
        BY <3>1, <3>2
    <2> QED
      BY <2>1, <2>2, <2>3 DEF Contents
  <1> QED
    BY <1>3, <1>8, <1>11, <1>12, <1>14 DEF AssertsHold, Inv

-----------------------------------------------------------------------------
\* Before the first call no flit is on the way.
LEMMA InitHolds == Init => Inv
  <1> SUFFICES ASSUME Init PROVE Inv
    OBVIOUS
  <1>1. /\ 0 \in Process /\ 1 \in Process /\ 1 \in 1 .. Size /\ 0 \in 0 .. Rounds
    BY BarrierAssumption DEF Process
  <1>2. \A q \in Process : Previous(q) \in Process
    BY Ring
  <1>3. /\ \A q \in Process : pc[q] = "out" /\ entered[q] = 0 /\ left[q] = 0
        /\ \A s, d \in Process : chan[s][d] = <<>>
    BY DEF Init
  <1>4. \A q \in Process : Tokens(q) = 0 /\ Taken(q) = 0 /\ Told(q) = 0
    BY <1>1, <1>3 DEF Tokens, Taken, Told
  <1>5. TypeOK /\ AssertsHold
    BY <1>1 DEF Init, TypeOK, AssertsHold
  <1>6. Control
    BY <1>1, <1>3 DEF Control
  <1>7. Order
    BY <1>1, <1>2, <1>3, <1>4 DEF Order
  <1>8. Contents
    BY <1>1, <1>2, <1>3, <1>4 DEF Contents, TokenPart, ReleasePart
  <1> QED
    BY <1>5, <1>6, <1>7, <1>8 DEF Inv

\* Every step of every process keeps the invariant.
LEMMA NextHolds == Inv /\ [Next]_vars => Inv'
  <1> SUFFICES ASSUME Inv, [Next]_vars PROVE Inv'
    OBVIOUS
  <1>1. CASE UNCHANGED vars
    BY ZenonT(60), <1>1 DEF vars, Inv, TypeOK, AssertsHold, Control, Order, Contents,
                Tokens, Taken, Told, TokenPart, ReleasePart
  <1>2. ASSUME NEW p \in Process, ~aborted, Enter(p) PROVE Inv'
    BY <1>2, EnterKeeps
  <1>3. ASSUME NEW p \in Process, ~aborted, PassToken(p) PROVE Inv'
    BY <1>3, PassTokenKeeps
  <1>4. ASSUME NEW p \in Process, ~aborted, TakeToken(p) PROVE Inv'
    BY <1>4, TakeTokenKeeps
  <1>5. ASSUME NEW p \in Process, ~aborted, Released(p) PROVE Inv'
    BY <1>5, ReleasedKeeps
  <1>6. ASSUME ~aborted, Tell PROVE Inv'
    BY <1>6, TellKeeps
  <1> QED
    BY <1>1, <1>2, <1>3, <1>4, <1>5, <1>6 DEF Next, Step

\* The invariant holds for every number of processes and of rounds.
THEOREM Invariant == Spec => []Inv
  <1> QED
    BY InitHolds, NextHolds, PTL DEF Spec

\* The state stays well-typed: only the flits of the barrier are on the way.
THEOREM TypeCorrect == Spec => []TypeOK
  <1>1. Inv => TypeOK
    BY DEF Inv
  <1> QED
    BY <1>1, Invariant, PTL

\* No assert of MPI_Barrier ever fails, whatever the order in which the
\* processes run and however often they call it.
THEOREM AssertsNeverFail == Spec => []AssertsHold
  <1>1. Inv => AssertsHold
    BY DEF Inv
  <1> QED
    BY <1>1, Invariant, PTL

\* Among the processes with a property there is a first one.
LEMMA FirstProcess ==
  ASSUME NEW T, T \subseteq Process, T # {}
  PROVE  \E x \in T : \A y \in T : x <= y
  <1> DEFINE R == OpToRel(<, Nat)
  <1>1. \A x, y \in Nat : y < x => <<y, x>> \in R
    <2>1. \A x, y \in Nat : <<y, x>>[1] = y /\ <<y, x>>[2] = x
      OBVIOUS
    <2> QED
      BY <2>1 DEF OpToRel
  <1>2. T \subseteq Nat
    BY BarrierAssumption DEF Process
  <1>3. IsWellFoundedOn(R, Nat)
    BY NatLessThanWellFounded
  <1> HIDE DEF R
  <1>4. PICK x \in T : \A y \in T : ~(<<y, x>> \in R)
    BY <1>2, <1>3, WFMin
  <1>5. ASSUME NEW y \in T
        PROVE  x <= y
    <2>1. x \in Nat /\ y \in Nat /\ ~(y < x)
      BY <1>1, <1>2, <1>4
    <2> QED
      BY <2>1
  <1> QED
    BY <1>5

\* A process that waits for the token has got all tokens that were sent, and one
\* that waits for its release all releases.
LEMMA WaitsForNothing ==
  ASSUME Inv, NEW p \in Process, ~CanGoOn(p)
  PROVE  /\ pc[p] \in {"out", "token", "release"}
         /\ pc[p] = "token" => Tokens(Previous(p)) = Taken(p)
         /\ pc[p] = "release" => p # 0 /\ left[p] = Told(p)
  <1>1. TypeOK /\ Control /\ Order /\ Contents
    BY DEF Inv
  <1>2. /\ Taken(p) \in Int /\ Tokens(Previous(p)) \in Int /\ Previous(1) = 0
        /\ Told(p) \in Int /\ left[p] \in Nat /\ p \in Nat
    BY <1>1, Ring, CountersTyped, BarrierAssumption DEF Process
  <1>3. pc[p] \in {"out", "token", "release"}
    BY <1>1 DEF TypeOK, CanGoOn
  <1>4. \A a, b : <<a>> # <<>> /\ <<a, b>> # <<>>
    OBVIOUS
  <1>5. ASSUME pc[p] = "token"
        PROVE  Tokens(Previous(p)) = Taken(p)
    <2>1. chan[Previous(p)][p] = <<>>
      BY <1>5 DEF CanGoOn
    <2>2. ~(Taken(p) < Tokens(Previous(p)))
      BY <1>1, <1>2, <1>4, <2>1 DEF Contents, TokenPart
    <2> QED
      BY <1>1, <1>2, <2>2 DEF Order
  <1>6. ASSUME pc[p] = "release"
        PROVE  p # 0 /\ left[p] = Told(p)
    <2>1. chan[0][p] = <<>> /\ p # 0
      BY <1>1, <1>6 DEF CanGoOn, Control
    <2>2. p = 1 \/ p > 1
      BY <1>2, <2>1
    <2>3. ~(left[p] < Told(p))
      BY <1>1, <1>4, <2>1, <2>2 DEF Contents, ReleasePart
    <2> QED
      BY <1>1, <1>2, <2>1, <2>3 DEF Order
  <1> QED
    BY <1>3, <1>5, <1>6

\* While somebody is in a barrier the processes do not all wait.  If the root is
\* outside it has released everybody from the barriers that it has left, and if it
\* waits for the token, the first process that has not passed it on can take it.
LEMMA SomebodyGoesOn ==
  ASSUME Inv
  PROVE  NobodyStuck
  <1>1. SUFFICES ASSUME NEW w \in Process, pc[w] # "out",
                        \A p \in Process : ~CanGoOn(p) /\ ~Late(p)
                 PROVE  FALSE
    BY DEF NobodyStuck
  <1>2. TypeOK /\ Control /\ Order
    BY DEF Inv
  <1>3. \A p \in Process : /\ Tokens(p) \in Int /\ Taken(p) \in Int /\ Told(p) \in Int
                            /\ entered[p] \in Nat /\ left[p] \in Nat
    BY <1>2, CountersTyped
  <1>4. \A p \in Process : pc[p] = "out" => \A q \in Process : entered[q] <= entered[p]
    BY <1>1, <1>3 DEF Late
  <1>5. 0 \in Process /\ Size - 1 \in Process /\ Previous(0) = Size - 1
    BY Ring DEF Previous
  <1>6. /\ pc[0] \in {"out", "token"}
        /\ \A p \in Process : Told(p) = left[0]
    <2>1. pc[0] \in {"out", "token"}
      BY <1>1, <1>2, <1>5, WaitsForNothing DEF Control
    <2>2. left[0] \in Nat
      BY <1>3, <1>5
    <2> QED
      BY <2>1, <2>2 DEF Told
  <1>7. CASE pc[0] = "out"
    <2>1. entered[w] <= entered[0] /\ left[0] = entered[0] /\ left[w] = entered[w] - 1
      <3>1. entered[w] <= entered[0] /\ entered[0] \in Nat
        BY <1>3, <1>4, <1>5, <1>7
      <3>2. left[0] = entered[0] - 0 /\ left[w] = entered[w] - 1
        BY <1>1, <1>2, <1>5, <1>7 DEF Control
      <3> QED
        BY <3>1, <3>2
    <2>2. pc[w] # "release"
      BY <1>1, <1>3, <1>5, <1>6, <2>1, WaitsForNothing
    <2>3. pc[w] = "token" /\ w # 0
      BY <1>1, <1>7, <2>2, WaitsForNothing
    <2>4. Tokens(w) = entered[w] - 1 /\ Taken(0) = entered[0]
      <3>1. entered[0] \in Nat
        BY <1>3, <1>5
      <3> QED
        BY <1>7, <2>3, <3>1 DEF Tokens, Taken
    <2>5. Taken(0) <= Tokens(w)
      BY <1>2, Ahead
    <2> QED
      BY <1>3, <1>5, <2>1, <2>4, <2>5
  <1>8. CASE pc[0] = "token"
    <2>1. /\ Tokens(0) = entered[0] /\ Taken(0) = entered[0] - 1 /\ left[0] = entered[0] - 1
          /\ Tokens(Size - 1) = Taken(0)
      <3>1. Tokens(Size - 1) = Taken(0)
        BY <1>1, <1>5, <1>8, WaitsForNothing
      <3>2. entered[0] \in Nat
        BY <1>3, <1>5
      <3> QED
        BY <1>2, <1>5, <1>8, <3>1, <3>2 DEF Control, Tokens, Taken
    <2> DEFINE Behind == {p \in Process : Tokens(p) < entered[0]}
    <2>2. Size - 1 \in Behind
      BY <1>3, <1>5, <2>1
    <2>3. PICK q \in Behind : \A y \in Behind : q <= y
      BY <2>2, FirstProcess
    <2>4. q \in Process /\ Tokens(q) < entered[0] /\ q # 0
      BY <1>3, <1>5, <2>1, <2>3
    <2>5. Previous(q) \in Process /\ ~(q <= Previous(q)) /\ 0 <= Previous(q)
      BY <2>4, BarrierAssumption DEF Previous, Process
    <2>6. ~(Tokens(Previous(q)) < entered[0]) /\ Tokens(Previous(q)) <= Tokens(0)
      BY <1>2, <1>5, <2>3, <2>5 DEF Order
    <2>7. Tokens(Previous(q)) = entered[0]
      BY <1>3, <1>5, <2>1, <2>5, <2>6
    <2>8. Taken(0) <= Tokens(q)
      BY <1>2, <2>4, Ahead
    <2>9. Tokens(q) = entered[0] - 1
      BY <1>3, <1>5, <2>1, <2>4, <2>8
    <2>10. CASE pc[q] = "token"
      <3>1. Taken(q) = entered[0] /\ Taken(q) = Tokens(q)
        BY <1>1, <2>4, <2>7, <2>10, WaitsForNothing DEF Taken, Tokens
      <3> QED
        BY <1>3, <1>5, <2>9, <3>1
    <2>11. CASE pc[q] = "release"
      <3>1. Tokens(q) = entered[q] /\ left[q] = entered[q] - 1 /\ left[q] = left[0]
        <4>1. left[q] = left[0]
          BY <1>1, <1>6, <2>4, <2>11, WaitsForNothing
        <4>2. entered[q] \in Nat
          BY <1>3, <2>4
        <4> QED
          BY <1>2, <2>4, <2>11, <4>1, <4>2 DEF Tokens, Control
      <3> QED
        BY <1>3, <1>5, <2>1, <2>4, <2>9, <3>1
    <2>12. CASE pc[q] = "out"
      <3>1. Tokens(q) = entered[q] /\ entered[0] <= entered[q]
        BY <1>3, <1>4, <1>5, <2>4, <2>12 DEF Tokens
      <3> QED
        BY <1>3, <1>5, <2>4, <2>9, <3>1
    <2> QED
      BY <1>1, <2>4, <2>10, <2>11, <2>12, WaitsForNothing
  <1> QED
    BY <1>6, <1>7, <1>8

\* MPI_Barrier has no deadlock: of every barrier that has been entered by all, some
\* process can take the next step, for every number of processes and of rounds.
THEOREM NeverStuck == Spec => []NobodyStuck
  <1>1. Inv => NobodyStuck
    BY SomebodyGoesOn
  <1> QED
    BY <1>1, Invariant, PTL

\* MPI_Barrier is a barrier: nobody leaves one that somebody has not entered.
THEOREM IsBarrier == Spec => BarrierSpec
  <1>1. Init => Barriers!Init
    BY DEF Init, Barriers!Init, Process, Barriers!Process
  <1>2. Inv /\ [Next]_vars => [Barriers!Next]_(Barriers!vars)
    <2> SUFFICES ASSUME Inv, [Next]_vars PROVE [Barriers!Next]_(Barriers!vars)
      OBVIOUS
    <2>0. TypeOK /\ AssertsHold /\ Control /\ Order /\ Contents
      BY DEF Inv
    <2>1. 0 \in Process
      BY BarrierAssumption DEF Process
    <2>2. \A q \in Process :
            /\ Tokens(q) \in Int /\ Taken(q) \in Int /\ Told(q) \in Int
            /\ entered[q] \in Nat /\ left[q] \in Nat
      BY <2>0, CountersTyped
    <2>3. \A q \in Process : Taken(0) <= entered[q]
      BY <2>0, <2>1, <2>2, Ahead
    <2>4. Process = Barriers!Process
      BY DEF Process, Barriers!Process
    <2>5. CASE UNCHANGED vars
      BY <2>5 DEF vars, Barriers!vars
    <2>6. ASSUME NEW p \in Process, Enter(p) PROVE Barriers!Next
      <3>1. left[p] = entered[p]
        BY <2>0, <2>2, <2>6 DEF Enter, Control
      <3> QED
        BY <2>4, <2>6, <3>1 DEF Enter, Barriers!Next, Barriers!Enter
    <2>7. ASSUME NEW p \in Process, PassToken(p) \/ TakeToken(p)
          PROVE  UNCHANGED Barriers!vars
      BY <2>7 DEF PassToken, TakeToken, Barriers!vars
    <2>8. ASSUME NEW p \in Process, Released(p) PROVE Barriers!Next
      <3>1. p # 0 /\ left[p] < Told(p)
        BY <2>8, ReleaseArrives
      <3>2. Told(p) <= Taken(0)
        BY <2>0, <2>1, <2>2, <3>1, Ahead
      <3>3. \A q \in Process : left[p] < entered[q]
        BY <2>1, <2>2, <2>3, <3>1, <3>2
      <3>4. Barriers!Leave(p)
        BY <2>4, <2>8, <3>3 DEF Released, Barriers!Leave
      <3> QED
        BY <2>4, <3>4 DEF Barriers!Next
    <2>9. ASSUME Tell PROVE Barriers!Next \/ UNCHANGED Barriers!vars
      <3>1. left[0] < Taken(0)
        BY <2>0, <2>1, <2>2, <2>9 DEF Tell, Taken, Control
      <3>2. \A q \in Process : left[0] < entered[q]
        BY <2>1, <2>2, <2>3, <3>1
      <3>3. CASE told + 1 = Size
        <4>1. Barriers!Leave(0)
          BY <2>1, <2>4, <2>9, <3>2, <3>3 DEF Tell, Barriers!Leave
        <4> QED
          BY <2>1, <2>4, <4>1 DEF Barriers!Next
      <3>4. CASE told + 1 # Size
        BY <2>9, <3>4 DEF Tell, Barriers!vars
      <3> QED
        BY <3>3, <3>4
    <2> QED
      BY <2>5, <2>6, <2>7, <2>8, <2>9 DEF Next, Step
  <1> QED
    BY <1>1, <1>2, Invariant, PTL DEF Spec, BarrierSpec, Barriers!Spec
=============================================================================
