------------------------------ MODULE FlitQueue ------------------------------
(***************************************************************************)
(* What the callers of src/macsim/src/noc/flitfifo.h rely on: a bounded    *)
(* queue of flits that can also give up the oldest flit of one sender.     *)
(* The ring buffer that keeps this promise is FlitFifo.tla.                *)
(***************************************************************************)
EXTENDS Naturals, Sequences

CONSTANTS
  Rank,      \* the ranks a flit can come from
  Payload,   \* what a flit carries, its destination included
  Size,      \* the size given to flitfifo_init
  Nothing    \* what a failing operation leaves in its result parameter

Entry == [src : Rank, flit : Payload]

VARIABLES
  q,         \* the flits in the queue, oldest first
  ret        \* the result of the last operation

vars == <<q, ret>>

Result(ok, val) == [ok |-> ok, val |-> val]

\* The positions of the flits that come from src.
From(src) == {k \in 1 .. Len(q) : q[k].src = src}

\* k is the position of the oldest flit of src.
Oldest(src, k) == k \in From(src) /\ \A j \in From(src) : k <= j

Without(s, k) == [j \in 1 .. Len(s) - 1 |-> IF j < k THEN s[j] ELSE s[j + 1]]

Init == q = <<>> /\ ret = Result(FALSE, Nothing)

Insert(fc) ==
  IF Len(q) < Size
  THEN q' = Append(q, fc) /\ ret' = Result(TRUE, Nothing)
  ELSE q' = q /\ ret' = Result(FALSE, Nothing)

Remove ==
  IF q # <<>>
  THEN q' = Tail(q) /\ ret' = Result(TRUE, Head(q))
  ELSE q' = q /\ ret' = Result(FALSE, Nothing)

RemoveByRank(src) ==
  \/ \E k \in 1 .. Len(q) :
        /\ Oldest(src, k)
        /\ q' = Without(q, k)
        /\ ret' = Result(TRUE, q[k])
  \/ From(src) = {} /\ q' = q /\ ret' = Result(FALSE, Nothing)

FindRank(src) == q' = q /\ ret' = Result(From(src) # {}, Nothing)

FirstRank ==
  /\ q' = q
  /\ ret' = IF q = <<>> THEN Result(FALSE, Nothing) ELSE Result(TRUE, q[1].src)

Next ==
  \/ \E fc \in Entry : Insert(fc)
  \/ Remove
  \/ \E src \in Rank : RemoveByRank(src) \/ FindRank(src)
  \/ FirstRank

Spec == Init /\ [][Next]_vars
=============================================================================
