------------------------------- MODULE FlitFifo -------------------------------
(***************************************************************************)
(* The ring buffer of src/macsim/src/noc/flitfifo.h: the send, receive and *)
(* corner buffers of the PaterNoster routers.  buf, first and count are    *)
(* the members of flitfifo_t, each action is one of its functions.         *)
(***************************************************************************)
EXTENDS Naturals, Sequences

CONSTANTS
  Rank,      \* the ranks a flit can come from
  Payload,   \* what a flit carries, its destination included
  Size,      \* the size given to flitfifo_init; 0 can be configured
  Nothing    \* what a failing operation leaves in its result parameter

ASSUME SizeAssumption == Size \in Nat

Entry == [src : Rank, flit : Payload]
Index == 0 .. Size - 1

VARIABLES
  buf,       \* the entries, as malloc returned them until they are written
  first,     \* the index of the oldest flit
  count,     \* the number of flits
  ret        \* the result of the last operation

vars == <<buf, first, count, ret>>

Result(ok, val) == [ok |-> ok, val |-> val]
Failed == Result(FALSE, Nothing)

\* The index of the k-th oldest flit, k counted from 0: the loops of
\* flitfifo_find_rank and flitfifo_remove_by_rank wrap at size.
Slot(k) == (first + k) % Size

\* MUTANT of After: first is incremented and never wraps.
AfterNoWrap(i) == i + 1

\* The wrap of first after a removal.
After(i) == IF i + 1 = Size THEN 0 ELSE i + 1

\* The loop of find_rank and remove_by_rank stops at the k-th oldest flit.
Found(src, k) ==
  /\ k \in 0 .. count - 1
  /\ buf[Slot(k)].src = src
  /\ \A j \in 0 .. k - 1 : buf[Slot(j)].src # src

Absent(src) == \A k \in 0 .. count - 1 : buf[Slot(k)].src # src

Init ==
  /\ buf \in [Index -> Entry]
  /\ first = 0
  /\ count = 0
  /\ ret = Failed

Insert(fc) ==
  /\ IF count >= Size
     THEN UNCHANGED <<buf, count>> /\ ret' = Failed
     ELSE /\ buf' = [buf EXCEPT ![Slot(count)] = fc]
          /\ count' = count + 1
          /\ ret' = Result(TRUE, Nothing)
  /\ UNCHANGED first

Remove ==
  /\ IF count = 0
     THEN UNCHANGED <<first, count>> /\ ret' = Failed
     ELSE /\ count' = count - 1
          /\ first' = After(first)
          /\ ret' = Result(TRUE, buf[first])
  /\ UNCHANGED buf

\* memmove of the entries first .. i-1 one index up.
MovedUp(i) ==
  [j \in Index |-> IF j \in first + 1 .. i THEN buf[j - 1] ELSE buf[j]]

\* MUTANT of MovedDown: the memmove leaves the last entry where it is.
MovedDownTooFew(i, remain) ==
  [j \in Index |-> IF i <= j /\ j + 2 < i + remain THEN buf[j + 1] ELSE buf[j]]

\* memmove of the remain-1 entries behind i one index down.
MovedDown(i, remain) ==
  [j \in Index |-> IF i <= j /\ j + 1 < i + remain THEN buf[j + 1] ELSE buf[j]]

RemoveByRank(src) ==
  \/ \E k \in 0 .. count - 1 :
        /\ Found(src, k)
        /\ IF Slot(k) >= first
           THEN buf' = MovedUp(Slot(k)) /\ first' = After(first)
           ELSE buf' = MovedDown(Slot(k), count - k) /\ UNCHANGED first
        /\ count' = count - 1
        /\ ret' = Result(TRUE, buf[Slot(k)])
  \/ Absent(src) /\ ret' = Failed /\ UNCHANGED <<buf, first, count>>

FindRank(src) ==
  /\ ret' = Result(~Absent(src), Nothing)
  /\ UNCHANGED <<buf, first, count>>

FirstRank ==
  /\ ret' = IF count = 0 THEN Failed ELSE Result(TRUE, buf[first].src)
  /\ UNCHANGED <<buf, first, count>>

Next ==
  \/ \E fc \in Entry : Insert(fc)
  \/ Remove
  \/ \E src \in Rank : RemoveByRank(src) \/ FindRank(src)
  \/ FirstRank

Spec == Init /\ [][Next]_vars

-----------------------------------------------------------------------------
\* The members of flitfifo_t stay in range: first is an index of buf unless
\* the buffer has no entry at all, and count never exceeds size.
TypeOK ==
  /\ buf \in [Index -> Entry]
  /\ first \in Nat /\ (first < Size \/ first = 0)
  /\ count \in 0 .. Size
  /\ ret \in [ok : BOOLEAN, val : Entry \cup Rank \cup {Nothing}]

Contents == [k \in 1 .. count |-> buf[Slot(k - 1)]]

Queue == INSTANCE FlitQueue WITH q <- Contents

\* Whatever sequence of insertions, removals and removals from the middle is
\* made, and wherever the contents wrap, the ring buffer returns what a queue
\* would: flits in arrival order, per sender too, no entry that was not written.
QueueSpec == Queue!Spec
=============================================================================
