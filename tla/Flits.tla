-------------------------------- MODULE Flits --------------------------------
(***************************************************************************)
(* What the routers of src/macsim/src/noc that have a context of their own *)
(* have in common: flits, and buffers that hold them oldest first.  Two    *)
(* kinds of buffers behave alike, the ring buffers of flitfifo.h, which    *)
(* the module FlitFifo models in detail, and the lists of pbuffer.c.       *)
(***************************************************************************)
EXTENDS Torus, SequencesExt

CONSTANTS
  Flows, MaxFlits,  \* the pairs <<src, dest>> and their number of flits
  NoFlit            \* an input, an output or a slot without a flit

Flit == [src : Node, dest : Node, seq : 1 .. MaxFlits]

\* buffer_init.
EmptyBuffer == <<>>

\* msgenque and flitfifo_insert: refused, so that the buffer stays as it is,
\* when no slot is left.
HasSlot(q, size) == Len(q) < size
Enqueued(q, size, fc) == IF HasSlot(q, size) THEN Append(q, fc) ELSE q

\* msgdeque and flitfifo_remove.
Dequeued(q) == IF q = EmptyBuffer THEN q ELSE Tail(q)
Oldest(q) == IF q = EmptyBuffer THEN NoFlit ELSE Head(q)

\* Mutant: msgdeque_rank does not stop at the first flit of the sender.
LastFrom(q, s) == SelectLastInSeq(q, LAMBDA fc : fc.src = s)

\* msgdeque_rank and flitfifo_remove_by_rank take the oldest flit of a sender.
FirstFrom(q, s) == SelectInSeq(q, LAMBDA fc : fc.src = s)
WithoutFirstFrom(q, s) == RemoveAt(q, FirstFrom(q, s))

Dec(k) == IF k = 0 THEN 0 ELSE k - 1

-----------------------------------------------------------------------------
\* The flit with number k of flow f, and the number of places it is in, when
\* held[n] lists what router n holds.
IsFlit(fc, f, k) == fc # NoFlit /\ fc.src = f[1] /\ fc.dest = f[2] /\ fc.seq = k
Copies(held, f, k) ==
  Cardinality(UNION {{<<n, i>> : i \in {i \in DOMAIN held[n] : IsFlit(held[n][i], f, k)}}
                     : n \in DOMAIN held})
=============================================================================
