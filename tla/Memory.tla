--------------------------------- MODULE Memory --------------------------------
(***************************************************************************)
(* The memory of memory.c and the accesses of memory.h.  The table of the  *)
(* pages has one level here where the code has two; a page that was never  *)
(* written reads as zeros.  An access that reaches beyond its page is done *)
(* page by page.                                                           *)
(***************************************************************************)
EXTENDS Words, Sequences, SequencesExt

CONSTANTS
  PageSize,  \* bytes of a page, 4096 in the code
  Byte,      \* bits of a byte, 8
  MaxAddr    \* the paged memory ends here, at 4 GiB

MemoryAssumption == {PageSize, Byte, MaxAddr} \subseteq Nat \ {0}

\* memory_init.
NoMemory == <<>>

PageOf(m, a) ==
  IF a \div PageSize \in DOMAIN m THEN m[a \div PageSize] ELSE [k \in 1 .. PageSize |-> 0]

\* memory_read_var_p.
RECURSIVE ReadBytes(_, _, _)
ReadBytes(m, a, len) ==
  LET o == a % PageSize
      rem == PageSize - o
  IN IF len <= rem THEN SubSeq(PageOf(m, a), o + 1, o + len)
     ELSE SubSeq(PageOf(m, a), o + 1, PageSize) \o ReadBytes(m, a + rem, len - rem)

\* Mutant: what reaches beyond the page is not written.
WriteBytesToPage(m, a, src) ==
  LET o == a % PageSize
      page == [k \in 1 .. PageSize |->
                 IF k \in o + 1 .. o + Len(src) THEN src[k - o] ELSE PageOf(m, a)[k]]
  IN [p \in DOMAIN m \cup {a \div PageSize} |-> IF p = a \div PageSize THEN page ELSE m[p]]

\* memory_write_var_p.
RECURSIVE WriteBytes(_, _, _)
WriteBytes(m, a, src) ==
  LET o == a % PageSize
      rem == PageSize - o
      len == IF Len(src) <= rem THEN Len(src) ELSE rem
      page == [k \in 1 .. PageSize |->
                 IF k \in o + 1 .. o + len THEN src[k - o] ELSE PageOf(m, a)[k]]
      written == [p \in DOMAIN m \cup {a \div PageSize} |->
                    IF p = a \div PageSize THEN page ELSE m[p]]
  IN IF Len(src) <= rem THEN written
     ELSE WriteBytes(written, a + rem, SubSeq(src, rem + 1, Len(src)))

\* memory_load_u64_direct without the extension of the sign, which is Extend.
Load(m, a, len) == FoldRight(LAMBDA b, v : b + 2^Byte * v, ReadBytes(m, a, len), 0)
LoadSigned(w, m, a, len) == Extend(w, Byte * len, Load(m, a, len))

\* memory_store_direct, little endian.
Store(m, a, len, v) ==
  WriteBytes(m, a, [k \in 1 .. len |-> (v \div 2^(Byte * (k - 1))) % 2^Byte])
=============================================================================
