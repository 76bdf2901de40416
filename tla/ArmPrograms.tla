------------------------------- MODULE ArmPrograms -----------------------------
(***************************************************************************)
(* Programs for the cores of armv6m.c and armv3.c, one per scenario of     *)
(* Cores.  What a program is to compute is said in Cores, of its last      *)
(* registers.                                                              *)
(***************************************************************************)
EXTENDS Integers, Sequences, SequencesExt

A(op, f, d, s, t, imm) == [op |-> op, f |-> f, d |-> d, s |-> s, t |-> t, imm |-> imm, list |-> {}]
Shift(f, d, s, imm) == A("shift", f, d, s, 0, imm)
Add3(f, d, s, t) == A("addsub", f, d, s, t, 0)
AddImm(f, d, s, imm) == A("addsub", f, d, s, 0, imm)
Movs(d, imm) == A("movs", "", d, 0, 0, imm)
Dp(f, d, s) == A("dp", f, d, s, 0, 0)
Hi(f, d, s) == A("hi", f, d, s, 0, 0)
Mov(d, s) == Hi("mov", d, s)
Mem(op, f, d, s, imm) == A(op, f, d, s, 0, imm)
Ext(f, d, s) == A("extend", f, d, s, 0, 0)
Calc(f, d, imm) == A("calc", f, d, 0, 0, imm)
Many(op, d, list) == [A(op, "", d, 0, 0, 0) EXCEPT !.list = list]
B(cond, disp) == A("b", cond, 0, 0, 0, disp)
Svc(imm) == A("svc", "", 0, 0, 0, imm)
Bkpt == A("bkpt", "", 0, 0, 0, 0)
None == A("none", "", 0, 0, 0, 0)
\* Instructions of two halfwords.
Long(i) == <<i, None>>
Bl(disp) == Long(A("bl", "", 0, 0, 0, disp))
Mrs(f, d) == Long(A("mrs", f, d, 0, 0, 0))
Msr(f, d) == Long(A("msr", f, d, 0, 0, 0))
Dsb == Long(A("dsb", "", 0, 0, 0, 0))

\* The results are said in Cores; arg is what a scenario puts into the registers.

\* Numbers of two words, r1 and r2, r3 and r4: their sum in r5 and r6, their
\* difference in r0 and r7, and in r8 and r9 whether the first is the smaller one,
\* with and without signs.  r12 is 1.
DoubleWords ==
  << Add3("add", 5, 1, 3), Mov(6, 2), Dp("adc", 6, 4),
     Add3("sub", 0, 1, 3), Mov(7, 2), Dp("sbc", 7, 4),
     B("ge", 0), Mov(8, 12), B("cs", 0), Mov(9, 12), Bkpt >>

\* r1 compared with r2: a bit of r8 and of r4 for each condition that does not hold.
Conditions == << <<"eq", "ne", "cs", "cc", "hi", "ls", "mi">>, <<"ge", "lt", "gt", "le", "pl", "vs", "vc">> >>
Comparison(cmp, conds) ==
  <<Mov(4, 0), Mov(5, 12)>>
  \o FlattenSeq([k \in DOMAIN conds |->
       << cmp, B(conds[k], 0), Add3("add", 4, 4, 5), Shift("lsl", 5, 5, 1) >>])
Comparisons ==
  Comparison(Dp("cmp", 1, 2), Conditions[1]) \o << Mov(8, 4) >>
  \o Comparison(Hi("cmp", 1, 2), Conditions[2]) \o << Bkpt >>

\* r1 shifted by r2, with the last bit that is lost added to it; r1 rotated by r2.
Shifts ==
  << Movs(7, 0), Mov(3, 1), Dp("lsl", 3, 2), Mov(4, 1), Dp("lsr", 4, 2), Dp("adc", 4, 7),
     Mov(5, 1), Dp("asr", 5, 2), Dp("adc", 5, 7), Bkpt >>
Rotation == << Mov(6, 1), Dp("ror", 6, 2), Bkpt >>
ShiftsByImmediates ==
  << Movs(7, 0), Shift("lsl", 3, 1, 3), Dp("adc", 3, 7), Shift("lsr", 4, 1, 3), Dp("adc", 4, 7),
     Shift("asr", 5, 1, 3), Dp("adc", 5, 7), Shift("lsr", 6, 1, 0), Dp("adc", 6, 7),
     Shift("asr", 2, 1, 0), Dp("adc", 2, 7), None >>

\* Identities of bits and sums.
Logic ==
  << Mov(3, 1), Dp("eor", 3, 2), Mov(4, 1), Dp("and", 4, 2), Shift("lsl", 5, 4, 1), Add3("add", 3, 3, 5),
     Mov(6, 1), Dp("bic", 6, 2), Dp("orr", 4, 6),
     Dp("mvn", 5, 1), Dp("rsb", 6, 5), AddImm("subi", 6, 6, 1), Add3("sub", 5, 6, 1),
     Dp("tst", 1, 2), B("eq", 0), Mov(7, 12), Dp("cmn", 1, 2), B("cc", 0), Mov(8, 12),
     Dp("cmn", 1, 2), B("vc", 0), Mov(9, 12), Mov(6, 1), Dp("mul", 6, 2), Bkpt >>

\* Words in memory, as a whole, in parts and in blocks.  The first is at 256, where
\* r0 points to; the stack is at 512.
MemoryBlocks ==
  << Mem("ldr-lit", "ldr", 1, 0, 63), Movs(7, 4), A("mem", "str", 2, 0, 7, 0),
     Mem("mem-imm", "ldrb", 3, 0, 3), Mem("mem-imm", "strb", 3, 0, 8),
     Mem("mem-imm", "ldrb", 3, 0, 2), Mem("mem-imm", "strb", 3, 0, 9),
     Mem("mem-imm", "ldrh", 3, 0, 0), Ext("rev16", 3, 3), Mem("mem-imm", "strh", 3, 0, 5),
     Mem("mem-imm", "ldr", 4, 0, 2), Ext("rev", 4, 4),
     Movs(7, 7), A("mem", "ldrsb", 6, 0, 7, 0), Mov(8, 6),
     Ext("rev", 3, 2), Ext("sxtb", 6, 3), Mov(9, 6), Ext("rev", 3, 1), Ext("uxtb", 3, 3), Mov(11, 3),
     Movs(7, 6), A("mem", "ldrsh", 5, 0, 7, 0), Ext("uxth", 3, 2), Shift("lsl", 7, 5, 6), Add3("add", 7, 7, 3), Mov(10, 7),
     Ext("rev", 3, 2), Ext("revsh", 3, 3), Ext("sxth", 3, 3),
     Many("push", 0, {1, 2, 4}), Mem("mem-sp", "str", 3, 0, 2), Calc("add", 7, 1), Many("ldm", 7, {0, 6}),
     Calc("sp", 0, 3), Many("stm", 7, {4, 5}), Many("pop", 0, {2, 3}),
     Mov(1, 13), AddImm("subi", 1, 1, 8), Many("ldm", 1, {1, 4}), Bkpt >>

\* Calls and jumps; r4 and r5 count the calls of the functions at 36 and 48.
Calls ==
  Bl(32) \o
  << Calc("adr", 1, 10), A("blx", "", 0, 1, 0, 0), Calc("adr", 2, 1), Mov(15, 2),
     None, None, Movs(3, 2), Hi("add", 15, 3),
     None, None, A("bx", "", 0, 15, 0, 0), None, Mov(6, 15), B("al", 0), None, Bkpt,
     AddImm("addi", 4, 4, 1), Many("push", 0, {4, 14}) >>
  \o Bl(4) \o << Many("pop", 0, {7, 15}), None, AddImm("addi", 5, 5, 1), A("bx", "", 0, 14, 0, 0) >>

\* Special registers: r4 and r5 for the two stacks, r6 for control, r3 for the flags.
\* r0 is 0 and r7 is 256, a new address for both stacks.
Special ==
  Msr("psp", 4) \o Msr("msp", 5) \o Msr("apsr", 3) \o Msr("control", 6)
  \o <<Many("push", 0, {0})>> \o Mrs("psp", 1) \o Mrs("msp", 2) \o Mrs("apsr", 8) \o Mrs("control", 9)
  \o << A("cps", "", 0, 0, 0, 1) >> \o Mrs("primask", 10) \o Msr("primask", 0) \o Mrs("primask", 11) \o Mrs("ipsr", 12)
  \o Msr("psp", 7) \o Msr("msp", 7) \o Msr("control", 0) \o Mrs("psp", 3) \o Mrs("msp", 4) \o Dsb \o <<Bkpt>>

\* A call of the operating system from a stack, with flags and a privilege that r4,
\* r6 and r5 choose.  The handler at 32 changes all it may change, calls itself as
\* often as r7 says and returns.
Exceptions ==
  Msr("psp", 4) \o Msr("apsr", 6) \o Msr("control", 5) \o << Svc(42), Bkpt >>
  \o [k \in 1 .. 8 |-> None]
  \o << Many("push", 0, {4, 14}), Movs(4, 0), Mov(0, 4), Mov(12, 4), Mov(14, 4), AddImm("cmpi", 0, 7, 0),
        B("eq", 2), AddImm("subi", 7, 7, 1), Svc(42), Many("pop", 0, {4}), Many("pop", 0, {2}),
        A("bx", "", 0, 2, 0, 0) >>
\* Any other call only stores the registers.
OtherCall == << Svc(7), Many("pop", 0, {4, 5, 6, 7}), Bkpt >>

\* Two flits to core 2, the number of the sender and 5 more.
ArmSend ==
  << Svc(81), Mov(1, 0), Movs(0, 2), Svc(82), AddImm("addi", 1, 1, 5), Svc(82), Svc(84), Mov(5, 0), Svc(1), Bkpt >>
\* All flits of the two senders, first those of the one whose flit comes first.
ArmRecv ==
  << Svc(87), AddImm("addi", 3, 0, 1), B("eq", -8), Mov(2, 0), Svc(86), Mov(7, 0),
     Mov(0, 2), Svc(83), Mov(3, 0), Mov(0, 2), Svc(83), Mov(4, 0),
     Dp("eor", 2, 12), Mov(0, 2), Svc(83), Mov(5, 0), Mov(0, 2), Svc(83), Mov(6, 0), Svc(80), Bkpt >>

-----------------------------------------------------------------------------
\* Programs for the cores of armv3.c.

V(op, f) ==
  [op |-> op, f |-> f, cond |-> "al", set |-> FALSE, n |-> 0, d |-> 0, m |-> 0, s |-> 0,
   sh |-> [f |-> "lsl", by |-> "no", m |-> 0, k |-> 0],
   up |-> TRUE, pre |-> TRUE, wb |-> FALSE, imm |-> 0, list |-> {}]
By(m, f, k) == [f |-> f, by |-> "imm", m |-> m, k |-> k]
ByReg(m, f, k) == [f |-> f, by |-> "reg", m |-> m, k |-> k]
R0(m) == By(m, "lsl", 0)
Num(k) == By(0, "imm", k)
Data(f, d, n, sh) == [V("data", f) EXCEPT !.d = d, !.n = n, !.sh = sh]
Move(d, sh) == Data("mov", d, 0, sh)
S(i) == [i EXCEPT !.set = TRUE]
If(cond, i) == [i EXCEPT !.cond = cond]
Mul(f, n, d, m, s) == [V("mul", f) EXCEPT !.n = n, !.d = d, !.m = m, !.s = s]
MemAt(f, d, n, imm) == [V("mem", f) EXCEPT !.d = d, !.n = n, !.imm = imm]
Post(i) == [i EXCEPT !.pre = FALSE]
Wb(i) == [i EXCEPT !.wb = TRUE]
Down(i) == [i EXCEPT !.up = FALSE]
Block(op, n, list) == [V(op, "") EXCEPT !.n = n, !.list = list]
BranchTo(op, k) == [V(op, "") EXCEPT !.imm = k]
Call(imm) == [V("svc", "") EXCEPT !.imm = imm]
Bx(m) == [V("bx", "") EXCEPT !.m = m]

\* As DoubleWords, and in r10 and r11 the difference the other way round.
DoubleWords3 ==
  << S(Data("add", 5, 1, R0(3))), Data("adc", 6, 2, R0(4)),
     S(Data("rsb", 10, 1, R0(3))), Data("rsc", 11, 2, R0(4)),
     S(Data("sub", 0, 1, R0(3))), S(Data("sbc", 7, 2, R0(4))),
     If("lt", Move(8, Num(1))), If("cc", Move(9, Num(1))), Call(0) >>

\* A bit of r8 and of r4 for each condition that holds after comparing r1 with r2.
Comparisons3(conds) ==
  << S(Data("cmp", 0, 1, R0(2))) >>
  \o FlattenSeq([j \in 1 .. 2 |-> [k \in DOMAIN conds[j] |->
       If(conds[j][k], Data("orr", IF j = 1 THEN 8 ELSE 4, IF j = 1 THEN 8 ELSE 4, Num(2^(k - 1))))]])
  \o << S(Data("tst", 0, 1, R0(2))), If("ne", Move(5, Num(1))), S(Data("teq", 0, 1, R0(2))), If("eq", Move(6, Num(1))),
        S(Data("cmn", 0, 1, R0(2))), If("cs", Move(7, Num(1))), If("vs", Move(9, Num(1))), Call(0) >>

\* As Shifts and Rotation; and r2 and r1 shifted to the right by one in r9 and r10.
Shifts3 ==
  << S(Move(3, ByReg(1, "lsl", 2))), S(Move(4, ByReg(1, "lsr", 2))), Data("adc", 4, 4, R0(0)),
     S(Data("tst", 0, 1, R0(1))), S(Move(5, ByReg(1, "asr", 2))), Data("adc", 5, 5, R0(0)),
     S(Move(9, By(2, "lsr", 1))), Move(10, By(1, "rrx", 0)), Call(0) >>
Rotation3 == << S(Move(6, ByReg(1, "ror", 2))), Move(7, By(1, "ror", 4)), Call(0) >>

\* Identities of bits, sums and products.
Logic3 ==
  << Data("eor", 3, 1, R0(2)), Data("and", 4, 1, R0(2)), Data("add", 3, 3, By(4, "lsl", 1)),
     Data("bic", 5, 1, R0(2)), S(Data("orr", 4, 4, R0(5))), Data("mvn", 5, 0, R0(1)), Data("add", 5, 5, R0(1)),
     [V("clz", "") EXCEPT !.d = 6, !.m = 1], Data("sub", 7, 1, By(1, "asr", 3)),
     Mul("mul", 8, 0, 1, 2), S(Mul("mla", 9, 8, 1, 2)), V("none", "") >>
\* Products of r1 and r2 in two words, and their sums with r5 and r6.
Products3 ==
  << Move(7, R0(5)), Move(8, R0(6)), Move(9, R0(5)), Move(10, R0(6)), Mul("umull", 4, 3, 1, 2),
     S(Mul("smull", 6, 5, 1, 2)), If("mi", Move(0, Num(1))), If("eq", Move(11, Num(1))),
     Mul("umlal", 8, 7, 1, 2), Mul("smlal", 10, 9, 1, 2), Mul("umaal", 13, 12, 1, 2), Call(0) >>

\* Single words and halves, by all ways of indexing.  r0 is the address, r12 is 4.
Words3 ==
  << Post(MemAt("str", 1, 0, 8)), [Wb(Down(MemAt("str", 2, 0, 0))) EXCEPT !.sh = R0(12)],
     MemAt("ldrsb", 3, 0, 3), MemAt("ldrh", 4, 0, 2), MemAt("ldrsh", 5, 0, 2), MemAt("ldrb", 6, 0, 0),
     Wb(MemAt("strh", 1, 0, 4)), Down(Post(MemAt("strb", 2, 0, 4))), MemAt("ldr", 7, 0, 4), Data("add", 0, 0, Num(8)),
     Down(MemAt("ldrd", 8, 0, 8)), Wb(MemAt("str", 8, 0, 4)), MemAt("str", 9, 0, 4), MemAt("ldr", 10, 0, 4), Wb(MemAt("str", 0, 0, 4)),
     MemAt("ldr", 11, 0, 0), MemAt("strd", 9, 0, 0) >>
\* Two registers stored and loaded in blocks of every direction.
Pair(st, ld, a, b) == << Wb([Block("stm", 13, {1, 2}) EXCEPT !.up = st[1], !.pre = st[2]]),
                         Wb([Block("ldm", 13, {a, b}) EXCEPT !.up = ld[1], !.pre = ld[2]]) >>
Blocks3 ==
  Pair(<<TRUE, TRUE>>, <<FALSE, FALSE>>, 3, 4) \o Pair(<<TRUE, FALSE>>, <<FALSE, TRUE>>, 5, 6)
  \o Pair(<<FALSE, TRUE>>, <<TRUE, FALSE>>, 7, 8) \o Pair(<<FALSE, FALSE>>, <<TRUE, TRUE>>, 9, 10)
  \o << Block("stm", 13, {2, 13}), Wb(Block("stm", 1, {1, 2})), Down(Post(Block("ldm", 1, {11, 12}))), Call(0) >>

\* The function at 32 calls the one at 48; r4 and r5 count the calls.
Calls3 ==
  << BranchTo("bl", 6), Move(6, R0(15)), BranchTo("b", 0), V("none", ""),
     Wb(Down(Block("stm", 13, {6, 15}))), MemAt("ldr", 15, 13, 4), V("none", ""), Call(0),
     Data("add", 4, 4, Num(1)), Wb(Down(Block("stm", 13, {4, 14}))), BranchTo("bl", 0), Wb(Post(Block("ldm", 13, {7, 15}))),
     Data("add", 5, 5, Num(1)), Bx(14) >>

\* As ArmSend and ArmRecv.
Send3 ==
  << Call(81), Move(1, R0(0)), Move(0, Num(2)), Call(82), Data("add", 1, 1, Num(5)), Call(82), Call(84), Call(1), Call(0) >>
Recv3 ==
  << Call(87), S(Data("cmn", 0, 0, Num(1))), If("eq", BranchTo("b", -4)), Move(2, R0(0)), Call(86), Move(7, R0(0)),
     Move(0, R0(2)), Call(83), Move(3, R0(0)), Move(0, R0(2)), Call(83), Move(4, R0(0)),
     Data("eor", 2, 2, Num(1)), Move(0, R0(2)), Call(83), Move(5, R0(0)), Move(0, R0(2)), Call(83), Move(6, R0(0)),
     Call(80), Call(0) >>
================================================================================
