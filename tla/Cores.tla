--------------------------------- MODULE Cores ---------------------------------
(***************************************************************************)
(* The cores of the simulator, simulated in turns with the network between *)
(* them.  A scenario, chosen in the initial state, gives every node its    *)
(* kind, its program and its registers.                                    *)
(***************************************************************************)
EXTENDS Simulation, ArmPrograms

CONSTANTS Chosen   \* the scenarios to be considered

VARIABLES
  scenario,   \* its name and the registers at the start
  nt          \* of Netrace

vars == <<scenario, nt, simVars>>

-----------------------------------------------------------------------------
\* Programs.

Assemble(step, prog) == [a \in {step * (k - 1) : k \in DOMAIN prog} |-> prog[a \div step + 1]]
Listed(is) == FoldSet(LAMBDA i, q : Append(q, i), <<>>, is)
I(op, f, d, s, t, imm) == [op |-> op, f |-> f, d |-> d, s |-> s, t |-> t, imm |-> imm]
RR(f, d, s, t) == I("op", f, d, s, t, 0)
RI(f, d, s, imm) == I("op-imm", f, d, s, 0, imm)
Br(f, s, t, disp) == I("branch", f, 0, s, t, disp)
Mc(f, d, s, t) == I("mc", f, d, s, t, 0)
CsrOp(f, d, csr, s, imm) == [op |-> "csr", f |-> f, d |-> d, s |-> s, t |-> 0, imm |-> imm, csr |-> csr]
Jal(d, disp) == I("jal", "", d, 0, 0, disp)
Exit == <<CsrOp("rwi", 0, "mtohost", 0, 1)>>
Illegal == <<I("none", "", 0, 0, 0, 0)>>

R == INSTANCE RiscvAlu WITH XLEN <- 8, MulCycles <- 2, Div32Cycles <- 2, Div64Cycles <- 3

\* Every operation with the operands x1 and x2.
AluProgram == Listed({RR(f, 3, 1, 2) : f \in R!AluOps}) \o Exit
ImmProgram ==
  Listed({RI(f, 3, 1, imm) : f \in (R!SimpleOps \ {"sub", "sll", "srl", "sra"}) \cup {"addw"}, imm \in {5, -3}})
  \o Listed({RI(f, 3, 1, imm) : f \in {"sll", "srl", "sra", "sllw", "srlw", "sraw"}, imm \in {0, 3}})
  \o Listed({RI(f, 3, 1, 7) : f \in {"sll", "srl", "sra"}}) \o Illegal

\* Stores and loads across the borders of pages.
MemProgram ==
  << I("store", "sd", 0, 0, 1, 2), I("load", "lb", 3, 0, 0, 9), RR("add", 4, 3, 0),
     I("load", "lbu", 3, 0, 0, 9), I("load", "lh", 3, 0, 0, 3), I("load", "lhu", 3, 0, 0, 8),
     I("store", "sw", 0, 0, 2, 5), I("load", "lw", 3, 0, 0, 6), I("load", "lwu", 3, 0, 0, 6),
     I("store", "sb", 0, 0, 2, 4), I("load", "ld", 3, 0, 0, 3), I("store", "sh", 0, 0, 3, 11),
     I("load", "ld", 0, 0, 0, 9), RR("add", 3, 0, 0) >> \o Exit

\* All branches, with the operands x1 and x2, exceptions and control registers.
\* The handler at 4 skips the instruction that has raised the exception.
ControlProgram ==
  << Jal(4, 24),
     CsrOp("rs", 4, "mepc", 0, 0), RI("add", 4, 4, 4), CsrOp("rw", 0, "mepc", 4, 0),
     CsrOp("rs", 3, "mcause", 0, 0), I("eret", "", 0, 0, 0, 0),
     CsrOp("rw", 3, "mtvec", 4, 0), I("auipc", "", 4, 0, 0, 12), I("jalr", "", 4, 4, 0, 4) >>
  \o Illegal \o
  << I("lui", "", 3, 0, 0, 16) >>
  \o FlattenSeq([k \in 1 .. 6 |->
       <<Br(<<"beq", "bne", "blt", "bge", "bltu", "bgeu">>[k], 1, 2, 8), RI("add", 3, 3, k)>>])
  \o << I("ecall", "", 0, 0, 0, 0), I("fence", "", 0, 0, 0, 0), I("ebreak", "", 0, 0, 0, 0),
        CsrOp("rw", 3, "fcsr", 1, 0), CsrOp("rs", 3, "fflags", 2, 0), CsrOp("rci", 3, "frm", 0, 3),
        CsrOp("rsi", 3, "fcsr", 0, 9), CsrOp("rc", 3, "mscratch", 2, 0), CsrOp("rwi", 3, "mstatus", 0, 17),
        CsrOp("rs", 3, "mhartid", 0, 0), CsrOp("rw", 3, "mtohost", 0, 0), CsrOp("rw", 3, "frm", 1, 0),
        CsrOp("rw", 3, "nosuch", 0, 0) >>

\* Two senders, one with each set of instructions, and a receiver.
SendProgram == << Mc(0, 0, 1, 2), Mc(0, 0, 1, 1), Mc(1, 3, 0, 0), RR("add", 4, 3, 3),
                  CsrOp("rs", 3, "sendrdy", 0, 0) >> \o Exit
SndProgram == << I("pbr", 0, 0, 0, 0, 0), I("pimp", 0, 0, 1, 2, 0),
                 I("pbr", 1, 0, 0, 0, 8), Jal(0, -4), I("pimp", 0, 0, 1, 1, 0) >> \o Exit
RecvProgram ==
  << Mc(4, 3, 1, 0), RR("add", 4, 3, 0), Mc(7, 3, 0, 0), Br("blt", 3, 0, -4), Mc(5, 4, 3, 0), Mc(4, 4, 3, 0),
     I("pbr", 2, 0, 0, 0, 0), I("pimp", 2, 3, 0, 0, 0), I("pimp", 3, 4, 0, 0, 0),
     I("pbr", 3, 0, 0, 0, 8), Jal(0, -4), CsrOp("rs", 3, "nextrecv", 0, 0), Mc(4, 4, 3, 0) >> \o Exit

RiscvCodes ==
  [alu |-> Assemble(4, AluProgram), imm |-> Assemble(4, ImmProgram), mem |-> Assemble(4, MemProgram),
   control |-> Assemble(4, ControlProgram), send |-> Assemble(4, SendProgram),
   snd |-> Assemble(4, SndProgram), recv |-> Assemble(4, RecvProgram)]

Rv == INSTANCE Riscv WITH
  XLEN <- 8, MulCycles <- 2, Div32Cycles <- 2, Div64Cycles <- 3,
  Codes <- RiscvCodes, RvPage <- 4, RvByte <- 1

\* Armv6-M with words of 12 bits and bytes of 3.
ArmCodes ==
  [double |-> Assemble(2, DoubleWords), compare |-> Assemble(2, Comparisons), shift |-> Assemble(2, Shifts),
   rotate |-> Assemble(2, Rotation), shiftimm |-> Assemble(2, ShiftsByImmediates), logic |-> Assemble(2, Logic),
   blocks |-> Assemble(2, MemoryBlocks), calls |-> Assemble(2, Calls), special |-> Assemble(2, Special),
   exceptions |-> Assemble(2, Exceptions), other |-> Assemble(2, OtherCall),
   armsend |-> Assemble(2, ArmSend), armrecv |-> Assemble(2, ArmRecv)]
Arm == INSTANCE Armv6m WITH
  W <- 12, Codes <- ArmCodes, ArmPage <- 16, ArmByte <- 3, VectorTable <- 2048

\* ARM v3, with the same words.
Armv3Codes ==
  [double3 |-> Assemble(4, DoubleWords3), compare3 |-> Assemble(4, Comparisons3(Conditions)),
   shift3 |-> Assemble(4, Shifts3), rotate3 |-> Assemble(4, Rotation3), logic3 |-> Assemble(4, Logic3),
   products3 |-> Assemble(4, Products3), words3 |-> Assemble(4, Words3), blocks3 |-> Assemble(4, Blocks3),
   calls3 |-> Assemble(4, Calls3), send3 |-> Assemble(4, Send3), recv3 |-> Assemble(4, Recv3)]
Arm3 == INSTANCE Armv3 WITH W <- 12, Codes <- Armv3Codes, ArmPage <- 16, ArmByte <- 3

\* Synthetic traffic, four flits of each of two cores and two of each of four.
Tr == INSTANCE Traffic WITH NocWidth <- 2, NocHeight <- 2,
  MaxFlits <- [type \in {"uniform", "transpose", "bitrev", "shuffle", "tornado", "neighbor"} |->
                 IF type = "uniform" THEN 4 ELSE 2]

\* A trace between two cores: requests and their answers, a packet that waits for
\* two others, one of a core to itself and a gap of more cycles than are read ahead.
Packet(cycle, src, dst, srcType, dstType, request, len, deps) ==
  [cycle |-> cycle, src |-> src, dst |-> dst, srcType |-> srcType, dstType |-> dstType,
   request |-> request, len |-> len, deps |-> deps]
ShortTrace ==
  << Packet(0, 0, 1, "L1", "L2", TRUE, 1, {2, 3}), Packet(1, 1, 0, "L2", "L1", FALSE, 2, {5}),
     Packet(1, 1, 1, "L2", "MC", FALSE, 1, {5, 6}), Packet(2, 1, 0, "MC", "L2", FALSE, 2, {}),
     Packet(3, 0, 1, "L1", "L2", FALSE, 1, {}), Packet(7, 0, 1, "L1", "L2", TRUE, 1, {7}),
     Packet(7, 1, 0, "L2", "MC", FALSE, 1, {}) >>
Net == INSTANCE Netrace WITH
  Trace <- ShortTrace, NumCycles <- 8, ReadAheadCycles <- 2,
  MemLatency <- 3, TagLatency <- 1, BankLatency <- 2, Horizon <- 12

ASSUME CoresAssumption ==
  /\ Rv!RiscvAssumption /\ Rv!RiscvAluAssumption
  /\ Arm!Armv6mAssumption /\ Arm3!Armv3Assumption /\ Net!NetraceAssumption

-----------------------------------------------------------------------------
\* Operands at the limits of the numbers and of their halves.
Operands == {0, 1, 7, 8, 90, 127, 128, 248, 255}
Regs(a, b) == (0 :> 0) @@ (1 :> a) @@ (2 :> b) @@ (3 :> 0) @@ (4 :> 0)
ArmOperands == {0, 1, 63, 64, 1029, 2047, 2048, 4095}
ArmRegs(set) == [x \in 0 .. 15 |-> IF x \in DOMAIN set THEN set[x] ELSE 0]
Two(as, bs) == {ArmRegs((1 :> a) @@ (2 :> b) @@ (12 :> 1)) : a \in as, b \in bs}

\* What the registers are in the beginning of a program.
RECURSIVE Given(_)
Given(code) ==
  CASE code \in {"alu", "control", "mem"} -> {Regs(a, b) : a \in Operands, b \in Operands}
    [] code = "imm" -> {Regs(a, 0) : a \in Operands}
    [] code = "send" -> {Regs(2, 9)}
    [] code = "snd" -> {Regs(2, 8)}
    [] code = "recv" -> {Regs(0, 0)}
    [] code = "double" ->
         {ArmRegs((1 :> a) @@ (2 :> b) @@ (3 :> c) @@ (4 :> d) @@ (12 :> 1)) :
            a \in {0, 1, 4095}, b \in {0, 2047, 2048}, c \in {0, 1, 4095}, d \in {0, 1, 2048, 4095}}
    [] code = "shift" -> Two(ArmOperands, {0, 1, 6, 11, 12, 13})
    [] code = "rotate" -> Two(ArmOperands, {0, 1, 6, 11})
    [] code \in {"compare", "logic"} -> Two(ArmOperands, ArmOperands)
    [] code = "shiftimm" -> Two(ArmOperands, {0})
    [] code = "blocks" -> {ArmRegs((0 :> 256) @@ (1 :> a) @@ (2 :> b) @@ (13 :> 512)) :
                             a \in {1029, 2047, 4033}, b \in ArmOperands}
    [] code = "calls" -> {ArmRegs(13 :> 512)}
    [] code = "special" ->
         {ArmRegs((3 :> fl) @@ (4 :> p) @@ (5 :> m) @@ (6 :> c) @@ (7 :> 256)) :
            fl \in {0, 1792, 2816}, p \in {512, 517}, m \in {1024, 1031}, c \in 0 .. 3}
    [] code = "exceptions" ->
         {ArmRegs((1 :> 7) @@ (4 :> p) @@ (5 :> c) @@ (6 :> fl) @@ (7 :> k) @@ (13 :> m)) :
            p \in {508, 512}, c \in 0 .. 3, fl \in {0, 1792, 2816}, k \in {0, 2}, m \in {1020, 1024}}
    [] code = "other" -> {ArmRegs((0 :> 1) @@ (1 :> 2) @@ (2 :> 3) @@ (3 :> 4) @@ (13 :> m)) : m \in {512, 516}}
    [] code \in {"armsend", "armrecv", "send3", "recv3"} -> {ArmRegs(12 :> 1)}
    [] code = "double3" -> Given("double")
    [] code = "shift3" -> Given("shift")
    [] code = "rotate3" -> Given("rotate")
    [] code \in {"compare3", "logic3"} -> Given("compare")
    [] code = "products3" -> {ArmRegs((1 :> a) @@ (2 :> b) @@ (5 :> c) @@ (6 :> d) @@ (12 :> c) @@ (13 :> 4095)) :
                                a \in ArmOperands, b \in {0, 1, 2047, 2048, 4095}, c \in {0, 4095}, d \in {1, 2048}}
    [] code = "words3" -> {ArmRegs((0 :> 256) @@ (1 :> a) @@ (2 :> b) @@ (12 :> 4)) : a \in {1029, 4033}, b \in ArmOperands}
    [] code = "blocks3" -> {ArmRegs((1 :> 1029) @@ (2 :> b) @@ (13 :> 512)) : b \in ArmOperands}
    [] code = "calls3" -> {ArmRegs(13 :> 512)}
    [] OTHER -> {<<>>}

\* The memory of a program: the handlers of the exceptions, and a literal.
ArmMemory(reg) ==
  Arm!ArmMem!Store(Arm!ArmMem!Store(Arm!ArmMem!Store(Arm!ArmMem!NoMemory, 2048 + 4 * 11 + 4, 4, 33), 44, 4, 3), 256, 4, reg[1])
Core(code, reg) ==
  CASE code \in DOMAIN RiscvCodes -> Rv!RiscvContext(code, reg)
    [] code \in DOMAIN ArmCodes -> Arm!Armv6mContext(code, reg, ArmMemory(reg))
    [] code \in DOMAIN Armv3Codes -> Arm3!Armv3Context(code, reg, Arm!ArmMem!NoMemory)
    [] code = "netrace" -> Net!NetraceContext
    [] OTHER -> Tr!TrafficContext(code)
CoresOf(name) ==
  CASE name = "noc" -> <<"send", "snd", "recv">>
    [] name = "armnoc" -> <<"armsend", "send3", "armrecv">>
    [] name = "armnoc3" -> <<"armsend", "send3", "recv3">>
    [] name = "traffic" -> <<"uniform", "uniform">>
    [] name = "patterns" -> <<"transpose", "shuffle", "bitrev", "bitrev">>
    [] name = "tornado" -> <<"tornado", "transpose", "neighbor", "neighbor">>
    [] name = "netrace" -> <<"netrace", "netrace">>
    [] OTHER -> <<name>>

Init ==
  /\ \E name \in Chosen :
       LET codes == CoresOf(name)
       IN \E given \in [0 .. Len(codes) - 1 -> UNION {Given(c) : c \in Range(codes)}] :
            /\ \A r \in DOMAIN given : given[r] \in Given(codes[r + 1])
            /\ scenario = [name |-> name, given |-> given]
            /\ node = [r \in DOMAIN given |-> Core(codes[r + 1], given[r])]
  /\ nt = Net!NetraceStart
  /\ turn = MaxRank
  /\ transit = [s \in Rank |-> [d \in Rank |-> <<>>]]
  /\ inbox = [r \in Rank |-> <<>>]

Programs(r) == Rv!RiscvOneCycle(r) \/ Arm!Armv6mOneCycle(r) \/ Arm3!Armv3OneCycle(r)
Step(r) ==
  \/ /\ Programs(r) \/ Tr!TrafficOneCycle(r) \/ Stalled(r) \/ Idle(r)
     /\ nt' = nt
  \/ Net!NetraceOneCycle(r)
Traced == node[0].kind = "netrace"
Over == IF Traced THEN nt.over ELSE Ended
Simulate ==
  \/ ~Traced /\ RouteAll /\ UNCHANGED <<node, nt>>
  \/ Traced /\ Net!InjectMessages
  \/ \E r \in Rank : Step(r)
Next == (~Over /\ Simulate /\ UNCHANGED scenario) \/ (Over /\ UNCHANGED vars)
Spec == Init /\ [][Next]_vars

\* The simulator runs on until no core is ready, and in a cycle now and then
\* every core for which flits are under way receives one.
Arrives ==
  RouteAll /\ \A d \in Rank : (\E s \in Rank : transit[s][d] # <<>>) => Len(inbox'[d]) > Len(inbox[d])
FairSpec == Spec /\ ([]<>Over \/ []<><<Arrives>>_vars)

-----------------------------------------------------------------------------
Channel(s, d) ==
  LET from == SelectSeq(inbox[d], LAMBDA m : m.src = s)
  IN [k \in DOMAIN from |-> from[k].flit] \o transit[s][d]

Riscvs == {r \in Rank : node[r].kind = "riscv"}
IfRiscv(v(_), else) == [r \in Rank |-> IF r \in Riscvs THEN v(r) ELSE else]
Isa == INSTANCE RiscvIsa WITH
  XLEN <- 8, Byte <- 1, Codes <- RiscvCodes,
  code <- IfRiscv(LAMBDA r : node[r].code, ""),
  status <- IfRiscv(LAMBDA r : CASE node[r].state = StoppedState -> "ended"
                                 [] node[r].state = UnknownInstruction -> "unknown"
                                 [] OTHER -> "running", ""),
  pc <- IfRiscv(LAMBDA r : IF node[r].state > Running THEN node[r].nextpc ELSE node[r].pc, 0),
  reg <- IfRiscv(LAMBDA r : [node[r].reg EXCEPT ![0] = 0], <<>>),
  mem <- IfRiscv(LAMBDA r : [a \in 0 .. 19 |-> Rv!RvMem!PageOf(node[r].mem, a)[(a % 4) + 1]], <<>>),
  csr <- IfRiscv(LAMBDA r : LET c == node[r].csr IN
           [fflags |-> c.fcsr % 32, frm |-> c.fcsr \div 32, mstatus |-> c.mstatus, mtvec |-> c.mtvec,
            mscratch |-> c.mscratch, mepc |-> c.mepc, mcause |-> c.mcause], <<>>),
  chan <- [s \in Rank |-> [d \in Rank |-> IF {s, d} \subseteq Riscvs THEN Channel(s, d) ELSE <<>>]]

\* The cores of riscv.c implement their instruction set: however many cycles an
\* instruction takes (riscv.c:34-46), however often it is repeated because the
\* network is not ready (macsim-seq.c:111-136) and wherever an access crosses the
\* border of a page (memory.c:112-187), its effect happens once, and it is that of
\* RiscvIsa.
RiscvImplementsIsa == Isa!Spec

Traffics == {r \in Rank : node[r].kind = "traffic"}
Quiet == \A r \in Rank : inbox[r] = <<>> /\ \A s \in Rank : transit[s][r] = <<>>
\* A core that is blocked is tried again in every cycle (macsim-seq.c:111-136), so
\* nobody waits for ever for a flit that is under way: all programs end and all
\* packets of a trace are delivered; synthetic traffic, which goes on for ever, is
\* over when all flits that were made have arrived, those in the queue, too
\* (traffic.c:99-113).
ProgramsEnd ==
  <>[](Over \/ (Traffics = Rank /\ Quiet /\ \A r \in Rank : node[r].injqueue = <<>>))

\* What the programs of ArmPrograms have computed of the registers g.
Sg(x) == Signed(12, x)
Mask(conds, Holds(_)) == FoldSet(LAMBDA k, m : m + (IF Holds(conds[k]) THEN 0 ELSE 2^(k - 1)), 0, DOMAIN conds)
Compared(a, b, cond) ==
  CASE cond = "eq" -> a = b [] cond = "ne" -> a # b
    [] cond = "cs" -> a >= b [] cond = "cc" -> a < b [] cond = "hi" -> a > b [] cond = "ls" -> a <= b
    [] cond = "ge" -> Sg(a) >= Sg(b) [] cond = "lt" -> Sg(a) < Sg(b)
    [] cond = "gt" -> Sg(a) > Sg(b) [] cond = "le" -> Sg(a) <= Sg(b)
    [] cond = "mi" -> Sg((a - b) % 4096) < 0 [] cond = "pl" -> Sg((a - b) % 4096) >= 0
    [] cond = "vs" -> Sg(a) - Sg(b) \notin -2048 .. 2047 [] cond = "vc" -> Sg(a) - Sg(b) \in -2048 .. 2047
\* v / 2^k, rounded to the nearest integer.
Rounded(v, k) == IF k = 0 THEN v ELSE (v + 2^(k - 1)) \div 2^k
RECURSIVE Outcome(_, _, _)
Outcome(code, g, r) ==
  LET a == g[1]
      b == g[2]
  IN CASE code = "double" ->
            LET x == a + 4096 * b
                y == g[3] + 4096 * g[4]
                Sg2(n) == Signed(24, n)
            IN {<<5, (x + y) % 4096>>, <<6, ((x + y) \div 4096) % 4096>>,
                <<0, (x - y) % 4096>>, <<7, ((x - y) \div 4096) % 4096>>,
                <<8, Truth(Sg2(x) < Sg2(y))>>, <<9, Truth(x < y)>>}
       [] code = "compare" ->
            {<<8, Mask(Conditions[1], LAMBDA c : Compared(a, b, c))>>, <<4, Mask(Conditions[2], LAMBDA c : Compared(a, b, c))>>}
       [] code = "shift" -> {<<4, Rounded(a, b)>>, <<5, Rounded(Sg(a), b) % 4096>>,
                             <<3, (a * 2^b) % 4096>>}
       [] code = "rotate" -> {<<6, (a \div 2^b) + (a % 2^b) * 2^(12 - b)>>}
       [] code = "shiftimm" -> {<<3, (8 * a + ((a \div 512) % 2)) % 4096>>, <<4, Rounded(a, 3)>>, <<5, Rounded(Sg(a), 3) % 4096>>,
                                <<6, Rounded(a, 12)>>, <<2, Rounded(Sg(a), 12)>>}
       [] code = "logic" -> {<<3, (a + b) % 4096>>, <<4, a>>, <<5, 0>>, <<6, (a * b) % 4096>>, <<7, Truth(a & b # 0)>>,
                             <<8, Truth(a + b > 4095)>>, <<9, Truth(Sg(a) + Sg(b) \notin -2048 .. 2047)>>}
       [] code = "blocks" ->
            LET upper == (Sg(b) \div 64) % 4096
            IN {<<0, b>>, <<1, a>>, <<2, a>>, <<3, upper>>, <<4, upper>>, <<5, upper>>, <<6, upper>>, <<7, 520>>, <<13, 520>>,
                <<8, (Sg(b) \div 512) % 4096>>, <<9, (Sg(b) \div 512) % 4096>>, <<10, b>>, <<11, a \div 512>>}
       [] code = "calls" -> {<<4, 1>>, <<5, 2>>, <<6, 32>>, <<7, 1>>, <<13, 512>>}
       [] code = "special" ->
            LET process == (g[6] \div 2) % 2
                free == 1 - (g[6] % 2)
                p == 4 * (g[4] \div 4) - 4 * process
                m == 4 * (g[5] \div 4) - 4 * (1 - process)
            IN {<<1, p>>, <<2, m>>, <<8, g[3]>>, <<9, g[6]>>, <<10, free>>, <<11, 0>>, <<12, 0>>,
                <<3, IF free = 1 THEN 256 ELSE p>>, <<4, IF free = 1 THEN 256 ELSE m>>,
                <<13, IF free = 1 THEN 256 ELSE IF process = 1 THEN p ELSE m>>}
       [] code = "exceptions" -> {<<0, g[0]>>, <<1, g[1]>>, <<12, 0>>, <<14, 0>>, <<7, 0>>, <<4, g[4]>>}
       [] code = "other" -> {<<x + 4, g[x]>> : x \in 0 .. 3} \cup {<<13, g[13] - 16>>, <<14, 4093>>}
       [] code = "double3" ->
            LET x == a + 4096 * b
                y == g[3] + 4096 * g[4]
            IN Outcome("double", g, r) \cup {<<10, (y - x) % 4096>>, <<11, ((y - x) \div 4096) % 4096>>}
       [] code = "compare3" ->
            {<<8, Mask(Conditions[1], LAMBDA c : ~Compared(a, b, c))>>, <<4, Mask(Conditions[2], LAMBDA c : ~Compared(a, b, c))>>,
             <<5, Truth(a & b # 0)>>, <<6, Truth(a = b)>>, <<7, Truth(a + b > 4095)>>, <<9, Truth(Sg(a) + Sg(b) \notin -2048 .. 2047)>>}
       [] code = "shift3" -> {p \in Outcome("shift", g, r) : p[1] = 5 => b < 12}
                             \cup {<<9, b \div 2>>, <<10, ((a + 4096 * b) \div 2) % 4096>>}
       [] code = "rotate3" -> Outcome("rotate", g, r) \cup {<<7, (a \div 16) + 256 * (a % 16)>>}
       [] code = "logic3" -> {<<3, (a + b) % 4096>>, <<4, a>>, <<5, 4095>>, <<7, (a - (Sg(a) \div 8)) % 4096>>,
                              <<8, (a * b) % 4096>>, <<9, (2 * a * b) % 4096>>,
                              <<6, CHOOSE k \in 0 .. 12 : a < 2^(12 - k) /\ (k < 12 => a >= 2^(11 - k))>>}
       [] code = "products3" ->
            LET Pair24(lo, hi, x) == {<<lo, x % 4096>>, <<hi, (x \div 4096) % 4096>>}
                sum == g[5] + 4096 * g[6]
                product == Sg(a) * Sg(b)
            IN Pair24(3, 4, a * b) \cup Pair24(5, 6, product) \cup Pair24(7, 8, a * b + sum) \cup Pair24(9, 10, product + sum)
               \cup Pair24(12, 13, a * b + g[12] + g[13]) \cup {<<0, Truth(product < 0)>>, <<11, Truth(product = 0)>>}
       [] code = "words3" ->
            LET mixed == (b % 8) + (a % 64) - (a % 8)
            IN {<<0, 276>>, <<3, (Sg(b) \div 512) % 4096>>, <<4, b \div 64>>, <<5, (Sg(b) \div 64) % 4096>>, <<6, b % 8>>,
                <<7, mixed>>, <<8, b>>, <<9, mixed>>, <<10, mixed>>, <<11, 276>>}
       [] code = "blocks3" -> {<<x, IF x % 2 = 1 THEN a ELSE b>> : x \in 3 .. 12} \cup {<<1, a + 8>>, <<13, 512>>}
       [] code = "calls3" -> {<<4, 1>>, <<5, 1>>, <<6, 12>>, <<7, 1>>, <<13, 504>>}
       [] code \in {"armsend", "send3"} -> {<<1, r + 5>>}
       [] code \in {"armrecv", "recv3"} -> LET o == node[r].reg[2]
                              IN {<<3, 1 - o>>, <<4, 6 - o>>, <<5, o>>, <<6, o + 5>>, <<7, 1>>, <<0, 3>>}

Arms == {r \in Rank : node[r].kind \in {"armv6m", "armv3"}}
\* When a program of an ARM core has come to its end, its registers are what Outcome
\* says of the operands: sums and differences of two words (the carry of
\* armv6m.c:186-197), all comparisons, rounded shifts and rotations (102-182),
\* products, blocks of registers stored and loaded across the borders of pages,
\* calls and returns, and the flits received in the order of their senders.
ArmProgramsCompute ==
  \A r \in Arms : ~Ready(node[r]) =>
    \A p \in Outcome(node[r].code, scenario.given[r], r) : node[r].reg[p[1]] = p[2]
\* The return from an exception (armv6m.c:1892-2012) restores the registers, the
\* flags, the mode and the stack of the context that the exception has interrupted
\* (1816-1889), the stack pointer also if the frame had to be aligned.
ContextRestored ==
  [][\A r \in Arms : node[r].kind = "armv6m" /\ Len(node'[r].saved) < Len(node[r].saved) => Arm!Context(node'[r]) = Head(node[r].saved)]_vars

\* For TrafficConserved: the flits of core s on their way to core d, in the queue of s, the network or at d.
Waiting(s, d) == SelectSeq(node[s].injqueue, LAMBDA e : e.dest = d)
Received(s, d) == SelectSeq(node[d].got, LAMBDA m : m.src = s)
Numbers(s, d) ==
  LET waiting == Waiting(s, d)
      received == Received(s, d)
  IN [k \in DOMAIN waiting |-> waiting[k].flit] \o Channel(s, d) \o [k \in DOMAIN received |-> received[k].flit]
\* Every flit that traffic.c has made is in the injection queue of its sender, in the
\* network or received, and only there: the direct send and the queue (traffic.c:83-113)
\* neither lose a flit nor send it twice.  Their order is not kept.
TrafficConserved ==
  Traffics = Rank => \A s \in Rank :
    LET all == FoldSet(LAMBDA d, q : Numbers(s, d) \o q, <<>>, Rank)
    IN Len(all) = node[s].made /\ Range(all) = 1 .. node[s].made

\* The packets of the trace at a core, in the network or at their receiver.
Flits(q) == SelectSeq(q, LAMBDA f : f # 0)
UnderWay ==
  FlattenSeq([k \in 1 .. MaxRank |->
    LET r == k - 1
    IN node[r].injqueue \o (IF node[r].pendingLen > 0 THEN <<node[r].pendingFlit>> ELSE <<>>)
       \o FlattenSeq([j \in 1 .. MaxRank |-> Flits(Channel(r, j - 1))])])
\* The counter of messages that decides when the simulation of a trace ends
\* (trace.c:317-351) is exactly the number of packets at a core or in the network,
\* each of them once, and it does not end before the whole trace has been delivered.
TraceKept ==
  Traced =>
    /\ nt.fly = Len(UnderWay)
    /\ Cardinality(Range(UnderWay)) = nt.fly /\ Range(UnderWay) \cap nt.freed = {}
    /\ nt.over => nt.freed = DOMAIN ShortTrace
\* A packet is handed to its core only after all packets it depends on have reached
\* their receivers (netrace.c:395-437), also when the reader has not come to the one
\* or the other yet (369-393) or a packet is left out as one of a core to itself
\* (trace.c:278-313).
DependenciesFirst ==
  Traced => \A p \in Range(UnderWay) \cup nt.freed :
    {q \in DOMAIN ShortTrace : p \in ShortTrace[q].deps} \subseteq nt.freed
=============================================================================
