--------------------------------- MODULE Armv6m --------------------------------
(***************************************************************************)
(* The ARMv6-M core of armv6m.c: armv6m_one_cycle with the instructions,   *)
(* the supervisor calls to the network and the exceptions with their two   *)
(* stacks.  There are no external interrupts: they need a macro that no    *)
(* build defines.  An instruction is a record: op for its group, f for what*)
(* tells the group apart, d, s and t for the registers in bits 2-0 (10-8   *)
(* for the groups with an 8 bit immediate), 5-3 and 8-6, imm for the       *)
(* decoded immediate and list for a set of registers.                      *)
(***************************************************************************)
EXTENDS Simulation, ArmAlu

CONSTANTS
  Codes,               \* program -> address -> instruction
  ArmPage, ArmByte,    \* size of a page, bits of a byte
  VectorTable          \* address of the exception vectors, 0x08000000

ArmMem == INSTANCE Memory WITH PageSize <- ArmPage, Byte <- ArmByte, MaxAddr <- 2^W

Armv6mAssumption == ArmPage \in Nat /\ ArmByte * 4 = W /\ W >= 12

SP == 13
LR == 14
MulCycles == 32

\* armv6m_init_context.  saved is no part of the code: it remembers the contexts
\* that exceptions have interrupted.
Armv6mContext(code, reg, mem) ==
  [kind |-> "armv6m", code |-> code, state |-> Running, pc |-> 0, nextpc |-> 0,
   reg |-> reg, mem |-> mem, fl |-> [n |-> 0, z |-> 0, c |-> 0, v |-> 0],
   ipsr |-> 0, npriv |-> 0, spsel |-> 0, primask |-> 0, mode |-> "thread",
   spMain |-> 0, spProcess |-> 0, saved |-> <<>>]

-----------------------------------------------------------------------------
\* Words in memory, and blocks of them.
WordAt(n, a) == ArmMem!Load(n.mem, Cut(a), 4)
StoreWords(n, a, vals) ==
  [n EXCEPT !.mem = FoldLeftDomain(LAMBDA m, k : ArmMem!Store(m, Cut(a + 4 * (k - 1)), 4, vals[k]), @, vals)]
\* The registers of a list in the order of their numbers, for push, pop, stm and ldm.
InOrder(list) == SetToSortSeq(list, LAMBDA x, y : x < y)
Values(n, list) == [k \in 1 .. Cardinality(list) |-> n.reg[InOrder(list)[k]]]
LoadRegs(n, a, list) ==
  [n EXCEPT !.reg = [x \in DOMAIN @ |->
     IF x \in list THEN WordAt(n, a + 4 * Cardinality({y \in list : y < x})) ELSE @[x]]]

\* build_psr: the flags, the number of the exception and, in the frame of an
\* exception, the alignment of the stack.
BuildPsr(n) ==
  n.fl.n * 2^(W - 1) + n.fl.z * 2^(W - 2) + n.fl.c * 2^(W - 3) + n.fl.v * 2^(W - 4) + (n.ipsr % 64)

\* Mutant: the alignment of the stack gets lost.
FramePsrNoAlign(n) == BuildPsr(n)

FramePsr(n) == BuildPsr(n) + 64 * Bit(n.reg[SP], 2)

\* restore_apsr.
Flags(psr) == [n |-> Bit(psr, W - 1), z |-> Bit(psr, W - 2), c |-> Bit(psr, W - 3), v |-> Bit(psr, W - 4)]

OnProcessStack(n) == n.spsel = 1 /\ n.mode = "thread"

\* What an exception interrupts, and has to be there again after it.
Context(n) ==
  [regs |-> [x \in {0, 1, 2, 3, 12, SP, LR} |-> n.reg[x]], fl |-> n.fl, mode |-> n.mode,
   spsel |-> n.spsel, ipsr |-> n.ipsr, next |-> n.nextpc]

\* armv6m_raise_exception, without the latency.
RaiseException(n, num) ==
  LET frame == Cut(n.reg[SP] - 32) - 4 * Bit(Cut(n.reg[SP] - 32), 2)
      exc == 2^W - (IF n.mode = "handler" THEN 15 ELSE IF n.spsel = 0 THEN 7 ELSE 3)
      pushed == StoreWords(n, frame,
        <<n.reg[0], n.reg[1], n.reg[2], n.reg[3], n.reg[12], n.reg[LR], n.nextpc, FramePsr(n)>>)
      main == IF OnProcessStack(n) THEN n.spMain ELSE frame
  IN [pushed EXCEPT
        !.reg = [@ EXCEPT ![LR] = exc, ![SP] = main],
        !.spMain = main, !.spProcess = IF OnProcessStack(n) THEN frame ELSE @,
        !.mode = "handler", !.ipsr = num, !.spsel = 0,
        !.nextpc = 2 * (WordAt(pushed, VectorTable + 4 * num + 4) \div 2),
        !.saved = <<Context(n)>> \o @]

\* armv6m_leave_exception, without the latency.  A value that is none of the three
\* reads a frame at address 0 and leaves the mode as it is.
LeaveException(n, exc) ==
  LET to == exc % 16
      sp == IF to = 13 THEN n.spProcess ELSE n.reg[SP]
      frame == IF to \in {1, 9, 13} THEN sp ELSE 0
      psr == WordAt(n, frame + 28)
      mode == IF to = 1 THEN "handler" ELSE IF to \in {9, 13} THEN "thread" ELSE n.mode
      up == Cut(sp + 32)
  IN [n EXCEPT
        !.reg = [@ EXCEPT ![0] = WordAt(n, frame), ![1] = WordAt(n, frame + 4),
                          ![2] = WordAt(n, frame + 8), ![3] = WordAt(n, frame + 12),
                          ![12] = WordAt(n, frame + 16), ![LR] = WordAt(n, frame + 20),
                          ![SP] = IF Bit(psr, 6) = 1 /\ Bit(up, 2) = 0 THEN up + 4 ELSE up],
        !.nextpc = WordAt(n, frame + 24),
        !.fl = Flags(psr), !.mode = mode,
        !.spsel = IF to = 13 THEN 1 ELSE IF to \in {1, 9} THEN 0 ELSE @,
        !.spMain = IF to = 13 THEN n.reg[SP] ELSE @,
        !.ipsr = IF mode = "thread" /\ n.npriv = 1 THEN 0 ELSE psr % 32,
        !.saved = IF @ = <<>> THEN @ ELSE Tail(@)]

\* Values that bx and pop take for the end of an exception.  Outside of a handler
\* the simulator aborts, and so it does if the bits in the middle are not set.
IsExcReturn(v) == v \div 2^(W - 4) = 15
MayLeave(n, v) == n.mode = "handler" /\ v \div 16 = 2^(W - 4) - 1

\* armv6m_one_cycle up to the switch.
Start(r) == [node[r] EXCEPT !.nextpc = 2 * (node[r].pc \div 2) + 2]
Fetch(n) ==
  IF n.pc \in DOMAIN Codes[n.code] THEN Codes[n.code][n.pc] ELSE [op |-> "none"]

SetReg(n, d, v) == [n EXCEPT !.reg[d] = v]
SetRes(n, d, res) == [n EXCEPT !.reg[d] = res.val, !.fl = res.fl]

-----------------------------------------------------------------------------
\* armv6m_execute_iw.  The instructions are given the context n that Start has
\* left and the instruction i.

\* lsls, lsrs and asrs with an immediate, where 0 means 32 for the latter two.
ShiftImm(r, n, i) ==
  LET k == IF i.imm = 0 THEN W ELSE i.imm
      v == n.reg[i.s]
  IN /\ i.op = "shift"
     /\ Completes(r, SetRes(n, i.d, CASE i.f = "lsl" -> Lsl(n.fl, v, i.imm)
                                      [] i.f = "lsr" -> Lsr(n.fl, v, k)
                                      [] i.f = "asr" -> Asr(n.fl, v, k)), 1)
     /\ UNCHANGED netVars

\* adds and subs with three registers or a small immediate, or in one register;
\* cmp with an immediate.
AddSub(r, n, i) ==
  LET b == IF i.f \in {"add", "sub"} THEN n.reg[i.t] ELSE i.imm
      res == IF i.f \in {"add", "addi"} THEN AddWithCarry(n.fl, n.reg[i.s], b, 0)
             ELSE AddWithCarry(n.fl, n.reg[i.s], Inv(b), 1)
  IN /\ i.op = "addsub"
     /\ Completes(r, IF i.f = "cmpi" THEN [n EXCEPT !.fl = res.fl] ELSE SetRes(n, i.d, res), 1)
     /\ UNCHANGED netVars

\* movs with an immediate: the flag for zero is the wrong way round.
Movs(r, n, i) ==
  /\ i.op = "movs"
  /\ Completes(r, [n EXCEPT !.reg[i.d] = i.imm, !.fl.n = 0, !.fl.z = IF i.imm = 0 THEN 0 ELSE 1], 1)
  /\ UNCHANGED netVars

\* ands to mvns.  The amount of a shift is the whole register.
DataProcessing(r, n, i) ==
  LET a == n.reg[i.d]
      b == n.reg[i.s]
      res == CASE i.f \in {"and", "tst"} -> Nz(a & b, n.fl)
               [] i.f = "eor" -> Nz(a ^^ b, n.fl)
               [] i.f = "lsl" -> Lsl(n.fl, a, b)
               [] i.f = "lsr" -> Lsr(n.fl, a, b)
               [] i.f = "asr" -> Asr(n.fl, a, b)
               [] i.f = "adc" -> AddWithCarry(n.fl, a, b, n.fl.c)
               [] i.f = "sbc" -> AddWithCarry(n.fl, a, Inv(b), n.fl.c)
               [] i.f = "ror" -> Ror(n.fl, a, b)
               [] i.f = "rsb" -> AddWithCarry(n.fl, Inv(b), 0, 1)
               [] i.f = "cmp" -> AddWithCarry(n.fl, a, Inv(b), 1)
               [] i.f = "cmn" -> AddWithCarry(n.fl, a, b, 0)
               [] i.f = "orr" -> Nz(a | b, n.fl)
               [] i.f = "mul" -> Nz(Cut(a * b), n.fl)
               [] i.f = "bic" -> Nz(a & Inv(b), n.fl)
               [] i.f = "mvn" -> Nz(Inv(b), n.fl)
  IN /\ i.op = "dp"
     /\ Completes(r, IF i.f \in {"tst", "cmp", "cmn"} THEN [n EXCEPT !.fl = res.fl]
                     ELSE SetRes(n, i.d, res),
                  IF i.f = "mul" THEN MulCycles ELSE 1)
     /\ UNCHANGED netVars

\* add, cmp and mov with any registers; the pc reads as the address after the next
\* instruction and is written by a jump.
HiReg(r, n, i) ==
  LET Val(x) == IF x = 15 THEN n.pc + 4 ELSE n.reg[x]
      v == IF i.f = "add" THEN Cut(Val(i.d) + Val(i.s)) ELSE Val(i.s)
  IN /\ i.op = "hi"
     /\ CASE i.f = "cmp" ->
               Completes(r, [n EXCEPT !.fl = AddWithCarry(@, Val(i.d), Inv(Val(i.s)), 1).fl], 1)
          [] i.f # "cmp" /\ i.d = 15 -> Completes(r, [n EXCEPT !.nextpc = 2 * (v \div 2)], 3)
          [] OTHER -> Completes(r, SetReg(n, i.d, v), 1)
     /\ UNCHANGED netVars

\* bx, which may end an exception, and blx.
BranchExchange(r, n, i) ==
  /\ i.op = "bx"
  /\ IF i.s = 15 THEN Completes(r, [n EXCEPT !.nextpc = n.pc + 4], 3)
     ELSE IF IsExcReturn(n.reg[i.s])
     THEN MayLeave(n, n.reg[i.s]) /\ Completes(r, LeaveException(n, n.reg[i.s]), 8)
     ELSE Completes(r, [n EXCEPT !.nextpc = 2 * (n.reg[i.s] \div 2)], 3)
  /\ UNCHANGED netVars
BranchLinkExchange(r, n, i) ==
  /\ i.op = "blx"
  /\ Completes(r, [n EXCEPT !.reg[LR] = n.pc + 3, !.nextpc = 2 * (n.reg[i.s] \div 2)], 4)
  /\ UNCHANGED netVars

\* Loads and stores: ldr with a literal, with two registers, with an immediate that
\* counts elements of the access, and relative to the stack.
AccessLen(f) ==
  CASE f \in {"str", "ldr"} -> 4
    [] f \in {"strh", "ldrh", "ldrsh"} -> 2
    [] f \in {"strb", "ldrb", "ldrsb"} -> 1
Address(n, i) ==
  Cut(CASE i.op = "ldr-lit" -> 4 * (n.pc \div 4) + 4 + 4 * i.imm
        [] i.op = "mem" -> n.reg[i.s] + n.reg[i.t]
        [] i.op = "mem-imm" -> n.reg[i.s] + AccessLen(i.f) * i.imm
        [] i.op = "mem-sp" -> n.reg[SP] + 4 * i.imm)
Access(r, n, i) ==
  /\ i.op \in {"ldr-lit", "mem", "mem-imm", "mem-sp"}
  /\ LET a == Address(n, i)
         len == AccessLen(i.f)
     IN Completes(r,
          IF i.f \in {"str", "strh", "strb"} THEN [n EXCEPT !.mem = ArmMem!Store(@, a, len, n.reg[i.d])]
          ELSE SetReg(n, i.d, IF i.f \in {"ldrsb", "ldrsh"} THEN ArmMem!LoadSigned(W, n.mem, a, len)
                              ELSE ArmMem!Load(n.mem, a, len)), 2)
  /\ UNCHANGED netVars

\* adr, add to a register from the stack pointer, add and sub on it.
AddressCalc(r, n, i) ==
  /\ i.op = "calc"
  /\ Completes(r, CASE i.f = "adr" -> SetReg(n, i.d, 4 * (n.pc \div 4) + 4 + 4 * i.imm)
                    [] i.f = "add" -> SetReg(n, i.d, Cut(n.reg[SP] + 4 * i.imm))
                    [] i.f = "sp" -> SetReg(n, SP, Cut(n.reg[SP] + 4 * i.imm)), 1)
  /\ UNCHANGED netVars

\* sxth to uxtb and rev to revsh.
ByteOf(v, k) == (v \div 2^(ArmByte * k)) % 2^ArmByte
FromBytes(b0, b1, b2, b3) ==
  b0 + b1 * 2^ArmByte + b2 * 2^(2 * ArmByte) + b3 * 2^(3 * ArmByte)
ExtendReverse(r, n, i) ==
  LET b(k) == ByteOf(n.reg[i.s], k)
  IN /\ i.op = "extend"
     /\ Completes(r, SetReg(n, i.d,
          CASE i.f = "sxth" -> Extend(W, 2 * ArmByte, n.reg[i.s])
            [] i.f = "sxtb" -> Extend(W, ArmByte, n.reg[i.s])
            [] i.f = "uxth" -> Wrap(2 * ArmByte, n.reg[i.s])
            [] i.f = "uxtb" -> Wrap(ArmByte, n.reg[i.s])
            [] i.f = "rev" -> FromBytes(b(3), b(2), b(1), b(0))
            [] i.f = "rev16" -> FromBytes(b(1), b(0), b(3), b(2))
            [] i.f = "revsh" -> Extend(W, 2 * ArmByte, FromBytes(b(1), b(0), 0, 0))), 1)
     /\ UNCHANGED netVars

\* push and pop, the latter also of the pc (15); there the lowest bit of the end
\* of an exception gets lost.
Push(r, n, i) ==
  LET regs == Values(n, i.list)
      sp == Cut(n.reg[SP] - 4 * Len(regs))
  IN /\ i.op = "push"
     /\ Completes(r, SetReg(StoreWords(n, sp, regs), SP, sp), 1 + Len(regs))
     /\ UNCHANGED netVars
Pop(r, n, i) ==
  LET low == i.list \ {15}
      loaded == LoadRegs(n, n.reg[SP], low)
      next == WordAt(n, n.reg[SP] + 4 * Cardinality(low))
      m == SetReg(loaded, SP, Cut(n.reg[SP] + 4 * Cardinality(i.list)))
      len == Cardinality(i.list)
  IN /\ i.op = "pop"
     /\ IF 15 \notin i.list THEN Completes(r, m, 1 + len)
        ELSE IF IsExcReturn(next)
        THEN MayLeave(m, next) /\ Completes(r, LeaveException(m, 2 * (next \div 2)), 9 + len)
        ELSE Completes(r, [m EXCEPT !.nextpc = 2 * (next \div 2)], 1 + len)
     /\ UNCHANGED netVars

\* stm and ldm, which writes the address back unless its register was loaded.
Multiple(r, n, i) ==
  LET end == Cut(n.reg[i.d] + 4 * Cardinality(i.list))
      latency == 1 + Cardinality(i.list)
  IN /\ \/ /\ i.op = "stm"
           /\ Completes(r, SetReg(StoreWords(n, n.reg[i.d], Values(n, i.list)), i.d, end), latency)
        \/ /\ i.op = "ldm"
           /\ LET m == LoadRegs(n, n.reg[i.d], i.list)
              IN Completes(r, IF i.d \in i.list THEN m ELSE SetReg(m, i.d, end), latency)
     /\ UNCHANGED netVars

\* cpsie and cpsid.
ChangeState(r, n, i) ==
  /\ i.op = "cps"
  /\ Completes(r, [n EXCEPT !.primask = IF n.mode = "handler" \/ n.npriv = 0 THEN i.imm ELSE @], 1)
  /\ UNCHANGED netVars

\* ic_branch for the 14 conditions; b and bl.
Branch(r, n, i) ==
  /\ i.op = "b"
  /\ LET target == [n EXCEPT !.nextpc = Cut(n.pc + 4 + i.imm)]
     IN IF Condition(n.fl, i.f) THEN Completes(r, target, 3) ELSE Completes(r, n, 1)
  /\ UNCHANGED netVars
BranchLink(r, n, i) ==
  /\ i.op = "bl"
  /\ Completes(r, [n EXCEPT !.reg[LR] = n.pc + 5, !.nextpc = Cut(n.pc + 4 + i.imm)], 3)
  /\ UNCHANGED netVars

\* bkpt: the end of the program.
Bkpt(r, n, i) == i.op = "bkpt" /\ Stops(r, n, StoppedState) /\ UNCHANGED netVars

\* svc: the calls of the operating system and of the network.
SvcException(r, n, i) ==
  /\ i.op = "svc" /\ i.imm = 42
  /\ Completes(r, RaiseException(n, 11), 9) /\ UNCHANGED netVars
SvcInfo(r, n, i) ==
  /\ i.op = "svc" /\ i.imm \in {1, 80, 81, 84}
  /\ Completes(r, CASE i.imm = 1 -> n
                    [] i.imm = 80 -> SetReg(n, 0, MaxRank)
                    [] i.imm = 81 -> SetReg(n, 0, r)
                    [] i.imm = 84 -> SetReg(n, 0, Truth(~SenderReady(r))), 1)
  /\ UNCHANGED netVars
SvcSend(r, n, i) ==
  /\ i.op = "svc" /\ i.imm = 82
  /\ \/ Put(r, n.reg[0], n.reg[1]) /\ Completes(r, n, 1)
     \/ ~SenderReady(r) /\ Blocks(r, n, SendBlocked) /\ UNCHANGED netVars
SvcRecv(r, n, i) ==
  /\ i.op = "svc" /\ i.imm = 83
  /\ \/ Take(r, n.reg[0]) /\ Completes(r, SetReg(n, 0, Taken(r, n.reg[0])), 1)
     \/ ~ProbeRank(r, n.reg[0]) /\ Blocks(r, n, RecvBlocked) /\ UNCHANGED netVars
\* The call that should wait for a flit of any core takes -1, the answer if there
\* is none, for a rank; so it is the same as probing for any core.
SvcProbe(r, n, i) ==
  /\ i.op = "svc" /\ i.imm \in {85, 86, 87}
  /\ Completes(r, SetReg(n, 0, IF i.imm = 86 THEN Truth(ProbeRank(r, n.reg[0])) ELSE Cut(ProbeAny(r))), 1)
  /\ UNCHANGED netVars
\* All other calls store a frame and jump, but stay in the mode.
SvcOther(r, n, i) ==
  LET frame == Cut(n.reg[SP] - 32)
      m == StoreWords(n, frame, <<n.reg[0], n.reg[1], n.reg[2], n.reg[3], n.reg[12], n.reg[LR],
                                  n.pc + 4, BuildPsr(n)>>)
  IN /\ i.op = "svc" /\ i.imm \notin {1, 42} \cup 80 .. 87
     /\ Completes(r, [m EXCEPT !.reg = [@ EXCEPT ![SP] = frame, ![LR] = 2^W - 3],
                               !.nextpc = 2 * (WordAt(m, 44) \div 2)], 9)
     /\ UNCHANGED netVars

\* mrs: f is the special register.
Mrs(r, n, i) ==
  LET psr == BuildPsr(n)
      v == CASE i.f = "apsr" -> psr - (psr % 64)
             [] i.f = "xpsr" -> psr
             [] i.f = "ipsr" -> psr % 64
             [] i.f = "msp" -> IF OnProcessStack(n) THEN n.spMain ELSE n.reg[SP]
             [] i.f = "psp" -> IF OnProcessStack(n) THEN n.reg[SP] ELSE n.spProcess
             [] i.f = "primask" -> n.primask
             [] i.f = "control" -> 2 * n.spsel + n.npriv
  IN /\ i.op = "mrs"
     /\ Completes(r, [SetReg(n, i.d, v) EXCEPT !.nextpc = @ + 2], 3)
     /\ UNCHANGED netVars

\* msr.  A change of the stack in the control register swaps the stack pointers.
SetControl(n, v) ==
  LET spsel == Bit(v, 1)
      swapped == IF spsel = n.spsel THEN n
                 ELSE IF spsel = 1
                 THEN [SetReg(n, SP, n.spProcess) EXCEPT !.spMain = n.reg[SP]]
                 ELSE [SetReg(n, SP, n.spMain) EXCEPT !.spProcess = n.reg[SP]]
  IN IF n.mode = "thread" /\ n.npriv = 0 THEN [swapped EXCEPT !.spsel = spsel, !.npriv = v % 2] ELSE n
Msr(r, n, i) ==
  LET v == n.reg[i.d]
      sp == 4 * (v \div 4)
      m == CASE i.f = "apsr" -> [n EXCEPT !.fl = Flags(v)]
             [] i.f = "control" -> SetControl(n, v)
             [] i.f \in {"msp", "psp", "primask"} /\ n.npriv = 1 -> n
             [] i.f = "msp" -> IF OnProcessStack(n) THEN [n EXCEPT !.spMain = sp] ELSE SetReg(n, SP, sp)
             [] i.f = "psp" -> IF OnProcessStack(n) THEN SetReg(n, SP, sp) ELSE [n EXCEPT !.spProcess = sp]
             [] i.f = "primask" -> [n EXCEPT !.primask = v % 2]
  IN /\ i.op = "msr"
     /\ Completes(r, [m EXCEPT !.nextpc = @ + 2], 3)
     /\ UNCHANGED netVars
\* dsb, dmb and isb.
Barrier(r, n, i) ==
  i.op = "dsb" /\ Completes(r, [n EXCEPT !.nextpc = @ + 2], 3) /\ UNCHANGED netVars

Unknown(r, n, i) == i.op = "none" /\ Stops(r, n, UnknownInstruction) /\ UNCHANGED netVars

\* armv6m_one_cycle.
Armv6mOneCycle(r) ==
  /\ OneCycle(r) /\ node[r].kind = "armv6m"
  /\ LET n == Start(r)
         i == Fetch(n)
     IN \/ ShiftImm(r, n, i) \/ AddSub(r, n, i) \/ Movs(r, n, i) \/ DataProcessing(r, n, i)
        \/ HiReg(r, n, i) \/ BranchExchange(r, n, i) \/ BranchLinkExchange(r, n, i)
        \/ Access(r, n, i) \/ AddressCalc(r, n, i) \/ ExtendReverse(r, n, i)
        \/ Push(r, n, i) \/ Pop(r, n, i) \/ Multiple(r, n, i) \/ ChangeState(r, n, i)
        \/ Branch(r, n, i) \/ BranchLink(r, n, i) \/ Bkpt(r, n, i)
        \/ SvcException(r, n, i) \/ SvcInfo(r, n, i) \/ SvcSend(r, n, i) \/ SvcRecv(r, n, i)
        \/ SvcProbe(r, n, i) \/ SvcOther(r, n, i)
        \/ Mrs(r, n, i) \/ Msr(r, n, i) \/ Barrier(r, n, i) \/ Unknown(r, n, i)
=============================================================================
