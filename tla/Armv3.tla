--------------------------------- MODULE Armv3 ---------------------------------
(***************************************************************************)
(* The core of armv3.c: armv3_one_cycle with its conditional instructions  *)
(* and the supervisor calls to the network.  An instruction is a record:   *)
(* op for its group, cond for its condition, f for what tells the group    *)
(* apart, set for the S bit, n, d, m and s for the registers, sh for the   *)
(* shifted operand, up, pre and wb for the U, P and W bits, imm for an     *)
(* immediate and list for a set of registers.                              *)
(***************************************************************************)
EXTENDS Simulation, ArmAlu

CONSTANTS
  Codes,               \* program -> address -> instruction
  ArmPage, ArmByte     \* size of a page, bits of a byte

ArmMem == INSTANCE Memory WITH PageSize <- ArmPage, Byte <- ArmByte, MaxAddr <- 2^W
Armv3Assumption == ArmPage \in Nat /\ ArmByte * 4 = W /\ W >= 12

SP == 13
LR == 14
PC == 15

\* armv3_init_context.
Armv3Context(code, reg, mem) ==
  [kind |-> "armv3", code |-> code, state |-> Running, pc |-> 0, nextpc |-> 0,
   reg |-> reg, mem |-> mem, fl |-> [n |-> 0, z |-> 0, c |-> 0, v |-> 0]]

SetReg(n, d, v) == [n EXCEPT !.reg[d] = v]
WordAt(n, a) == ArmMem!Load(n.mem, Cut(a), 4)

-----------------------------------------------------------------------------
\* instr_clz32.
Clz(v) == Cardinality({k \in 0 .. W - 1 : v < 2^k})

\* instr_asr, which takes the sign from bit 21 if all bits are shifted out.
AsrFar(fl, v, k) ==
  IF k < W THEN Asr(fl, v, k) ELSE Nz(Neg(W, Bit(v, W - 11)), [fl EXCEPT !.c = Bit(v, W - 1)])

\* instr_shifted_reg.  An immediate shift by 0 leaves the value as it is.
ShiftedReg(n, sh) ==
  LET v == n.reg[sh.m]
      k == IF sh.by = "reg" THEN n.reg[sh.k] ELSE sh.k
  IN CASE sh.f = "lsl" -> Lsl(n.fl, v, k)
       [] sh.f = "lsr" -> Lsr(n.fl, v, k)
       [] sh.f = "asr" -> AsrFar(n.fl, v, k)
       [] sh.f = "ror" -> Ror(n.fl, v, k)
       [] sh.f = "rrx" -> Res((v \div 2) + n.fl.c * 2^(W - 1), [n.fl EXCEPT !.c = v % 2])
       [] sh.f = "imm" -> Res(k, n.fl)

-----------------------------------------------------------------------------
\* armv3_execute_iw, given the context n that Start has left and the instruction i.

\* An instruction whose condition does not hold.
Disabled(r, n, i) == ~Condition(n.fl, i.cond) /\ Completes(r, n, 1) /\ UNCHANGED netVars

\* and to mvn.  Only a logical operation takes the carry from the shift.
Logical == {"and", "eor", "tst", "teq", "orr", "mov", "bic", "mvn"}
DataProcessing(r, n, i) ==
  LET op2 == ShiftedReg(n, i.sh)
      fl == IF i.f \in Logical THEN op2.fl ELSE n.fl
      a == n.reg[i.n]
      b == op2.val
      res == CASE i.f \in {"and", "tst"} -> Nz(a & b, fl)
               [] i.f \in {"eor", "teq"} -> Nz(a ^^ b, fl)
               [] i.f \in {"sub", "cmp"} -> AddWithCarry(fl, a, Inv(b), 1)
               [] i.f = "rsb" -> AddWithCarry(fl, Inv(a), b, 1)
               [] i.f \in {"add", "cmn"} -> AddWithCarry(fl, a, b, 0)
               [] i.f = "adc" -> AddWithCarry(fl, a, b, n.fl.c)
               [] i.f = "sbc" -> AddWithCarry(fl, a, Inv(b), n.fl.c)
               [] i.f = "rsc" -> AddWithCarry(fl, Inv(a), b, n.fl.c)
               [] i.f = "orr" -> Nz(a | b, fl)
               [] i.f = "mov" -> Nz(b, fl)
               [] i.f = "bic" -> Nz(a & Inv(b), fl)
               [] i.f = "mvn" -> Nz(Inv(b), fl)
      m == IF i.set THEN [n EXCEPT !.fl = res.fl] ELSE n
  IN /\ i.op = "data"
     /\ Completes(r, IF i.f \in {"tst", "teq", "cmp", "cmn"} THEN m ELSE SetReg(m, i.d, res.val),
                  (IF i.sh.by = "reg" THEN 2 ELSE 1) + (IF i.d = PC THEN 2 ELSE 0))
     /\ UNCHANGED netVars

\* mul and mla; ic_mull with the products of two words, which it adds to.
Multiply(r, n, i) ==
  LET product == Cut(n.reg[i.m] * n.reg[i.s] + (IF i.f = "mla" THEN n.reg[i.d] ELSE 0))
      m == SetReg(n, i.n, product)
  IN /\ i.op = "mul" /\ i.f \in {"mul", "mla"}
     /\ Completes(r, IF i.set THEN [m EXCEPT !.fl = Nz(product, @).fl] ELSE m, IF i.f = "mul" THEN 4 ELSE 5)
     /\ UNCHANGED netVars
MultiplyLong(r, n, i) ==
  LET signed == Signed(W, n.reg[i.m]) * Signed(W, n.reg[i.s])
      unsigned == n.reg[i.m] * n.reg[i.s]
      sum == n.reg[i.n] * 2^W + n.reg[i.d]
      result == Wrap(2 * W, CASE i.f = "umull" -> unsigned [] i.f = "smull" -> signed
                              [] i.f = "umlal" -> unsigned + sum [] i.f = "smlal" -> signed + sum
                              [] i.f = "umaal" -> unsigned + n.reg[i.d] + n.reg[i.n])
      m == SetReg(SetReg(n, i.d, Cut(result)), i.n, result \div 2^W)
  IN /\ i.op = "mul" /\ i.f \notin {"mul", "mla"}
     /\ Completes(r, IF i.set THEN [m EXCEPT !.fl.n = Bit(result, 2 * W - 1), !.fl.z = Truth(result = 0)] ELSE m, 5)
     /\ UNCHANGED netVars

\* Loads and stores.  The base is written before the access, so a store of the base
\* stores the new one; a load into the pc jumps.
Offset(n, i) == IF i.sh.by = "no" THEN i.imm ELSE ShiftedReg(n, i.sh).val
Indexed(n, i) == Cut(n.reg[i.n] + (IF i.up THEN 1 ELSE -1) * Offset(n, i))
Accessed(n, i) == IF i.pre THEN Indexed(n, i) ELSE n.reg[i.n]
Based(n, i) == IF i.pre /\ ~i.wb THEN n ELSE SetReg(n, i.n, Indexed(n, i))
AccessLen(f) == CASE f \in {"str", "ldr"} -> 4 [] f \in {"strh", "ldrh", "ldrsh"} -> 2 [] f \in {"strb", "ldrb", "ldrsb"} -> 1
IcStore(r, n, i) ==
  /\ i.op = "mem" /\ i.f \in {"str", "strh", "strb"}
  /\ LET m == Based(n, i)
     IN Completes(r, [m EXCEPT !.mem = ArmMem!Store(@, Accessed(n, i), AccessLen(i.f), m.reg[i.d])], 2)
  /\ UNCHANGED netVars
IcLoad(r, n, i) ==
  /\ i.op = "mem" /\ i.f \in {"ldr", "ldrb", "ldrh", "ldrsb", "ldrsh"}
  /\ LET v == IF i.f \in {"ldrsb", "ldrsh"} THEN ArmMem!LoadSigned(W, n.mem, Accessed(n, i), AccessLen(i.f))
              ELSE ArmMem!Load(n.mem, Accessed(n, i), AccessLen(i.f))
         m == SetReg(Based(n, i), i.d, v)
     IN IF i.d = PC THEN Completes(r, [m EXCEPT !.nextpc = v], 5) ELSE Completes(r, m, 3)
  /\ UNCHANGED netVars
\* ldrd and strd, whose register has to be an even one.  For strd the simulator ends
\* with a message even then: memory_store_direct has no case for its type of access.
Double(r, n, i) ==
  LET m == Based(n, i)
      a == Accessed(n, i)
  IN /\ i.op = "mem" /\ i.f \in {"ldrd", "strd"}
     /\ IF i.d % 2 = 1 THEN Stops(r, m, UnknownInstruction)
        ELSE i.f = "ldrd" /\ Completes(r, SetReg(SetReg(m, i.d, WordAt(n, a)), i.d + 1, WordAt(n, a + 4)), 4)
     /\ UNCHANGED netVars

\* stm and ldm.  The base is written first; stm stores the new one, unless it is the
\* first register of the list.
Number(list) == Cardinality(list)

\* Mutant: a block that is counted down begins one word too low.
FirstTooLow(n, i) ==
  Cut(n.reg[i.n] + (IF i.up THEN IF i.pre THEN 4 ELSE 0 ELSE -4 * Number(i.list)))

First(n, i) ==
  Cut(n.reg[i.n] + (IF i.up THEN IF i.pre THEN 4 ELSE 0
                    ELSE IF i.pre THEN -4 * Number(i.list) ELSE 4 - 4 * Number(i.list)))
Place(n, i, x) == First(n, i) + 4 * Number({y \in i.list : y < x})
WrittenBack(n, i) ==
  IF i.wb THEN SetReg(n, i.n, Cut(n.reg[i.n] + (IF i.up THEN 4 ELSE -4) * Number(i.list))) ELSE n
Stm(r, n, i) ==
  LET m == WrittenBack(n, i)
      Val(x) == IF x = PC THEN n.pc + 12
                ELSE IF x = i.n /\ (\A y \in i.list : x <= y) THEN n.reg[x] ELSE m.reg[x]
  IN /\ i.op = "stm"
     /\ Completes(r, [m EXCEPT !.mem = FoldSet(LAMBDA x, mem : ArmMem!Store(mem, Cut(Place(n, i, x)), 4, Val(x)), @, i.list)],
                  1 + Number(i.list))
     /\ UNCHANGED netVars
Ldm(r, n, i) ==
  LET m == WrittenBack(n, i)
      loaded == [m EXCEPT !.reg = [x \in DOMAIN @ |-> IF x \in i.list \ {PC} THEN WordAt(n, Place(n, i, x)) ELSE @[x]]]
      jump == PC \in i.list
  IN /\ i.op = "ldm"
     /\ Completes(r, IF jump THEN [loaded EXCEPT !.nextpc = WordAt(n, Place(n, i, PC))] ELSE loaded,
                  2 + Number(i.list) + (IF jump THEN 2 ELSE 0))
     /\ UNCHANGED netVars

\* b, bl and bx; clz.
Branch(r, n, i) ==
  /\ i.op \in {"b", "bl"}
  /\ LET m == [n EXCEPT !.nextpc = Cut(n.pc + 8 + 4 * i.imm)]
     IN Completes(r, IF i.op = "bl" THEN SetReg(m, LR, n.pc + 4) ELSE m, 3)
  /\ UNCHANGED netVars
BranchExchange(r, n, i) ==
  i.op = "bx" /\ Completes(r, [n EXCEPT !.nextpc = 4 * (n.reg[i.m] \div 4)], 3) /\ UNCHANGED netVars
CountZeros(r, n, i) ==
  i.op = "clz" /\ Completes(r, SetReg(n, i.d, Clz(n.reg[i.m])), 1) /\ UNCHANGED netVars

\* svc; what it does not know it skips.
SvcEnd(r, n, i) == i.op = "svc" /\ i.imm = 0 /\ Stops(r, n, StoppedState) /\ UNCHANGED netVars
SvcInfo(r, n, i) ==
  /\ i.op = "svc" /\ i.imm \notin {0, 82, 83, 85, 86, 87}
  /\ Completes(r, CASE i.imm = 80 -> SetReg(n, 0, MaxRank)
                    [] i.imm = 81 -> SetReg(n, 0, r)
                    [] i.imm = 84 -> SetReg(n, 0, Truth(~SenderReady(r)))
                    [] OTHER -> n, 1)
  /\ UNCHANGED netVars
SvcSend(r, n, i) ==
  /\ i.op = "svc" /\ i.imm = 82
  /\ \/ Put(r, n.reg[0], n.reg[1]) /\ Completes(r, n, 1)
     \/ ~SenderReady(r) /\ Blocks(r, n, SendBlocked) /\ UNCHANGED netVars
SvcRecv(r, n, i) ==
  /\ i.op = "svc" /\ i.imm = 83
  /\ \/ Take(r, n.reg[0]) /\ Completes(r, SetReg(n, 0, Taken(r, n.reg[0])), 1)
     \/ ~ProbeRank(r, n.reg[0]) /\ Blocks(r, n, RecvBlocked) /\ UNCHANGED netVars
\* Waiting for a flit of any core never blocks: -1, for none, is less than MAX_RANK.
SvcProbe(r, n, i) ==
  /\ i.op = "svc" /\ i.imm \in {85, 86, 87}
  /\ Completes(r, SetReg(n, 0, IF i.imm = 86 THEN Truth(ProbeRank(r, n.reg[0])) ELSE Cut(ProbeAny(r))), 1)
  /\ UNCHANGED netVars

Unknown(r, n, i) == i.op = "none" /\ Stops(r, n, UnknownInstruction) /\ UNCHANGED netVars

-----------------------------------------------------------------------------
\* armv3_one_cycle up to the switch.
Start(r) == [node[r] EXCEPT !.nextpc = 2 * (node[r].pc \div 2) + 4]
Fetch(n) ==
  IF n.pc \in DOMAIN Codes[n.code] THEN Codes[n.code][n.pc] ELSE [op |-> "none", cond |-> "al"]

Armv3OneCycle(r) ==
  /\ OneCycle(r) /\ node[r].kind = "armv3"
  /\ LET start == Start(r)
         i == Fetch(start)
         n == SetReg(start, PC, start.pc + 8)
     IN \/ Disabled(r, start, i)
        \/ /\ Condition(n.fl, i.cond)
           /\ \/ DataProcessing(r, n, i) \/ Multiply(r, n, i) \/ MultiplyLong(r, n, i)
              \/ IcStore(r, n, i) \/ IcLoad(r, n, i) \/ Double(r, n, i) \/ Stm(r, n, i) \/ Ldm(r, n, i)
              \/ Branch(r, n, i) \/ BranchExchange(r, n, i) \/ CountZeros(r, n, i)
              \/ SvcEnd(r, n, i) \/ SvcInfo(r, n, i) \/ SvcSend(r, n, i) \/ SvcRecv(r, n, i) \/ SvcProbe(r, n, i)
              \/ Unknown(r, n, i)
=============================================================================
