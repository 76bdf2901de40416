--------------------------------- MODULE Riscv ---------------------------------
(***************************************************************************)
(* The RISC-V core of riscv.c: riscv_one_cycle with the integer            *)
(* instructions, the control registers, exceptions and the instructions for*)
(* the network.  An instruction is a record with the fields of the         *)
(* instruction word that it uses: op for the opcode, f for what tells its  *)
(* instructions apart, d, s and t for rd, rs1 and rs2, imm for the decoded *)
(* immediate and csr for a control register.                               *)
(***************************************************************************)
EXTENDS Simulation, RiscvAlu

CONSTANTS
  Codes,            \* program -> address -> instruction
  RvPage, RvByte    \* size of a page, bits of a byte

RiscvAssumption == RvPage \in Nat /\ RvByte * 8 = XLEN

RvMem == INSTANCE Memory WITH PageSize <- RvPage, Byte <- RvByte, MaxAddr <- 2^XLEN

\* riscv_init_context.
RiscvContext(code, reg) ==
  [kind |-> "riscv", code |-> code, state |-> Running, pc |-> 0, nextpc |-> 0, reg |-> reg,
   mem |-> RvMem!NoMemory,
   csr |-> [fcsr |-> 0, mstatus |-> 0, mtvec |-> 0, mscratch |-> 0, mepc |-> 0, mcause |-> 0]]

-----------------------------------------------------------------------------
\* Control registers.  The counters and the constants are left out.

ReadOnly == {"mhartid", "maxcid", "cid", "sendrdy", "nextrecv"}
Writable == {"fflags", "frm", "fcsr", "mstatus", "mtvec", "mscratch", "mepc", "mcause",
             "mtohost", "putchar"}
\* A register that may only be read passes, too, whatever the instruction does:
\* its case has no break.
CsrValid(i) == i.csr \in ReadOnly \cup Writable

CsrRead(r, no) ==
  LET csr == node[r].csr
  IN CASE no = "fflags" -> csr.fcsr % 32
       [] no = "frm" -> (csr.fcsr \div 32) % 8
       [] no \in DOMAIN csr -> csr[no]
       [] no \in {"mtohost", "putchar"} -> 0
       [] no = "maxcid" -> MaxRank
       [] no \in {"mhartid", "cid"} -> r
       [] no = "sendrdy" -> Truth(~SenderReady(r))
       [] no = "nextrecv" -> U(ProbeAny(r))

CsrWrite(csr, no, v) ==
  CASE no = "fflags" -> [csr EXCEPT !.fcsr = 32 * (@ \div 32) + (v % 32)]
    [] no = "frm" -> [csr EXCEPT !.fcsr = (@ % 32) + 32 * (v % 8)]
    [] no = "fcsr" -> [csr EXCEPT !.fcsr = v % 256]
    [] no \in DOMAIN csr \ {"fcsr"} -> [csr EXCEPT ![no] = v]
    [] OTHER -> csr

\* riscv_instruction_uses_reg_s, riscv_instruction_uses_reg_t.
UsesS(i) ==
  ~ \/ i.op \in {"fence", "auipc", "lui", "jal"}
    \/ i.op = "mc" /\ i.f \in {1, 6, 7}
    \/ i.op = "csr" /\ CsrValid(i) /\ i.f \in {"rwi", "rsi", "rci"}
UsesT(i) == i.op \in {"store", "op", "branch"} \/ (i.op = "mc" /\ i.f = 0)

\* The instruction at an address; the memory behind the program is zero.
Fetch(n, pc) ==
  LET prog == Codes[n.code]
  IN IF pc \in DOMAIN prog THEN prog[pc] ELSE [op |-> "none", f |-> 0, d |-> 0, s |-> 0, t |-> 0]

\* One more cycle if the next instruction needs the loaded register.
Interlock(r, n, i) ==
  LET next == Fetch(n, n.nextpc)
  IN Truth((UsesS(next) /\ next.s = i.d) \/ (UsesT(next) /\ next.t = i.d))

\* riscv_one_cycle up to the switch.
Start(r) == [node[r] EXCEPT !.nextpc = U(node[r].pc + 4), !.reg[0] = 0]

-----------------------------------------------------------------------------
\* riscv_execute_iw.  The instructions are given the context n that Start has
\* left and the instruction i.

\* Mutant: the return address is written before the target is read.
JumpLinkFirst(r, n, i) ==
  /\ i.op \in {"jal", "jalr"}
  /\ LET m == [n EXCEPT !.reg[i.d] = U(n.pc + 4)]
     IN Completes(r, [m EXCEPT !.nextpc = U((IF i.op = "jal" THEN n.pc ELSE m.reg[i.s]) + i.imm)], 3)
  /\ UNCHANGED netVars

\* lui and auipc; jal and jalr, which reads its register before writing one.
Upper(r, n, i) ==
  /\ i.op \in {"lui", "auipc"}
  /\ Completes(r, [n EXCEPT !.reg[i.d] = IF i.op = "lui" THEN i.imm ELSE U(n.pc + i.imm)], 1)
  /\ UNCHANGED netVars
Jump(r, n, i) ==
  /\ i.op \in {"jal", "jalr"}
  /\ Completes(r, [n EXCEPT !.nextpc = U((IF i.op = "jal" THEN n.pc ELSE n.reg[i.s]) + i.imm),
                            !.reg[i.d] = U(n.pc + 4)], 3)
  /\ UNCHANGED netVars

\* ic_branch.
Branches(r, n, i, cond) ==
  Completes(r, IF cond THEN [n EXCEPT !.nextpc = U(n.pc + i.imm)] ELSE n, IF cond THEN 3 ELSE 1)
Compares(f, a, b) ==
  CASE f = "beq" -> a = b
    [] f = "bne" -> a # b
    [] f = "blt" -> S(a) < S(b)
    [] f = "bge" -> S(a) >= S(b)
    [] f = "bltu" -> a < b
    [] f = "bgeu" -> a >= b
Branch(r, n, i) ==
  /\ i.op = "branch"
  /\ Branches(r, n, i, Compares(i.f, n.reg[i.s], n.reg[i.t]))
  /\ UNCHANGED netVars

\* lb to lwu and sb to sd.
AccessLen(f) ==
  CASE f \in {"lb", "lbu", "sb"} -> 1
    [] f \in {"lh", "lhu", "sh"} -> 2
    [] f \in {"lw", "lwu", "sw"} -> 4
    [] f \in {"ld", "sd"} -> 8
LoadReg(r, n, i) ==
  LET addr == U(n.reg[i.s] + i.imm)
      len == AccessLen(i.f)
      u == IF i.f \in {"lbu", "lhu", "lwu"} THEN RvMem!Load(n.mem, addr, len)
           ELSE RvMem!LoadSigned(XLEN, n.mem, addr, len)
  IN /\ i.op = "load"
     /\ Completes(r, [n EXCEPT !.reg[i.d] = u], Interlock(r, n, i) + 1)
     /\ UNCHANGED netVars
StoreReg(r, n, i) ==
  /\ i.op = "store"
  /\ Completes(r, [n EXCEPT !.mem = RvMem!Store(@, U(n.reg[i.s] + i.imm), AccessLen(i.f), n.reg[i.t])], 1)
  /\ UNCHANGED netVars

\* The arithmetic with an immediate (0x13, 0x1b) and with two registers (0x33, 0x3b).
Arith(r, n, i) ==
  /\ i.op \in {"op-imm", "op"}
  /\ Completes(r, [n EXCEPT !.reg[i.d] =
                     Alu(i.f, n.reg[i.s], IF i.op = "op" THEN n.reg[i.t] ELSE U(i.imm))],
               AluLatency(i.f))
  /\ UNCHANGED netVars

Fence(r, n, i) == i.op = "fence" /\ Completes(r, n, 1) /\ UNCHANGED netVars

\* ic_exception for ecall and ebreak; eret.
Exception(r, n, i) ==
  /\ i.op \in {"ecall", "ebreak"}
  /\ Completes(r, [n EXCEPT !.csr.mcause = IF i.op = "ecall" THEN 6 ELSE 7,
                            !.csr.mepc = n.pc, !.nextpc = n.csr.mtvec], 3)
  /\ UNCHANGED netVars
Eret(r, n, i) ==
  i.op = "eret" /\ Completes(r, [n EXCEPT !.nextpc = n.csr.mepc], 3) /\ UNCHANGED netVars

\* A write to mtohost with the lowest bit set ends the program.
EndsProgram(n, i) ==
  /\ i.csr = "mtohost"
  /\ \/ i.f \in {"rwi", "rsi"} /\ i.imm % 2 = 1
     \/ i.f \in {"rw", "rs"} /\ n.reg[i.s] % 2 = 1
ToHost(r, n, i) ==
  i.op = "csr" /\ EndsProgram(n, i) /\ Stops(r, n, StoppedState) /\ UNCHANGED netVars
Csr(r, n, i) ==
  LET u == CsrRead(r, i.csr)
      arg == IF i.f \in {"rwi", "rsi", "rci"} THEN i.imm ELSE n.reg[i.s]
      v == CASE i.f \in {"rw", "rwi"} -> arg
             [] i.f \in {"rs", "rsi"} -> u | arg
             [] i.f \in {"rc", "rci"} -> u & Not1s(XLEN, arg)
  IN /\ i.op = "csr" /\ ~EndsProgram(n, i) /\ CsrValid(i)
     /\ Completes(r, [n EXCEPT !.csr = CsrWrite(@, i.csr, v), !.reg[i.d] = u], 1)
     /\ UNCHANGED netVars

\* send s t.  A core that cannot send tries again in the next cycle.
SendFlit(r, n, i) ==
  /\ i.op = "mc" /\ i.f = 0
  /\ \/ Put(r, n.reg[i.s], n.reg[i.t]) /\ Completes(r, n, 1)
     \/ ~SenderReady(r) /\ Blocks(r, n, SendBlocked) /\ UNCHANGED netVars
\* cong d.
Cong(r, n, i) ==
  /\ i.op = "mc" /\ i.f = 1
  /\ Completes(r, [n EXCEPT !.reg[i.d] = Truth(~SenderReady(r))], 1 + Interlock(r, n, i))
  /\ UNCHANGED netVars
\* recv d s, probe d s and any d wait for a cycle.
Request(r, n, i) ==
  /\ i.op = "mc" /\ i.f \in {4, 5, 7} /\ n.state # RecvBlocked
  /\ Blocks(r, n, RecvBlocked) /\ UNCHANGED netVars
RecvFlit(r, n, i) ==
  /\ i.op = "mc" /\ i.f = 4 /\ n.state = RecvBlocked
  /\ \/ /\ Take(r, n.reg[i.s])
        /\ Completes(r, [n EXCEPT !.reg[i.d] = Taken(r, n.reg[i.s])], 1 + Interlock(r, n, i))
     \/ ~ProbeRank(r, n.reg[i.s]) /\ Blocks(r, n, RecvBlocked) /\ UNCHANGED netVars
Probe(r, n, i) ==
  /\ i.op = "mc" /\ i.f \in {5, 7} /\ n.state = RecvBlocked
  /\ Completes(r, [n EXCEPT !.reg[i.d] = IF i.f = 5 THEN Truth(ProbeRank(r, n.reg[i.s]))
                                         ELSE U(ProbeAny(r))],
               1 + Interlock(r, n, i))
  /\ UNCHANGED netVars

\* PIMP.  The opcode above goes on here if it has not returned, and this one with
\* the next.  The simulator ends with a message if snd cannot send or rcvp finds
\* nothing.
Pimp(i) == \/ i.op = "pimp" /\ i.f \in {0, 2, 3}
           \/ i.op = "mc" /\ i.f \in {2, 3}
Snd(r, n, i) ==
  /\ Pimp(i) /\ i.f = 0
  /\ Put(r, n.reg[i.s], n.reg[i.t]) /\ Completes(r, n, 1)
Rcvn(r, n, i) ==
  /\ Pimp(i) /\ i.f = 2
  /\ Completes(r, [n EXCEPT !.reg[i.d] = U(ProbeAny(r))], 1) /\ UNCHANGED netVars
Rcvp(r, n, i) ==
  /\ Pimp(i) /\ i.f = 3
  /\ Take(r, ProbeAny(r))
  /\ Completes(r, [n EXCEPT !.reg[i.d] = Taken(r, ProbeAny(r))], 1)

\* bsf, bsnf, bre and brne.
PimpBranch(i) ==
  \/ i.op = "pbr" /\ i.f \in 0 .. 3
  \/ i.op = "pimp" /\ i.f = 1
BranchNoc(r, n, i) ==
  /\ PimpBranch(i)
  /\ Branches(r, n, i, CASE i.f = 0 -> ~SenderReady(r)
                         [] i.f = 1 -> SenderReady(r)
                         [] i.f = 2 -> ProbeAny(r) < 0
                         [] i.f = 3 -> ProbeAny(r) >= 0)
  /\ UNCHANGED netVars

Known(i) ==
  \/ i.op \in {"lui", "auipc", "jal", "jalr", "branch", "load", "store", "op-imm", "op", "fence",
               "ecall", "ebreak", "eret"}
  \/ i.op = "csr" /\ CsrValid(i)
  \/ i.op = "mc" /\ i.f \in {0, 1, 4, 5, 7}
  \/ Pimp(i)
  \/ PimpBranch(i)
Unknown(r, n, i) == ~Known(i) /\ Stops(r, n, UnknownInstruction) /\ UNCHANGED netVars

\* riscv_one_cycle.
RiscvOneCycle(r) ==
  /\ OneCycle(r) /\ node[r].kind = "riscv"
  /\ LET n == Start(r)
         i == Fetch(n, n.pc)
     IN \/ Upper(r, n, i) \/ Jump(r, n, i) \/ Branch(r, n, i)
        \/ LoadReg(r, n, i) \/ StoreReg(r, n, i) \/ Arith(r, n, i)
        \/ Fence(r, n, i) \/ Exception(r, n, i) \/ Eret(r, n, i)
        \/ ToHost(r, n, i) \/ Csr(r, n, i)
        \/ SendFlit(r, n, i) \/ Cong(r, n, i)
        \/ Request(r, n, i) \/ RecvFlit(r, n, i) \/ Probe(r, n, i)
        \/ Snd(r, n, i) \/ Rcvn(r, n, i) \/ Rcvp(r, n, i) \/ BranchNoc(r, n, i)
        \/ Unknown(r, n, i)
=============================================================================
