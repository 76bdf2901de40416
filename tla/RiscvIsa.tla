-------------------------------- MODULE RiscvIsa -------------------------------
(***************************************************************************)
(* What the RISC-V cores promise: every instruction is one step of its     *)
(* core, whatever number of cycles the simulator charges for it and however*)
(* often it has to repeat it.  Arithmetic is that of the integers; a channel*)
(* leads from every core to every other one.                               *)
(***************************************************************************)
EXTENDS Words, Sequences, FiniteSetsExt

CONSTANTS
  XLEN, Byte,
  Codes       \* program -> address -> instruction

VARIABLES
  code,       \* rank -> its program, "" for a core of another kind
  status,     \* "running", "ended" by the program, "unknown" instruction
  pc, reg, mem, csr,
  chan        \* sender -> receiver -> flits under way

vars == <<code, status, pc, reg, mem, csr, chan>>
Rank == DOMAIN code
Half == XLEN \div 2
Word == 0 .. 2^XLEN - 1

\* Arithmetic of words of w bits.
Exact(w, f, a, b) ==
  LET sa == Signed(w, a)  sb == Signed(w, b)
  IN CASE f = "add" -> Wrap(w, a + b)
       [] f = "sub" -> Wrap(w, a - b)
       [] f = "sll" -> Wrap(w, a * 2^(b % w))
       [] f = "srl" -> a \div 2^(b % w)
       [] f = "sra" -> Wrap(w, sa \div 2^(b % w))
       [] f = "slt" -> Truth(sa < sb)
       [] f = "sltu" -> Truth(a < b)
       [] f = "and" -> a & b
       [] f = "or" -> a | b
       [] f = "xor" -> a ^^ b
       [] f = "mul" -> Wrap(w, a * b)
       [] f = "mulh" -> Wrap(w, (sa * sb) \div 2^w)
       [] f = "mulhsu" -> Wrap(w, (sa * b) \div 2^w)
       [] f = "mulhu" -> (a * b) \div 2^w
       [] f = "div" -> Wrap(w, IF b = 0 THEN -1 ELSE Quot(sa, sb))
       [] f = "divu" -> Wrap(w, IF b = 0 THEN -1 ELSE a \div b)
       [] f = "rem" -> Wrap(w, IF b = 0 THEN a ELSE Rem(sa, sb))
       [] f = "remu" -> IF b = 0 THEN a ELSE a % b
Narrow == [addw |-> "add", subw |-> "sub", sllw |-> "sll", srlw |-> "srl", sraw |-> "sra",
           mulw |-> "mul", divw |-> "div", divuw |-> "divu", remw |-> "rem", remuw |-> "remu"]
Result(f, a, b) ==
  IF f \in DOMAIN Narrow
  THEN Extend(XLEN, Half, Exact(Half, Narrow[f], Wrap(Half, a), Wrap(Half, b)))
  ELSE Exact(XLEN, f, a, b)
\* mulh of the simulator negates the first operand, which the smallest number does
\* not survive: of that product nothing is promised.
Promised(f, a, b) == f # "mulh" \/ a # 2^(XLEN - 1) \/ b < 2^(XLEN - 1)

Holds(f, a, b) ==
  CASE f = "beq" -> a = b
    [] f = "bne" -> a # b
    [] f = "blt" -> Signed(XLEN, a) < Signed(XLEN, b)
    [] f = "bge" -> Signed(XLEN, a) >= Signed(XLEN, b)
    [] f = "bltu" -> a < b
    [] f = "bgeu" -> a >= b

\* The bytes of an access, the least significant one first.
Bytes == [lb |-> 1, lbu |-> 1, sb |-> 1, lh |-> 2, lhu |-> 2, sh |-> 2,
          lw |-> 4, lwu |-> 4, sw |-> 4, ld |-> 8, sd |-> 8]
ByteOf(v, k) == (v \div 2^(Byte * k)) % 2^Byte
Loaded(r, f, a) ==
  LET n == Bytes[f]
      u == MapThenSumSet(LAMBDA k : mem[r][a + k] * 2^(Byte * k), 0 .. n - 1)
  IN IF f \in {"lbu", "lhu", "lwu"} THEN u ELSE Extend(XLEN, n * Byte, u)

\* What reading a control register may give, and writing it.  Those of the network
\* answer what the moment gives; no other ones are known than these.
Pending(r) == {2^XLEN - 1} \cup {s \in Rank : chan[s][r] # <<>>}
Reads(r, no) ==
  CASE no \in DOMAIN csr[r] -> {csr[r][no]}
    [] no = "fcsr" -> {csr[r].fflags + 32 * csr[r].frm}
    [] no \in {"mhartid", "cid"} -> {r}
    [] no \in {"mtohost", "putchar"} -> {0}
    [] no = "sendrdy" -> {0, 1}
    [] no = "nextrecv" -> Pending(r)
    [] OTHER -> {}
Written(c, no, v) ==
  CASE no = "fflags" -> [c EXCEPT !.fflags = v % 32]
    [] no = "frm" -> [c EXCEPT !.frm = v % 8]
    [] no = "fcsr" -> [c EXCEPT !.fflags = v % 32, !.frm = (v \div 32) % 8]
    [] no \in {"mstatus", "mtvec", "mscratch", "mepc", "mcause"} -> [c EXCEPT ![no] = v]
    [] OTHER -> c

-----------------------------------------------------------------------------
Init ==
  /\ \A r \in Rank : code[r] # "" => status[r] = "running" /\ pc[r] = 0
  /\ \A s, d \in Rank : chan[s][d] = <<>>

Instr(r) == Codes[code[r]][pc[r]]
A(r) == reg[r][Instr(r).s]
B(r) == IF Instr(r).op = "op-imm" THEN Wrap(XLEN, Instr(r).imm) ELSE reg[r][Instr(r).t]
SetReg(r, v) == reg' = [reg EXCEPT ![r][Instr(r).d] = IF Instr(r).d = 0 THEN 0 ELSE v]
Goto(r, a) == pc' = [pc EXCEPT ![r] = Wrap(XLEN, a)]
Proceed(r) == Goto(r, pc[r] + 4)

\* The instructions that change registers only, and what they may leave in rd.
Results(r) ==
  LET i == Instr(r)
  IN CASE i.op = "lui" -> {i.imm}
       [] i.op = "auipc" -> {Wrap(XLEN, pc[r] + i.imm)}
       [] i.op \in {"op", "op-imm"} ->
            IF Promised(i.f, A(r), B(r)) THEN {Result(i.f, A(r), B(r))} ELSE Word
       [] i.op = "load" -> {Loaded(r, i.f, Wrap(XLEN, A(r) + i.imm))}
       [] i.op = "mc" /\ i.f = 1 -> {0, 1}
       [] i.op = "mc" /\ i.f = 5 -> {0, Truth(chan[A(r)][r] # <<>>)}
       [] i.op = "mc" /\ i.f = 7 -> Pending(r)
       [] i.op = "pimp" /\ i.f = 2 -> Pending(r)
       [] OTHER -> {}
Computes(r) ==
  /\ \E v \in Results(r) : SetReg(r, v)
  /\ Proceed(r)
  /\ UNCHANGED <<status, mem, csr, chan>>

\* Jumps, branches, fences, exceptions and the return from them.
Transfers(r) ==
  LET i == Instr(r)
  IN /\ \/ i.op = "jal" /\ Goto(r, pc[r] + i.imm) /\ SetReg(r, Wrap(XLEN, pc[r] + 4)) /\ csr' = csr
        \/ i.op = "jalr" /\ Goto(r, A(r) + i.imm) /\ SetReg(r, Wrap(XLEN, pc[r] + 4)) /\ csr' = csr
        \/ /\ i.op = "branch"
           /\ Goto(r, IF Holds(i.f, A(r), B(r)) THEN pc[r] + i.imm ELSE pc[r] + 4)
           /\ UNCHANGED <<reg, csr>>
        \/ i.op = "pbr" /\ (Goto(r, pc[r] + i.imm) \/ Proceed(r)) /\ UNCHANGED <<reg, csr>>
        \/ i.op = "fence" /\ Proceed(r) /\ UNCHANGED <<reg, csr>>
        \/ /\ i.op \in {"ecall", "ebreak"}
           /\ Goto(r, csr[r].mtvec) /\ reg' = reg
           /\ csr' = [csr EXCEPT ![r].mepc = pc[r], ![r].mcause = IF i.op = "ecall" THEN 6 ELSE 7]
        \/ i.op = "eret" /\ Goto(r, csr[r].mepc) /\ UNCHANGED <<reg, csr>>
     /\ UNCHANGED <<status, mem, chan>>

Stores(r) ==
  LET i == Instr(r)
      a == Wrap(XLEN, A(r) + i.imm)
  IN /\ i.op = "store" /\ Proceed(r)
     /\ mem' = [mem EXCEPT ![r] = [x \in DOMAIN @ |->
          IF x \in a .. a + Bytes[i.f] - 1 THEN ByteOf(B(r), x - a) ELSE @[x]]]
     /\ UNCHANGED <<status, reg, csr, chan>>

\* An odd number is written to mtohost.
EndsNow(r) ==
  /\ Instr(r).op = "csr" /\ Instr(r).csr = "mtohost" /\ Instr(r).f \notin {"rc", "rci"}
  /\ IF Instr(r).f \in {"rw", "rs"} THEN A(r) % 2 = 1 ELSE Instr(r).imm % 2 = 1

Controls(r) ==
  LET i == Instr(r)
      arg == IF i.f \in {"rw", "rs", "rc"} THEN A(r) ELSE i.imm
  IN /\ i.op = "csr" /\ ~EndsNow(r)
     /\ \E v \in Reads(r, i.csr) :
          /\ SetReg(r, v)
          /\ csr' = [csr EXCEPT ![r] = Written(@, i.csr,
               CASE i.f \in {"rw", "rwi"} -> arg
                 [] i.f \in {"rs", "rsi"} -> v | arg
                 [] i.f \in {"rc", "rci"} -> v - (v & arg))]
     /\ Proceed(r)
     /\ UNCHANGED <<status, mem, chan>>

\* A flit is sent and received once.
Sends(r) ==
  /\ Instr(r).op \in {"mc", "pimp"} /\ Instr(r).f = 0
  /\ chan' = [chan EXCEPT ![r][A(r)] = Append(@, B(r))]
  /\ Proceed(r)
  /\ UNCHANGED <<status, reg, mem, csr>>
Receives(r) ==
  /\ \E s \in Rank :
       /\ \/ Instr(r).op = "mc" /\ Instr(r).f = 4 /\ s = A(r)
          \/ Instr(r).op = "pimp" /\ Instr(r).f = 3
       /\ chan[s][r] # <<>>
       /\ SetReg(r, Head(chan[s][r]))
       /\ chan' = [chan EXCEPT ![s][r] = Tail(@)]
  /\ Proceed(r)
  /\ UNCHANGED <<status, mem, csr>>

Ends(r) ==
  /\ \/ EndsNow(r) /\ status' = [status EXCEPT ![r] = "ended"]
     \/ /\ Instr(r).op = "none" \/ (Instr(r).op = "csr" /\ Reads(r, Instr(r).csr) = {})
        /\ status' = [status EXCEPT ![r] = "unknown"]
  /\ UNCHANGED <<pc, reg, mem, csr, chan>>

\* A core of another kind uses the network, too.
Others == UNCHANGED <<status, pc, reg, mem, csr>> /\ \E r \in Rank : code[r] = ""

Next ==
  /\ code' = code
  /\ \/ \E r \in Rank :
          /\ code[r] # "" /\ status[r] = "running"
          /\ Computes(r) \/ Transfers(r) \/ Stores(r) \/ Controls(r)
             \/ Sends(r) \/ Receives(r) \/ Ends(r)
     \/ Others

Spec == Init /\ [][Next]_vars
=============================================================================
