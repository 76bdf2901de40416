# RC/MC in TLA+

RC/MC is a manycore without shared memory: small cores that exchange flits over
the PaterNoster network on chip. The repository holds a cycle accurate simulator
(`macsim`), an MPI library on top of the flits (`sw/lib/mpi`), an FPGA
implementation, programs and tests. This directory models the parts whose
correctness is hard to see from a test: the networks of the simulator, the cores
and their simulation, and the protocols of the MPI library.

Every definition is translated from the source; PROJECT.json ("map") names the
lines. The comments in the modules name the functions.

## The system

    programs           sw/benchmarks, sw/tests
      | MPI_*          sw/lib/mpi: point-to-point, barrier, collectives
      | fgmp_send_flit, fgmp_recv_flit, fgmp_cong, fgmp_probe, fgmp_any
    cores              macsim/src/arch: riscv, armv3, armv6m, rvmpb, traffic, trace
      | noc_send_flit, noc_recv_flit, noc_sender_ready, noc_probe_rank, noc_probe_any
    network interface  macsim/src/node.h, node.c
      | function pointers of the network that noc_init_all chose
    networks           macsim/src/noc: pnconfig, pnjm0, minbd, pnbe*, ..., perfect
      |
    buffers            flitfifo.h, pbuffer.c, flitslotdelay.h, flitqueue.c, msgqueue.c

`macsim-seq.c` runs one thread: in every cycle each core executes one
instruction, which may call the network once, and then `noc_route_all`
simulates one cycle of the whole network. The concurrency is that of the
modelled machine: cores, routers and processes that interleave in any order,
where only the flits they exchange synchronise them.

### Inventory

| component | state | operations | what is hard | what makes it correct |
|---|---|---|---|---|
| Flit FIFO (`flitfifo.h`) | `buf`, `first`, `count` | insert, remove, remove_by_rank, find_rank, first_rank | removal from the middle with two memmoves, both sides of the wrap | behaves as a bounded queue |
| Torus (`node.c`, `share.h`) | none | noc_init_all, X_/Y_FROM_RANK | wrap-around | neighbours are nodes, coordinates fit |
| Network interface (`node.h`, `node.c`) | `noc_type`, `noc_context` | send, recv, sender_ready, probe_*, route_all | what a program may rely on | lossless, ordered channel per pair |
| Configurable PaterNoster router (`pnconfig.c`) | send, receive and corner FIFO, slot delay, two input registers, stall timers, injection state | send_flit, recv_flit, route_all | deflection: a flit that cannot leave its ring takes another round, timers must hold back everything that would overtake it; buffers that are tested three cycles before they are filled | order per sender, no loss, no overflow, no starvation |
| Manhattan network (`manhattan.c`, `flitqueue.c`) | `intransit`, `arrived` | send, recv, probe, route_one_cycle | the loop over the list ends with the first flit that arrives | order, delivery |
| Fixed latency network (`fixedlat.c`, `msgqueue.c`) | `incomming`, ring of slots, `arrived` | the same | queues spliced every cycle | order, delivery, readiness means success |
| Perfect network (`perfect.c`) | `recvbuf` | the same | nothing | order, delivery |
| Router `pnjm0.c` | buffers, two input registers, stall timers | send, recv, probe, route_all | as pnconfig, with other timers | as pnconfig |
| Best effort routers (`pnbe0.c`, `pnbe1.c`, `pnbe2.c`) | buffers and flags of a node; outputs that the last router hands over | the same | a chain of tests that pass one flit on from local to local; marks that nothing initialises; timers per column | order, no loss, no starvation |
| Caerus router (`caerus.c`) | the same and a turn between the rows | the same | flits that find a full core buffer are dropped | a flit is received once or dropped once |
| Scheduled routers (`pnoa.c`, `pnaa.c`) | the place in the schedule | the same | nothing tests whether a slot is free: the schedule has to know | every pair has its slot, no flit meets another |
| Deflection router (`minbd.c`) | two stages of four places, side buffer, a random seed | the same | flits go anywhere and are put in order at the receiver | order, no loss, no livelock |
| MPI barrier (`mpi_barrier.c`) | program counter; the flits on the way | MPI_Barrier | consecutive rounds overlap; nothing but order tells a release from a token | nobody leaves early, everybody leaves, no assert fails |
| MPI exchange in place (`mpi_sendrecv_replace.c`) | `sptr`, `rptr`, ring buffer, the message buffer | MPI_Sendrecv_replace | receives into the buffer that is still being sent, with any congestion | sends the original, receives everything, ends |
| MPI point-to-point (`mpi_send.c`, `mpi_recv.c`, `mpi_sendrecv.c`, `mpi_irecv.c`, `mpi_wait.c`) | request slots | send, recv, sendrecv, irecv, wait | the receiver must allow a send; everybody may send first | messages are received complete; everybody returns |
| MPI collectives (`mpi_alltoall.c`, `mpi_gather*.c`, `mpi_bcast.c`, `mpi_scatter*.c`, `mpi_reduce.c`) | counters of bytes per partner | the calls | flits carry no tags: a call is recognised by order and by acknowledgements only | flits of a call stay in it; nothing is left; no deadlock |
| MPI communicators (`mpi_comm.c`, `mpi_init.c`, `parop_comm_split_consecutive.c`) | groups | create, split, free | memory management | ranks in a group name the right processes |
| Simulation loop (`macsim-seq.c`) | state of the cores, turn | one cycle | a core that cannot send or receive repeats its instruction in the next cycle | an instruction takes effect once |
| Memory (`memory.c`, `memory.h`) | pages, made when they are written | load, store of 1 to 8 bytes | accesses across the border of two pages, one of which may not exist | what is written is read |
| RISC-V core (`riscv.c`) | registers, pc, CSRs, exceptions, FGMP instructions | riscv_one_cycle | products put together from halves, carries, limits; blocking instructions | implements the instruction set |
| ARM cores (`armv6m.c`, `armv3.c`) | registers, flags, modes, two stacks | armv6m_one_cycle, armv3_one_cycle | flags; blocks of registers; exceptions that save and restore a context | programs compute what they should; exceptions are invisible |
| Traffic generator (`traffic.c`) | injection queue | traffic_one_cycle | direct send next to the queue | every flit is sent once |
| Trace cores (`trace.c`, `netrace/netrace.c`) | reader, dependencies, counters, queues | netrace_one_cycle, nt_* | packets are read ahead of the clock; dependencies counted before they are read | packets wait for what they depend on; the end is the end |
| Message passing buffer (`rvmpb.c`) | send and receive state machine | never called | -- | -- |
| FPGA (`fpga/`), programs, tests, tools | -- | -- | -- | -- |

The hazards -- what can go wrong here that a test would hardly reach -- are
listed with their lines in PROJECT.json, each with the properties that would
catch it, or the reason why none does yet.

## The modules

| module | models | state and actions |
|---|---|---|
| `Noc` | what a program may expect of a network | `sent[f]`, `got[f]` per pair of sender and receiver; `Recv` receives exactly the next flit |
| `FlitQueue` | what the routers expect of a FIFO | the sequence `q` and the result of the last call |
| `FlitFifo` | `flitfifo.h` | `buf`, `first`, `count`; one action per function; implements `FlitQueue` |
| `Flits` | flits and the buffers of `pbuffer.c` and `flitfifo.h` as sequences | operators |
| `Torus` | `noc_init_all`, `share.h` | coordinates and neighbours |
| `PnConfig` | `pnconfig.c` | the buffers as sequences (justified by `FlitFifo`), the input registers, the timers, the injection state; `RouteAll` is one cycle of all routers, `Send` and `Recv` the two calls of a core; `got[f]` are the numbers of the flits received |
| `Manhattan`, `FixedLat`, `Perfect` | the abstract networks | their queues; `RouteAll`, `Send`, `Recv` |
| `NocInterface` | `noc_type` and the function pointers of `node.h` | composes the three: the type is chosen in the initial state, every call goes to the network of that type |
| `Pnjm0` | `pnjm0.c` | `ctx[n]`, the context of every router; `RouteAll`, `Send`, `Recv` |
| `PnNode` | what the next six have in common: injection, core buffer, the end of a cycle | `ctx[n]`, `lost`, `stopped`; a router module gives the chain of functions of one cycle |
| `Pnbe0`, `Pnbe1`, `Pnbe2`, `Caerus`, `Pnoa`, `Pnaa` | the files of these names | the same |
| `Minbd` | `minbd.c` | `ctx[n]`, `seed`; the places of the two stages |
| `Networks` | `noc_init_all`, `noc_route_all` and the calls of a core for all of them | composes the eight routers and `NocInterface`; the network is chosen in the initial state |
| `Barrier` | what a program expects of a barrier | `entered[p]`, `left[p]` |
| `MpiBarrier` | `mpi_barrier.c`, `broadcast_flit` | one process per rank, one channel per pair; an action for the call, each flit sent and each received; implements `Barrier` |
| `SendrecvReplace` | `mpi_sendrecv_replace.c`, `recv_raw` | the pointers, the ring buffer, the message buffer, the flits from each sender in the receive buffer of a process, whose `room` they share; an action per statement that sends or receives |
| `MpiCalls` | the other functions of `sw/lib/mpi` that transfer messages | a call is the script of its sends and receives; `Step(p)` executes the next one; groups: all processes, a part, one alone |
| `MpiLibrary` | the library | composes `MpiCalls` and `SendrecvReplace` |
| `Words` | integers of w bits | operators |
| `Simulation` | `macsim-seq.c`, `arch/share.h`, the network as the cores see it | `node[r]` (context of a core), `turn`, `transit`, `inbox`; `RouteAll` |
| `Memory` | `memory.c`, `memory.h` | operators on a function from page numbers to pages |
| `RiscvAlu`, `Riscv` | `riscv.c` | the arithmetic; `OneCycle`, an instruction of a core |
| `RiscvIsa` | what a program may expect of a RISC-V core | one step per instruction, arithmetic of the integers, one channel per pair |
| `ArmAlu`, `Armv6m`, `Armv3` | `armv6m.c`, `armv3.c` | the same for the ARM cores, with the two stacks and the exception frames |
| `Traffic` | `traffic.c` | the injection queue of a core; a cycle of it |
| `Netrace` | `trace.c`, `netrace.c` | `nt`, the reader and the counters; the queues of a core; a cycle |
| `ArmPrograms`, `Cores` | programs; the mixture of cores that `macsim-seq.c` simulates | composes the cores with `Simulation`; a scenario, chosen in the initial state, gives every node its kind, its program and its registers |
| `*Proofs` | -- | the theorems below; `Torus` holds its own |
| `MCPnRings` | -- | constants for TLC; chooses between configurations of `PnConfig` |

How they fit together: `FlitFifo` shows that a FIFO is a sequence, `PnConfig`
and the routers use sequences; `PnConfig`, `MCPnRings` and `Networks` show that a network
is `Noc`; the MPI modules and `Simulation` assume a network that is `Noc`, one channel
per pair. The MPI modules interleave the processes freely; `Simulation` lets
the cores take turns as the loop does, and `RouteAll` decides which of the flits under
way arrive.

One step of `PnConfig!RouteAll` is the function `router_one_cycle` for all
routers. Its decisions (`EjectSouth`, `InjectCorner`, `EjectWest`, `TurnWest`,
`SendEast`, ...) are predicates on the state at the beginning of the cycle, in
the order of the code: a decision that the code takes when `north`, `east` or
`local` is still free names the earlier decisions that would have taken it. All
routers read the registers that the last cycle wrote, so that a cycle is one
step.

The routers of `Networks` are chains of stages instead: `pnbe2_route_one_cycle` looks at
one input or buffer after the other and moves a flit between the locals of the node.
Each stage is an operator from context to context, `Cycle` is their composition in the
order of the code. A flit that a function overwrites is not forgotten by the model: it is
put into `dropped` and at the end of the cycle into `lost`, which the properties
read. A mark that the code never initialises is taken from the set `Marks`.

An instruction of a core is a record, the result of the decoding that the code does
with shifts and masks; its execution is an operator from the context of the core, and the
channels where it sends or receives, to those after it. A blocked core keeps its `pc`
and executes the instruction again in its next turn, as in the code.

In `MpiCalls` a call is unfolded into the sends and receives that the code executes
in this order. Loops whose order depends on the network (`gather`, `alltoall`) are
single entries of the script that are repeated. A data flit carries the call and the
place it belongs to, which the code does not know: the properties compare it with the
place at which the flit is received.

An `assert` that fails sets `aborted`, after which nothing happens. `stopped` of the
routers stands for the end of the simulation by `fatal`.

History variables (`sent`, `got`, `entered`, `left`) are read by guards only to
bound the number of flits or rounds.

## What the runs check

| run | instance | question | states |
|---|---|---|---|
| `flit_fifo` | 3 entries, 2 senders, 2 payloads | does the ring buffer behave as a queue? | 2 560 |
| `pn_config_buffered` | 2x2 torus, 3 senders to one receiver, 2 flits each, buffers of 3, 2 and 1, buffered bypasses | overflow, loss, doubling, order | 73 052 |
| `pn_rings` | rings of three routers, 2 senders to one receiver, 2 or 3 flits each; row with unbuffered bypass, "exp" timers, alternating injection; column with "cheap" timers, request injection; column without bypass; and a 2x2 torus with double ejection and a receive buffer for all flits | order and delivery | 27 647 |
| `networks` | eight routers on tori from 2x2 to 3x3 and the abstract networks in a row of 3, with 1 to 3 flits of each flow | loss, doubling, order, schedules, delivery | 45 818 |
| `mpi_barrier` | 4 processes, 3 barriers | order of rounds, asserts, waiting for one another, termination | 293 |
| `mpi_library` | 3 processes; two calls, each in a group of one, two or all processes, over a network that holds 3 flits for a process; or MPI_Sendrecv_replace with every pattern of partners, 4 flits, ring buffer of 1, room for 1, 4 or 5 flits at a process | what is sent and received, what is left, waiting for one another, termination | 186 018 |
| `cores` | 2 to 4 cores; 31 scenarios: programs for many operands, programs that send to one another, synthetic traffic, the replay of a trace | results, exceptions, conservation, dependencies, termination | 148 785 |
| `pn_config_double`, `noc_interface_probe`, `noc_interface_cong`, `mpi_alltoall_barrier`, `sendrecv_replace_all` | | the disagreements below | |

The properties:

- `FlitFifo!QueueSpec`: for every sequence of calls the ring buffer returns what a
  queue would. `TypeOK` bounds `first` and `count`.
- `NocSpec` (`PnConfig`, `MCPnRings`, `Networks`): the network implements
  `Noc`: each pair's flits come out complete, once, in order. In `PnConfig` this is
  what the stall timers are for; several steps of several routers are needed to
  break it. In `Networks` it holds for every step in which no flit has been lost,
  and not for `caerus`, which reorders (caerus.c:141-155).
- `PnConfig!Room`, `NoAssertFails`: a receive buffer that is not declared full has
  room for the flits that are still in the slot delay when the next one is ejected.
- `Conservation` (`PnConfig`, `Networks`): a flit on its way is in exactly one place of one
  router, one that was received or dropped is nowhere; in
  `Networks` it is the property of the router that was chosen. In `PnConfig` four decisions about
  two input registers, a corner buffer and a send buffer have to fit together; the chains
  of the other routers pass a flit through several locals, and forgetting to clear one
  copies it.
- `Networks!Lossless`: only `pnbe0` and `caerus` ever drop a flit.
- `Networks!SchedulesComplete`: the formulas of `pnaa` give every pair of nodes a slot, on
  square tori of 2 to 6 and 8 columns.
- `Delivery` (`MCPnRings`, `Networks`): every flit that was sent is received, or lost.
- `MpiBarrier!BarrierSpec`, `AssertsHold`, `EverybodyLeaves`: a barrier of every
  round is one, although fast processes are already in the next. `NobodyStuck`: as long as
  somebody is in a barrier, a process has a flit to receive or to send, or has not called
  yet.
- `MpiLibrary!CallsReceiveTheirs`: a call receives the flits of that call at the
  other process, each at its place. `CallsLeaveNothing`: when all have returned no flit
  is left, so that the next call finds empty channels. `AssertsHold`: the asserts on
  acknowledgements. `SendsOriginal`: the data that MPI_Sendrecv_replace sends is the data of before
  the call. `ExchangeGoesOn`: until everybody has returned from it, a flit of somebody can
  move; a process that goes round in its loop because it can neither send nor receive does
  not count. The one exception is `SomebodyKeptOut`: a process waits for a flit of one partner,
  those of the other one fill its receive buffer, and the buffer is too small for a message and
  an acknowledgement. `EverybodyReturns`: all calls end, the exchange with the same
  exception.
- `Cores!RiscvImplementsIsa`: a RISC-V core in the simulator, with its wait states, its
  repeated instructions, its paged memory and its products from halves, implements
  `RiscvIsa`.
- `Cores!ArmProgramsCompute`: what a program of an ARM core leaves in the registers is
  what the integers say, for operands and shifts outside the errors listed below. `ContextRestored`: the return from an exception restores
  the interrupted context, for every combination of mode, stack and alignment.
- `Cores!TrafficConserved`, `TraceKept`, `DependenciesFirst`: the two kinds of
  generators neither lose nor double a flit, the counter of the trace that decides about the
  end counts exactly what is under way, and no packet leaves before what it depends on.
- `Cores!ProgramsEnd`: every scenario ends.

### Bounds, and why they are enough

- Flits: a property of order needs two flits of one sender; three let one of them
  be deflected, one wait behind it and one be injected in the round of the
  deflected one. Two senders to one receiver are enough to cause deflections.
- Buffers: a receive buffer of 2 is the smallest that ever accepts a flit and that
  is not full at once; with it the flits are deflected in nearly every behaviour. A
  corner buffer of 1 makes the turn block. A send buffer of 3 refuses the third flit
  after a cycle in which two were in it.
- Torus: a ring of three has a router that is neither sender nor receiver of a
  deflected flit; 2x2 is the smallest torus with both a row and a column, where a
  flit turns. 3x2 has a node between the turns of two flows; the scheduled routers and
  `minbd` need 3x3, where a row and a column have a middle.
- Flows of `Networks`: `Meeting` lets two flits meet where one of them turns (the buffers
  of the best effort routers fill up), `Merging` sends to one receiver with a small core
  buffer (caerus drops), `Passing` lets a flit pass a column in which another one turns,
  `Scheduled` has three flits that share slots of the schedules and a column, `Burst`
  starts `minbd` with eight flits in four flows at once, so that they deflect and redirect
  one another.
- The flits of `minbd` are all sent before the network starts: sending at any time
  gives no other meeting of flits but multiplies the states.
- `MaxSendFifo` 2 makes the fixed latency network refuse; the violation run uses
  4 and 5 senders, as the source's 8 would with 9.
- Barrier: with four processes, a round overlaps the next at every position of the
  token; three rounds let the next round overlap two others.
- Exchange: a ring buffer of 1 and a receive buffer of 1 fill and empty several times within
  four flits. With room for 4 flits a whole message just keeps out an acknowledgement, with 5
  it does not any more; TLC reaches the state in which nobody can go on with 1 and with 4, and
  finds none with 5. Three processes have every pattern: ring in both directions, pair and
  bystander, everybody for itself.
- MPI calls: 11 first and 14 second calls in every combination: what can go wrong is that a
  call takes the flits of the next one, for which two are enough. MPI_Allreduce is a
  reduction and a broadcast and thus more than one. Messages of 0 to 3 flits, counts that
  differ per process. MPI_Alltoall comes last, because of the disagreement below.
  `Capacity` 3 is the smallest at which all of them end: with 2, a ring of
  MPI_Sendrecv among three processes waits for ever (mpi_sendrecv.c:18-19).
- Cores: `SendSize` 1, so that a core that sends twice is blocked; with 2 nobody was ever
  blocked while sending. RISC-V has `XLEN` 8 and bytes of 1 bit, ARM `W` 12 and bytes of
  3 bits: the proportions of a byte, a half and a word stay, and all operands at
  and next to the limits of the signed and unsigned ranges can be tried. Pages
  have 4 and 16 bytes, so that accesses cross them.
- Traffic: two cores with 4 flits or four with 2. Trace: 7 packets with chains,
  forks and joins of dependencies, one of a core to itself, read ahead by 2 cycles;
  `NumCycles` 8 and `Horizon` 12 are beyond the cycle of the last packet.
- Latencies (`MulCycles` 2, `Div32Cycles` 2, `Div64Cycles` 3; `MemLatency` 3, `BankLatency` 2,
  `TagLatency` 1) are long enough to differ and to let another core act meanwhile.

The flows and programs end, so that the sets are finite; `got = sent` infinitely often means that
everything arrives.

### Fairness

- `WF(RouteAll)`: the loop of `macsim-seq.c` simulates the network in every cycle.
- `WF(Recv(f))`: a core that waits for a flit repeats its receive instruction in
  every cycle until it succeeds. Without it a receive buffer stays full.
- `WF(Step(p))` of a process in an MPI call: its core executes an instruction in
  every cycle. A process need not call MPI_Barrier again: `Enter` is not fair.
- `Networks!FairSpec` and `Cores!FairSpec` write the weak fairness of `RouteAll` out as
  `[]<>~Working \/ []<><<RouteAll>>_vars`, with a predicate for its ENABLED, which TLC would
  otherwise evaluate by simulating a cycle of all routers twice.
- `Cores`: the network delivers what is under way in the end; the turns of the cores are
  those of the loop and need no fairness.
- Sending is not fair: nothing obliges a program to send. Only `minbd`, whose flits are sent
  before anything else, has fair sends.

### Where the code disagrees with what is said of it

- `pn_config_double`: with `conf_bypass_y` "2unbuf" or "2buf" two flits are ejected
  per cycle and the second is checked against the receive buffer alone, not against
  the flits in the slot delay (pnconfig.c:323 has a FIXME). The buffer overflows and
  the assert fails.
- `noc_interface_probe`: `manhattan_probe_rank` takes position 0 for "not found".
- `noc_interface_cong`: `fixedlat_sender_ready` looks at the queue of the flits to
  the core itself, `fixedlat_send_flit` at that of the destination.
- `mpi_alltoall_barrier`: MPI_Alltoall takes any flit of any sender. A process that is slow
  takes the token of the MPI_Barrier that its predecessor is already in, as the test of
  alltoall does it, and throws it away; nobody leaves the barrier.
- `sendrecv_replace_all`: MPI_Sendrecv_replace takes flits out of its ring buffer
  without advancing `rptr` and forgets those that are left at the end. When
  `fgmp_cong` delays one send, the received message is wrong.

More that was seen while modelling and is visible in the modules, without a run of its
own:

- Networks: the latency of the Manhattan network depends on the other flits that arrive in
  the same cycle (`Manhattan!First`). pnconfig.c:709-767 reads foreign memory. `pnbe0` puts
  a flit of the core into an output that a deflected flit may hold (pnbe0.c:399), which
  is then lost. `caerus` lets a flit in the corner buffer be overtaken (141-155), drops
  flits at a full core buffer (143-146) and counts ages in `hTimeouts[dest & width]` (174)
  instead of `%`. `h_marked` is read before anything sets it (pnbe1.c:56). The schedule
  of `pnaa` has no slot for column 5 of a torus with 7 columns, and a flit to
  the sender itself stays in `corner_buffer[0]`. `minbd` prefers directions without
  regard to the wrap-around.
- MPI: MPI_Sendrecv_replace in a ring of three or more processes can wait for ever. A process
  that waits for its acknowledgement (mpi_sendrecv_replace.c:22) takes only flits of the process
  that owes it. When that one calls late, the process before it, which has been acknowledged,
  fills the receive buffer with data (42), and the acknowledgement (21) does not enter any more.
  This takes a receive buffer that does not hold a message and one flit more; nothing in the
  repository promises the contrary. MPI_Sendrecv has the same handshake
  (mpi_sendrecv.c:18-19). MPI_Irecv does not mark its slot as used (mpi_irecv.c:10). The loop of `rank_in_comm` advances
  its limit instead of its index (mpi_internal.h:64). MPI_Gather with a count of 0 waits for ever.
  MPI_Alltoall in a group of one sends to rank 1 (mpi_alltoall.c:71).
- RISC-V: `mulh` of the smallest number and a negative one is wrong (riscv.c:457-462;
  `RiscvIsa!Promised` leaves it out). A missing break in `csr_valid` (171) lets writes to read-only
  registers pass, three more join the groups 0x6b, 0x5b and 0x7b. `jalr` keeps the lowest bit of the
  target. `retired` counts blocked attempts, too. `reg[31]` is not initialised (1875).
  Addresses from 4 GiB on leave the table of the pages (memory.c:119).
- ARM: `movs` with an immediate sets Z the wrong way (armv6m.c:290-294). POP of the `pc` with an exception return
  clears its lowest bit (654). `svc 0x55` never waits (armv6m.c:816, armv3.c:589). The default
  `svc` pushes a frame without changing the mode (833-852). `strd` of ARMv3 always
  ends the simulation (armv3.c:373), `asr` by 32 or more takes bit 21 for the sign (122), a
  shift by an immediate 0 is not one by 32, and an operation with the `pc` as its
  destination does not jump.
- Trace: a core stops when the number of injected packets is equal to the number of cycles
  (trace.c:457). `Netrace` assumes more cycles than packets, so that no core stops there; what
  ends the simulation is the result of netrace_inject_messages (trace.c:350).

## What is proved

TLAPS checks the following for every value of the constants that the assumptions
allow: every width and height above 0, every size, number of flits, of processes
and of rounds.

| theorem | statement | argument |
|---|---|---|
| `FlitFifoProofs!TypeCorrect` | `Spec => []TypeOK` | one step per function |
| `FlitFifoProofs!FifoIsQueue` | `Spec => QueueSpec` | the refinement mapping reads `count` entries from `first` on. `MovedContents` says what a memmove does to them, on either side of the wrap; `FoundIsOldest` that the loop stops at the oldest flit of the sender |
| `Torus!Neighbours` | the four neighbours of a node are nodes | `Coordinates`, `RankInGrid`, `CoordinatesOfRank` and `RankOfCoordinates`, with the division of a rank by the width |
| `PnConfigProofs!TypeCorrect` | `Spec => []TypeOK` | one lemma per part of the router's state |
| `PnConfigProofs!NoOverflow`, `RoomKept` | `Spec => [](NoAssertFails /\ Room)`, `Spec => []Room`, for a receive buffer above 0 and one ejection per cycle | see below |
| `PnConfigProofs!ConservationKept` | `Spec => []Conservation`, for every policy | see below |
| `NocInterfaceProofs!Implementation` | each of the three abstract networks implements `Noc`: `Spec => Channels!Spec` | see below |
| `RouterProofs!NothingCollides` | `PnoaSpec => [][OnlyOverflow]_vars` for tori at least as wide as high and flows between different nodes: the only flits that `pnoa` loses are those that find a full buffer | see below |
| `RouterProofs!Be0Conserves`, `Be1Conserves`, `Be2Conserves`, `CaeConserves`, `OaConserves` | `Spec => []Conservation` for `pnbe0` (with a corner buffer above 0), `pnbe1`, `pnbe2`, `caerus` and `pnoa` | see below |
| `RouterProofs!EvenSchedulesComplete` | `ScheduleComplete` of `pnaa` for every even width | every distance between two columns has a phase of the round and every distance in a column a slot, by cases over the parity |
| `MpiBarrierProofs!TypeCorrect`, `AssertsNeverFail` | `Spec => []TypeOK`, `Spec => []AssertsHold` | from `Invariant`, see below |
| `MpiBarrierProofs!IsBarrier` | `Spec => BarrierSpec` | from `Invariant`: who is released was told, who tells has seen the token, the token has passed everybody (`Ahead`) |
| `MpiBarrierProofs!NeverStuck` | `Spec => []NobodyStuck` | from `Invariant`: if process 0 is outside, it has released everybody from the barriers that it has left; if it waits for the token, the first process that has not passed the token on can take it |
| `SendrecvReplaceProofs!OriginalSent`, `AssertsOfReplace` | `Spec => []SendsOriginal`, `Spec => []~aborted` | see below |
| `SendrecvReplaceProofs!NeverStuck` | `Spec => []SomebodyGoesOn`: somebody can go on, or `SomebodyKeptOut` | see below |
| `SendrecvReplaceProofs!RoomSuffices` | `Spec => [](room > Length => ...)`: nobody is kept out, and somebody can go on | see below |
| `MpiLibraryProofs!LibrarySendsOriginal`, `LibraryExchangeGoesOn` | `OriginalSent` and `NeverStuck` of `LibrarySpec` | the invariants of the exchange, which no other call touches |
| `MpiLibraryProofs!LibraryAsserts`, `LibraryReceivesTheirs`, `LibraryLeavesNothing` | `LibrarySpec => []AssertsHold`, `[]CallsReceiveTheirs`, `[]CallsLeaveNothing` for programs in which MPI_Alltoall is only the last call | see below |

**NoOverflow.** `NoAssertFails` is not inductive: a full buffer with a flit in
the delay would abort next. `Room` counts the buffer and both slots of the delay
together: never more than the size, and less than the size while
`recv_fifo_full_last_cycle` is false. A cycle adds at most one flit to that sum
(`GuardedMoves`: only while the flag is false), and the flag is set when buffer and
first slot reach the size less one: that leaves one place for the second slot. Both
sides of the interplay matter, as `pnconfig_recv_flit` computes the flag from another
slot of the delay, between two cycles. The assumption on the bypass excludes the two
policies of the run `pn_config_double`.

**ConservationKept.** A flit is a record of its sender, receiver and number, its places
are triples of a part, a router and a position (`Places`). `After(b, n, i)` says for each
place where a flit that is there is after the cycle, from the decisions of the router
alone: it stays, moves up in its buffer, goes into a register of the next router, the
corner buffer, the slot delay or the receive buffer. `FlitsArrive` shows that it is there
afterwards, `FlitsCome` that whatever is at a place afterwards came from a place that
`After` maps to it. As `After` is a function, a flit with one place has one place
afterwards, and one with none has none (`RouteKeepsFlits`). Two invariants are needed
besides `TypeOK`: `Bound` (a flit in a column or in the corner buffer has reached the column
of its receiver, one in the delay or the receive buffer its receiver: otherwise an ejection
could put it where `pnconfig_recv_flit` would report a wrong one) and `Known` (only what was
sent is received). The core's calls are `SendKeepsFlits` and `RecvKeepsFlits`. Overflow
plays no part, so that the theorem covers the double ejections, too.

**The schedule of pnoa.** A router of `pnoa` puts a flit on a ring or into the corner slot
without asking whether the place is free. `PnoaInv` says why it is: all routers are in the same
cycle `t` of the round, and every flit is where the schedule wants it. A flit for a column `d`
columns away leaves in cycle `Departure(d) = d * (Width - 2)` and turns in cycle
`Arrival(d) = d * (Width - 1)`; two departures are `Width - 2` cycles apart, as long as the nearer of
the two needs for its row, two arrivals `Width - 1` cycles, as long as the flit that turned needs for
its column. That is where `Height <= Width` comes from: on a higher torus a flit is still in its column
when the next one turns. A flit to its own sender would leave the column at the end of its
round, where another one enters; the theorem leaves such flows out. A lemma per stage of the cycle
follows the flits in the order of the code.

**Conservation of the other routers.** A cycle is a chain of stages, each of which may move a flit
from one local of the node to another. `Load(r, f, k)` counts the places of a context that hold a
flit, `dropped` included; a lemma per stage shows that it keeps `Load`. The exchange at the end of
the cycle moves the outputs to the inputs of other nodes: what all nodes hold together is
the same before and after it (`OverTheWires`, which needs that `East` and `West`, `North` and
`South` are inverse to one another). The invariant `Keeping` says that a flit under way has
exactly one place on the whole torus and any other flit none; `Conservation` is that statement with
`Copies`. In `pnbe0` a flit may be marked to wait for the corner buffer while it stays where it
is, and a corner buffer without an entry would then hold it twice: hence `CornerSize` above 0. In
`pnoa` the corner is one slot, which the lemmas see as a queue of at most one flit. A flit that is
overwritten or that finds no room is in `lost`, so that these theorems hold for every torus and
every flow, also for those that the schedule of `pnoa` does not serve.

**Implementation.** The flits to one receiver form a line of queues: what can be received
is queue 0, higher queues are closer to the senders (for the Manhattan network its list, for
the fixed latency network the slots of its ring by their distance from `pos`, and the queue
in front of them). `Carries(L, K, s, lo, hi)` says that the line holds the flits `lo + 1` to `hi` of
the sender `s`, each in it, in this order. Lemmas about lines of any length say what appending,
removing the first flit of a sender, moving a flit to the next queue and shifting all queues
do to it (`SentCarries`, `ReceivedCarries`, `MovedCarries`, `ShiftedCarries`); each network
then only has to show that its operations are these. The invariant is `Carries` with
`got` and `sent` for `lo` and `hi`, for every flow.

**The barrier.** That an assert holds depends on which flit is first on a channel,
thus on all flits that were ever sent on it. The invariant `Inv` says it with
numbers: `Tokens(p)` sent and `Taken(p)` received by each process and `Told(p)`
releases follow from the program counters and `entered`, `left`. `Order` bounds them
against one another: the token of a round can pass a process only after the previous
one, and a process is at most one token and one release behind. `Contents` then gives
every channel from the numbers alone; the channel from 0 to 1, the only one that
carries both kinds of flits, holds the release before the token. `Control` ties the
program counters to `left`. Each action has a lemma that it keeps `Inv`.

**The exchange in place.** `SendsOriginal` speaks of all flits on a channel, `Inv` says what
each channel holds: on the way to `Dest(p)` the header, until it is received, then the data
of the places before `sptr` (`Forward`); on the way back at most an acknowledgement
(`Back`), unless the two directions are one channel. `Buffer` says why the data are the
original ones: `rptr` never overtakes `sptr`, and from `sptr` on the buffer is
untouched. This holds although the ring buffer is taken out of order, which is why
`ReceivedAll` fails and `SendsOriginal` does not.

That nobody waits for ever needs numbers (`Balance`): what is on the way is what was sent and
not received (`Counted`), and a ring buffer that is not empty belongs to a process that
has received more than it has sent, by at least its length (`Ahead`). During the handshake
somebody can go on or is kept out (`HandshakeGoesOn`): a header or an acknowledgement that
cannot be sent finds a full receive buffer, and what fills it comes from the other sender
(`FullHolds`); its owner can receive that, or waits for the very flit that does not enter
(`AckSent` and `DataNotSent` exclude that it is itself about to send an acknowledgement
meanwhile). With room for a message and an acknowledgement nobody is kept out
(`RoomForBoth`): by `Counted` no more than the message comes from the process before, and
nothing but the acknowledgement from the one after. After the handshake, a process that cannot send faces one that does not receive,
which must have a full ring buffer, and has thus sent less than it
(`WaitsForSlower`); and cannot send either. The process that has sent least of them
cannot exist. The argument holds for every permutation, as it never looks at a whole cycle.

**The calls of the library.** The flits carry no tags, so that everything depends on their order.
`Flow("send", p, q, k, s)` is what the script `s` will still send from `p` to `q`, `Flow("recv", ...)` what it
will still receive, `Later` the same for the calls not yet begun. The invariant `CallsInv` says for every two
processes: what is on the way from `p` to `q`, followed by what `p` will still send to `q`, is what `q`
will still receive from `p`. From it everything follows: a flit at the head of a channel is the
one that the receiver expects, hence no assert fails and nothing is mixed, and when nobody has anything
left to do, nothing is on the way. Three parts are needed.

- `Matching`: in every call, what `p` sends to `q` is what `q` receives from `p`. The scripts of the two sides
  are written independently, by rank, root and length; a lemma per function compares them
  (`BcastCarries`, `ScatterCarries`, `AllreduceCarries`, `RoundCarries` for the ring of the barrier and of the
  start of alltoall, `SendrecvCarries`, ...), for communicators of any processes in any order.
- The steps that take a flit from whoever has one do not follow the order of a channel by
  themselves. `wait_for_ack` and the loop of `gather` must find what the sender owes them in this call.
  `CallsInv` also says that a process whose part is wanted has received the question or has
  not begun (`Asked`), and that `gather` has received nothing from those that it has not asked
  (`Gathering`). Hence nothing is on the way from such a process (`NotAsked`), neither its part nor a flit
  of a later call.
- MPI_Alltoall takes any flit of any process while it has not finished. Nothing in the code keeps it
  from taking one of the next call: that is the disagreement of `mpi_alltoall_barrier`, and the reason why the
  theorems assume `AlltoallLast`. As the last call it has nothing behind it that it could take.

The room in the network (`Capacity`) plays no part in these three theorems, that everybody returns does
depend on it and is left to TLC.

The assumptions are those that the modules state: `TorusAssumption`, `SizeAssumption`
(0 is allowed), `PnAssumption`, `NocAssumption`, `ReplaceAssumption` (a ring buffer and receive buffers
that hold at least one flit), `BarrierAssumption` (a process that is alone returns at once),
`CallsAssumption` (what a program has to observe: no process twice in a communicator, root and partner
are ranks of it, no MPI_Send to itself; no empty part in MPI_Gather and MPI_Allreduce, for which
nobody would ask and whose process would wait for ever; MPI_Alltoall in MPI_COMM_WORLD, the only
communicator of which `rank_in_comm` knows more than one rank). TLC evaluates them in the runs.
What `RouterProofs` assumes is part of its theorems: `FlowAssumption` (flows between nodes, and `NoFlit` is not a
flit) and `OnSchedule`.

Only model-checked: the order of the flits in `PnConfig` (`NocSpec` there rests on the stall
timers, which relate a flit to a deflected one several routers away), for the other
routers `Lossless` and the order, and `Conservation` of `pnjm0`, `minbd` and `pnaa`, the schedules of
`pnaa` for odd widths (there is none for 7), the cores, and all liveness
properties: of `EverybodyLeaves` and `EverybodyReturns` the theorems give the part that is about
states. Liveness under fairness and ENABLED are out of the prover's reach, as
is induction over data (library theorems with an operator parameter) and any RECURSIVE
operator. `Words` uses the bitwise operators of the community modules, and `Memory`, `Netrace` and
`Cores` recursion: these modules and those that extend them are for TLC alone. No
module with a theorem reaches one of them.

## What is not modelled

- `CONF_INJECT_THROTTLE` of pnconfig: it casts the address of a pointer to a context
  (pnconfig.c:709), so that its effect depends on the layout of the heap.
- The payload of a flit in the networks: a flit is its sender, destination and number.
- Statistics, dumps, logging, printing, the debugger and the disassemblers, the command
  line, the reading of ELF files and the decompression of traces.
- The decoding of instruction words; floating point and atomic instructions of
  RISC-V; the devices and external interrupts of ARMv6-M, which no build switches on.
- `rvmpb.c`: `rvmpb_one_cycle` executes instructions with `riscv_execute_iw` (319) and
  never calls the function that would use its buffers; such a core behaves as one of
  `riscv.c`.
- Plain traces (`trace_one_cycle`), a list of sends without dependencies; the traffic patterns bit
  complement and upper left, whose destinations are no ranks (traffic.c:50-61).
- Several outstanding requests of MPI (they share one slot), MPI_Probe, data
  types and the values of reductions; the variants of the FGMP functions for `NEW_PIMP`, which keep the
  first flit of every other sender in memory (the define is commented out in fgmp.h:11, and the
  variants without it are the modelled ones); the memory of groups and communicators and the split of a communicator.
- The FPGA implementation, the programs, the scripts.
- The counter of the alternating injection is kept in the range that it takes; with a
  ring of length 1 its period is 0, it underflows and always allows an injection, for
  which 0 stands.
- A receive buffer of size 0 makes `size - 1` wrap; `AlmostFull` models it, no run uses
  it.

## Plan

In order of importance:

1. Proofs about the other routers: `Conservation` of `Pnjm0`, `Pnaa` and `Minbd` with a lemma per
   stage as for the others, `Lossless` of `Pnjm0`, `Pnbe1` and `Pnbe2`.
2. The order in a ring of `PnConfig`: the invariant has to say which timer holds back which
   sender while a flit of it is deflected.
3. `MpiLibrary`: that some process can go on in every state of the calls, for every capacity of the
   network, from `CallsInv`; the theorems so far say nothing about waiting for one another there.
4. The traffic generator: `TrafficConserved` for every length of the queue.
5. The request slots of `mpi_irecv.c` and `mpi_wait.c` with several requests; the split
   of communicators.
6. Atomic instructions and plain traces.

Runs are composed where they ask the same question of several components (as
`Networks`, `MpiLibrary` and `Cores` do): one run with a choice in the initial state,
whose states are the sum of the parts.
