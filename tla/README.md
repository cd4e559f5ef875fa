# Verification of the RISC-V core and its memory interfaces

TLA+ modules of the core in `src/core/riscv`, of the data cache and its AXI
bridge in `src/top_cache_axi`, of the simulator the core is compared with
(`src/isa_sim`) and of the computer built around it in `src/top_v2f`;
TLC configurations that check them on small instances; and TLAPS proofs of the
properties of the front end, the pipeline, the load/store unit, the fabric, the
data cache, the AXI bridge, the simulator and the arithmetic for every value of
their constants.

The design is synchronous, so **a step of every module of the hardware is one
edge of `clk_i`**; a turn of the loop of the test bench memory is one too. In
the modules of the simulator (`RiscvIsa`, `IsaSim`) a step is an instruction.
The registers are the variables; there is one operator per `always`
block or group of them, and `Cycle` is their conjunction. What another unit
drives in the cycle is a parameter of `Cycle`, chosen by `\E` in `Next`.
Combinational wires are operators with the values of the inputs as parameters.

## 1. Inventory

### The core (`src/core/riscv`)

| unit | state | operations |
| --- | --- | --- |
| `riscv_fetch` | PC registers, branch buffer, request flag, skid buffer | request, answer, redirect, hold |
| `riscv_decode`, `riscv_decoder` | optional pipeline register | pass on, hold, squash; classify |
| `riscv_issue` | `div_pending_q`, `csr_pending_q`, privilege | scoreboard, bypass, issue, accept |
| `riscv_pipe_ctrl` | E1, E2, WB, squash flag | move, stall, squash, merge results and exceptions |
| `riscv_regfile` | 31 registers | write from WB |
| `riscv_exec`, `riscv_alu`, `riscv_multiplier` | result registers | compute, branch |
| `riscv_divider` | operand and result registers, two valid bits | divide |
| `riscv_lsu` (with its FIFO) | request registers, pending flag, dummy answer, FIFO of two | request, answer, fail, stall |
| `riscv_csr`, `riscv_csr_regfile` | CSRs, E1 result, interrupt launch, redirect | read, write, trap, return, fence |
| `riscv_mmu` | translation buffers, page walk | translate, refill, flush |

Fetch hands instructions to issue through a valid/accept handshake and is
redirected by issue, for a branch of `riscv_exec` or a redirect of `riscv_csr`.
An instruction that issues enters E1 and, at the same edge, the unit that
executes it; the results meet it again in E1 (ALU, divider, CSR), E2
(load/store unit, multiplier) or WB. E2 stalls for the load/store unit and E1
for the divider. An exception squashes the stages behind it when it is in E2
and acts on the CSRs in WB; the redirect leaves `riscv_csr` one cycle later.

### Around it

* `isa_sim`: executes one instruction at a time; the reference in cosimulation.

  | part | state | operations |
  | --- | --- | --- |
  | `riscv.cpp`, `riscv.h`, `riscv_isa.h` | registers, CSRs, privilege, timer | decode and execute, trap, interrupt, return, access a CSR, walk the page table |
  | `memory.h` | regions of words | load, store |
  | `elf_load.cpp`, `riscv_main.cpp`, `riscv_inst_dump.cpp` | none | load a program, run it, disassemble |

* `top_cache_axi/src_v`: instruction cache; data cache; AXI.

  | unit | state | operations |
  | --- | --- | --- |
  | `dcache_mux` | accesses not answered, who answers them | send an access to the cache or past it |
  | `dcache_core` | state machine, request buffer, tags, data, two ways | look up, evict, refill, flush, write back, invalidate |
  | `dcache_if_pmem` | FIFOs of two | uncached accesses, cache operations that it drops |
  | `dcache_pmem_mux` | who is selected | hand the memory port and its answers to cache or bridge |
  | `dcache_axi`, `dcache_axi_axi` | FIFO, burst counters, skid buffer, what is taken | transfers to AXI commands and words |

* `top_cache_axi/tb`: the test bench, with an AXI memory that delays every channel at random.
* `top_tcm_axi/src_v`, `top_tcm_wrapper`: a 64KB memory that the core shares
  with an external port, and a bridge for peripherals (`dport_axi`).
* `top_v2f`: `fabric.v` with RAM, display registers and a character display,
  without handshake (`accept` is 1, `ack` is sticky); programs; files generated
  for and by the placement tool.
* `core/riscv/*_simplified.v`, `testbench`: variants of units, random tests.

### What is hard here

Not the steps, but what happens in the same cycle: an answer in the cycle of a
branch, a trap behind a slow access, an interrupt launched while a CSR write
disables it, an access that fails while the next one waits, answers that carry
no identity and are matched by order alone. Nothing in the repository's tests
drives these on purpose: the testbenches apply random inputs to one unit, and
the programs run with the latency the memory happens to have. Every such place
is in `PROJECT.json` under `hazards`, with the properties that watch it or the
reason why none does yet.

What makes each part correct:

* front end: the instructions delivered are the program, from the last redirect;
* pipeline: what retires is an execution of the instruction set simulator;
* load/store unit: every access gets its own answer, once, and a squashed one
  never reaches the memory;
* data cache: it cannot be seen. A load returns the latest store, whatever was
  evicted, refilled, flushed or uncached in between; a flush or a write back
  leaves it in memory;
* AXI bridge: the words of a transfer reach their addresses in order, with one
  command, and are answered once;
* simulator: no access without permission, traps return to where they came
  from, the timer interrupt comes; and, as it is the reference, what core and
  simulator compute and decode is the same;
* fabric: stores take effect once and in order, loads see them.

## 2. Modules

| module | models | kind |
| --- | --- | --- |
| `FetchStream` | what the front end promises | abstract specification |
| `RiscvFetch` | `riscv_fetch.v`, `riscv_decode.v` | component |
| `RiscvFetchProofs` | | proofs |
| `RiscvIsa` | `isa_sim/riscv.cpp`: what the pipeline promises | abstract specification |
| `RiscvPipe` | `riscv_issue.v`, `riscv_pipe_ctrl.v`, `riscv_divider.v`, E1 and redirect of `riscv_csr.v`, `riscv_regfile.v` | component |
| `RiscvPipeProofs` | | proofs, and that `RiscvPipe` implements `RiscvIsa` |
| `RiscvLsu` | `riscv_lsu.v`, `riscv_lsu_fifo.v` and the stages around them | component, without environment |
| `LsuPort` | `RiscvLsu` with a memory port as the caches and the TCM drive it | composition |
| `LsuPortProofs` | | proofs |
| `Sys` | `RiscvLsu` with the data side of `fabric.v`, `reg_vram_mm.v`, `char_display.v`, wired as in `sys.v` | composition |
| `SysProofs` | | proofs |
| `FlatMemory` | what the data side promises the load/store unit | abstract specification |
| `PmemPort` | what the memory side promises the data cache | abstract specification |
| `Dcache` | `dcache_mux.v`, `dcache_core.v` with its RAMs, `dcache_if_pmem.v`, `dcache_pmem_mux.v`, wired as in `dcache.v` | composition |
| `DcacheProofs` | | proofs: the control of `Dcache`, then its data |
| `AxiMem` | `tb_axi4_mem.cpp`, the memory of the test bench | component |
| `DcacheAxi` | `dcache_axi.v`, `dcache_axi_axi.v`, in front of `AxiMem` | composition |
| `DcacheAxiProofs` | | proofs, and that `DcacheAxi` implements `PmemPort` |
| `SimMemory` | `memory.h`, the regions of `riscv.cpp`, the loader | component |
| `SimMmu` | page walk and permissions of `riscv.cpp` | operators |
| `IsaSim` | `riscv.cpp`, `riscv_main.cpp`: CSRs, traps, interrupts, timer | component |
| `IsaSimProofs` | | proofs, with those about `SimMemory` and `SimMmu` |
| `RiscvArith` | `riscv_alu.v`, `riscv_exec.v`, `riscv_multiplier.v`, `riscv_divider.v` and the same instructions in `riscv.cpp` | operators |
| `RiscvArithProofs` | | proofs |
| `RiscvDecode` | `riscv_decoder.v`, `riscv_defs.v` and `riscv_isa.h`, `riscv_inst_dump.cpp`, the tests of `riscv.cpp` | operators |
| `MC*` | | instances for TLC |

Operators named `X_Something` that follow a comment "Faulty variant" are
not part of the model. Each is a plausible mistake in `X`, and replacing `X` by
it must make the property it is paired with fail (`mutants` in `PROJECT.json`).

### RiscvFetch and FetchStream

Variables have the names of the registers; `branch_to_q` is `branch_pc_q` with
`branch_priv_q`, `skid_q` is the skid registers with their valid bit, and
`None` is an unset valid bit. Addresses are word addresses: the code cuts the low bits
wherever it uses one. An instruction word is the place it was read from and
its fault bits, which is all that the properties need to know. `icache_req` is
the request the icache holds; an icache answers only what it was asked, one
request at a time, after any delay, and refuses when it likes. The actions:
`Advance` and `Hold` (a cycle without redirect, in which `stall_w` is low or
high), `ExecBranch`, `CsrBranch`.

`FetchStream` has two variables: the place in the program the issue stage must
see next, and what it saw last. The refinement mapping `Expected` finds that
place: the branch buffer if it is full, else the oldest of decode register, skid buffer, request
in flight and PC.

### RiscvPipe and RiscvIsa

Instructions are `[op, rd, ra, rb]` with the classes of the decoder for `op`;
the program is free: in every cycle in which the front end delivers, it may
deliver any instruction of `Instrs`. So TLC runs all programs, with all
memory latencies. `Result` is what an instruction computes; `Junk` is what a
unit puts out when it has no result, so an operand that is taken too early is
visible. The front end is `next_pc`, `refill` and `held`, an abstraction of
`RiscvFetch` justified by `ImplementsStream`; the two cycles of `refill` are
the least it needs after a redirect. The bus shows something also when its
valid bit is low (`IdleBus`), because `interrupt_inhibit_o` and the divider
look at it.

`RiscvIsa` executes an instruction, a trap or an interrupt per step, or idles.
It comes in two forms that differ in `mis`, a jump whose target is not aligned.
With `TrapMisaligned` false it is the simulator, which writes `rd` and jumps;
its next fetch is an assertion, so nothing but an interrupt follows. With
`TrapMisaligned` true it is the instruction set of `riscv_defs.v`, which has
`EXCEPTION_MISALIGNED_FETCH` for it. `ImplementsIsa` is about the first form and
`ImplementsCoreIsa` about the second.
Memory and CSRs are free, so it constrains order, operands, results, register
writes, trap addresses and interrupts, and not the contents of memory. It has
`retired`, the last thing that happened with its operands: that makes the
refinement strict, each retired instruction is one step. The architectural state is
read off the pipeline at WB (`ArchPc`, `ArchRegs`, `ArchIrq`).

CSR contents are abstracted to one: `irq`, which says whether an interrupt is
disabled, enabled or pending. Every trap goes to one handler address.

### RiscvLsu, LsuPort, Sys

A request is `[kind, tag, unaligned]`; the tag is what the FIFO and the port
carry (address, width, sign), free in `LsuPort`, an address and a value in
`Sys`. `e1`, `e2`, `squash_e1_e2_q` and `csr_wait` are the loads and stores in
the pipeline around the unit, moved by the stall and the squash it causes. `csr_wait`
counts the cycles in which `csr_pending_q` blocks the issue behind a cache
operation, which is a CSR access.

`LsuPort!MemoryDrives` is a contract read from `dcache_core.v` (a
cache operation finds it in `STATE_LOOKUP` and is accepted) and `tcm_mem.v`
(an answer in the cycle after the accept, without error; the accept may be
late because of external accesses). Without it a cache operation that is
accepted late would be answered to the load in E2: `OneAccessAtATime` and
`AnswerIsOwn` depend on it, which is why it is stated in one place.

`LsuPort` does not contain the stray requests of squashed instructions that
the run `pipe_squash` shows `riscv_pipe_ctrl` can leave in the unit. The
properties of the unit hold of the unit; that run says where its client does
not keep its side.

`Sys` replaces the port by the fabric: `accept` is constant, and `ack` and
`error` are registers that nothing clears. `mem_addr_q` and `mem_data_wr_q` are
modelled also when no access is made, because the display registers look at
them. Byte lanes are not modelled; accesses are words.

### FlatMemory, Dcache, PmemPort

The data side is a chain in which each link says what it needs of the next:

```
RiscvLsu -- LsuPort!MemoryDrives --> Dcache -- PmemPort --> DcacheAxi with AxiMem
            = FlatMemory, ReadyWhenIdle
```

`LsuPort` shows that the load/store unit has one access at the memory at a
time. `Dcache` takes that as its client (`Drives`) and gives back what
`MemoryDrives` asks for: an access is answered once, by its own answer
(`ImplementsFlat`), and a cache operation that finds the cache idle is
accepted at once (`ReadyWhenIdle`; but for the 256 cycles after reset in which it
clears its tags, and in which the icache clears as many of its own and answers nothing). It takes `PmemPort` as its memory, one
transfer at a time, which it keeps to (`PortInTurn`); `DcacheAxi` takes a
client of that kind and shows that bridge and memory together are `PmemPort`
(`ImplementsPort`). What each of the three shows here is proved for every value of its
constants (section 4); that what one gives is what the other asks for is read, not proved.

The registers have the names of the code; `m` is the request buffer
`mem_*_m_q`, an entry of `tag_ram` is valid bit, dirty bit and tag. A request
is `[kind, addr, val]` and an address `[set, tag, word]`, so the bits of an
address are cut by naming a field; byte strobes are abstracted, a store is of a
word. `NextState`, `TagReadSet`, `DataReadIndex` and the other wires are one
operator each. Both RAMs are modelled as the code has them, the tag RAM
showing what is written in the same cycle and the data RAM what was there
before. The tags are not known at reset, the reset state clears them. `flat`, `owed` and
`failed` are history: what the accepted stores make of memory, the access
that waits and whether a transfer made for it failed.

The bridge for uncached accesses drops cache operations. `riscv_lsu.v:316`
marks every one of them cacheable, so none gets there, in the model as in the
program.

### DcacheAxi, AxiMem

`AxiMem!Turn` is one turn of the loop in `process()`, with the random delays of
the five channels as inputs; the queues, the one write command that may wait
for its data and the ready lines for the next cycle are its state. `xfer` is
the client, the transfer under way with the words it has sent and the answers
it has got; it may pause between the words. `Word` is what is on the bus, from
the skid buffer or from the FIFO, `awvalid_q` and `wvalid_q` say which part of
it the memory already has. The refinement of `PmemPort` maps its memory to the
memory here with the words that are on their way (`PortMem`).

### SimMemory, SimMmu, IsaSim

The machine is scaled and not abstracted: a word is four bytes, an address is a
word, pages, entries, sign extension and wrap-around are those of the
code at a smaller byte (`Byte`, `Entries`, `PfnScale`). `cpu` is the class
`Riscv` without its general registers, which are in `RiscvIsa`; `program` is
what was loaded and the instructions it may execute, in any order; `did` is
what the last step did and `saved`, per level, the context of the last trap that
is not over. Registers of bits are the set of the bits that are 1. The boot code
of a program, CSR writes in machine mode, is folded into `Init`. `error()` and the
assertions end the simulator (`Die`).

Pages are checked against a second definition that does not walk (`Pages`,
`Grants`), bytes against one that does not use words (`LittleEndian`). A page
number may have more bits than an address leaves for it: the address of a table
is cut to a word, as `mmu_walk` does; that of a page is not, since an assertion stops the simulator.

### RiscvArith, RiscvDecode

Both hold each function twice, as the core and as the simulator compute it, in
the form each has in the code: a comparison by the sign of a difference and one
of signed numbers, a product of operands extended with their sign and one of
`long long`, a shift that fills in the sign and one of a signed number.
`RiscvArith` is for words of any width. In `RiscvDecode` an instruction is the
fields its mask keeps. `riscv_isa.h` and `riscv_defs.v` hold the same masks but for the
returns, so one table serves both; the outputs of the decoder are sets of
masks, the simulator and the disassembler test in order. The immediates are not modelled.

## 3. Runs

| run | instance | distinct states | what it shows |
| --- | --- | --- | --- |
| `fetch` | 3 addresses in a ring, 2 privileges, 2 fault values, extra decode stage | 7 053 | `TypeOK`, `NoAnswerLost`, `AnswerIsLabelled`, `PrivilegeAgrees`, refinement of `FetchStream`, `StreamProgresses` |
| `pipe_data` | 3 registers, 2 values, 2 addresses, 10 instructions | 43 507 | data hazards: `TypeOK`, `CsrResultKept`, `NoSquashedAccess`, refinement of `RiscvIsa` as the simulator has it (`ImplementsIsa`) |
| `pipe_traps` | 2 registers, 3 addresses, 10 instructions, no data | 61 213 | control hazards: `SystemAlone`, `PendingHasOwner`, refinement of `RiscvIsa` with precise traps of misaligned jumps (`ImplementsCoreIsa`), `KeepsRetiring` |
| `lsu` | 2 tags, loads, stores, cache operations, FIFO of 2 | 266 | `TypeOK`, `FifoTracksPort`, `AnswerIsOwn`, `OnlyLiveRequests`, `OneAccessAtATime`, `AccessAnswered` |
| `sys` | 2 RAM words, 1 display register, 2 places on the character display, 2 values | 84 236 | `TypeOK`, `AnsweredAtOnce`, `StoresOnce`, `LoadIsCurrent` |
| `dcache` | 2 sets of 2 ways, lines of 2 words, 3 lines that compete for one set, 1 line in the other, 1 uncached word, 10 requests | 131 383 | `TypeOK`, `CacheOpsReachMemory`, `ReadyWhenIdle`, `PortInTurn`, `ErrorIsOwn`, refinement of `FlatMemory`, `Answered` |
| `axi` | a line of 3 words and 1 single word, 2 values, queues of 2 | 8 416 | `TypeOK`, `NoOrphanData`, refinement of `PmemPort`, `TransferAnswered` |
| `sim` | bytes of 2 bits, tables of 4 entries, timer of 3 values, 3 programs | 253 042 | `TypeOK`, `AccessesAreMapped`, `ReturnsToContext`, `TrapsNest`, `TimerFires`; its assumptions `ArithmeticAgrees`, `DecodingAgrees` |
| `pipe_division`, `pipe_squash`, `pipe_satp`, `dcache_invalidate` | | | the disagreements of section 5 |

Bounds. There are no counters to cap: the state is finite because the hardware
is. Three addresses in `fetch` are enough to have a PC, the next one and a
branch target that differ; two privileges and two fault values make every
mix-up visible. In `pipe_data` a pipeline of three stages needs two registers
besides register 0 for every combination of newest and older version, and two
values to tell them apart; one consumer per unit and every producer in front
of it is in `DataInstrs`. `pipe_traps` drops data (one value) and has one
instruction for each way to leave the program order, each memory outcome and an
idle bus that shows a CSR opcode. The two runs take opposite values
of `SUPPORT_LOAD_BYPASS` and of `SUPPORT_MUL_BYPASS`; the default of `riscv_core.v`, both on, has no
scoreboard entry that the runs do not have. `pipe_data` leaves divisions and `mis` jumps out,
`pipe_traps` has `mis` and so is compared with the core's instruction set and not with the
simulator, and it has only one division result, since the disagreements of section
5 would otherwise end the runs: everything else is shown beside them, not
behind them. In `sys` an address beyond the VRAM is left out for the same
reason, and the contents of the display registers are not looked at. Two tags in `lsu` tell two accesses apart, and no
more than two are ever under way. No run uses symmetry.

In `dcache` three lines in one set of two ways make every access a possible
eviction, and a line in a second set makes a lookup at the wrong set visible.
A word holds its own address, so a word in the wrong place shows; one word
has two versions, to tell a load before a store from one after it. Transfers to one line and to the
uncached word may fail. Invalidates are in `dcache_invalidate` only: they
discard stores, so `FlatMemory` does not hold with them. In `axi` a burst of
three words has a first, a middle and a last one and overflows the FIFO of two
and the queues (`QueueMax` is 128 in the code);
`wvalid_q` is never set and `resp_outstanding_q` never 2 there, since this
memory offers to take data only together with a command and the
client has one transfer: what the bridge does for other memories and clients
is not shown. In `sim` two programs run machine and supervisor code with the timer,
an external interrupt and delegation of either, and one runs user and
supervisor code behind page tables of both depths that it changes itself.

`ArithmeticAgrees` compares the units for all operands of five bits, with each
sign and the overflows; shifts for the counts below the width, the ones that C++ defines.
`DecodingAgrees` is complete although it looks at 92 160 words only: of every
field that a mask names they have every value some mask gives it and one that none
does.

Fairness. `fetch` assumes `WF(Advance)`: again and again the icache accepts
and answers and the issue stage takes an instruction in one cycle. The icache
answers after a bounded refill and `riscv_issue` accepts whenever it is not stalled,
which `KeepsRetiring` shows it is not for good; a fetch unit that waited for one
of its own registers would still fail. `StreamProgresses` asks for it only
once the redirects have stopped, as a program that branches for ever never
comes past the branch. `pipe_traps` assumes `WF(Serve)`: memory
answers and the front end delivers. `lsu` assumes `WF(Serve)`: the port accepts and answers, well
or with an error. `sys` assumes only that the clock runs (`WF(Next)`), as
the fabric has no handshake. `dcache` assumes `WF(Memory)`: while an access
waits, the port accepts and answers. `axi` assumes `WF(Serve)`: random delays
end, and the client sends the words of a write it began. `sim` assumes that
the loop of `riscv_main` goes on (`Loop`, which is `WF(Step)` written out with
its enabling condition). In each the assumption is about the environment,
and whether the unit itself moves is what is checked. Deadlock is checked in every run but `sim`, where the
simulator may stop: `ebreak`, `error()` and the assertions end it.

## 4. Proofs

| theorem (module) | for every | argument |
| --- | --- | --- |
| `TypeCorrect`, `SkidBufferSafe`, `AnswersLabelled`, `PrivilegesAgree` (`RiscvFetchProofs`) | set of addresses, successor function, privileges, faults, with or without decode stage | the inductive invariant `IInv` |
| `StreamImplemented` (`RiscvFetchProofs`) | same | every edge is a `Deliver`, a `Redirect` or a stutter of `FetchStream` under `Expected` |
| `TypeCorrect`, `CsrResultIsKept`, `SystemIsAlone`, `PendingIsOwned` (`RiscvPipeProofs`) | program, register file, set of values, bypass option, memory | the inductive invariant `IInv` |
| `AccessesAreNotFlushed` (`RiscvPipeProofs`) | same, without misaligned jumps, and without branches or with a quiet idle bus | `AccessInv` on top of it |
| `ImplementsInstructionSet` (`RiscvPipeProofs`) | same, without divisions and `satp` writes | `RefInv`; every cycle is a step of `RiscvIsa` with `TrapMisaligned` or a stutter |
| `ImplementsSimulator` (`RiscvPipeProofs`) | same, and without misaligned jumps | the two forms of `RiscvIsa` agree then |
| `TypeCorrect`, `FifoSafe`, `AnswersMatch`, `NoOrphanRequest`, `OneAtATime` (`LsuPortProofs`) | set of tags and kinds of access, FIFO depth from two on | the inductive invariant `IInv` |
| `TypeCorrect`, `StoresInOrder`, `LoadsAreCurrent` (`SysProofs`) | memory map, set of values, size of the display | the inductive invariant `IInv` |
| `AnswersInTime` (`SysProofs`) | same, without accesses beyond the memory | same |
| `ControlInvariance`, `PortIsInTurn`, `IsReadyWhenIdle`, `ErrorsAreOwn` (`DcacheProofs`) | number of sets and words, tags, requests, memory | the inductive invariant `Control` |
| `DataInvariance`, `TypesAreOK` (`DcacheProofs`) | same | `Control /\ Data` |
| `OperationsReachMemory`, `CachesAreInvisible` (`DcacheProofs`) | same, without invalidates | `Control /\ Data`; every cycle is a step of `FlatMemory` |
| `AxiInvariance`, `AxiTypesAreOK`, `NoDataIsOrphan` (`DcacheAxiProofs`) | length of a line, lines, single words, values, depth of the queues, delays | the inductive invariant `IInv` |
| `AxiImplementsPort` (`DcacheAxiProofs`) | same | every turn is a step of `PmemPort` or a stutter |
| `TypeCorrect` (`IsaSimProofs`) | program, sizes of byte, page table and timer | `Types`, which is inductive |
| `ReturnsToItsContext`, `TrapsAreNested` (`IsaSimProofs`) | same | the inductive invariant `IInv` |
| `AccessesMapped` (`IsaSimProofs`) | same, with sections of whole words and aligned large pages | `MInv`; the walk finds the page, a store merges its bytes |
| `LessSignedAgrees`, `GreaterSignedAgrees`, `BranchesAgree`, `SumsAgree`, `DivisionsAgree` (`RiscvArithProofs`) | width of a word and all operands, divisor 0 excepted | the cases of the signs |

The assumptions on the constants are named in the module that declares them,
and TLC evaluates each in a run:

* `FetchAssumption`, `PipeAssumption`, `SysAssumption`, `NoneAssumption`: the
  constants have their types and `None` is nothing else. `PipeAssumption` has
  the results of the ALU among the values, `SysAssumption` the regions of the map
  disjoint.
* `LsuAssumption`: at least two FIFO entries, as in the code. A full FIFO refuses a push
  even when an entry leaves it, so with one entry a request that is made in the
  cycle of an answer would be lost.
* `DcacheAssumption`: two sets or more, lines of 2 to 256 words (`pmem_len_q`
  has eight bits) that are in the range of the cache as a whole, and a tag 0,
  which stands for what the tag RAM holds before the reset has cleared it.
* `AxiMemAssumption`, `AxiAssumption`: a memory and queues that are not empty, lines of 1 to
  256 words and single words inside the memory (one command has eight bits for the length), and
  `None` is nothing else.
* `SimMemoryAssumption`, `SimMmuAssumption`: a byte has two values or more; two
  indices and an offset make up an address (`WordValues` is four words times the
  cube of `Entries`, as 2^32 is), and the flags fit below the page number.
* `IsaSimAssumption`: the timer has two values or more, programs are of their
  type, and `None` is nothing else. The type of a program says that its
  instructions are of those the model has, and that its sections lie in the address space.
* `ArithAssumption`: a word has `Width` bits, and `Half` is the value of its sign bit.

*Front end.* `AnswerIsLabelled` is not inductive: whether an answer is for the
right address depends on what a later cycle does with the PC. `IInv` adds that
the unit is empty before its first branch (`IdleInv`), that the PC is just past
the request in flight (`RequestInv`), that the skid buffer is full only when
nothing is in flight and holds the instruction just before the PC (`SkidInv`),
that the decode register holds the one before those (`DecodeInv`), and that
the privileges agree (`PrivInv`). The proof reduces the four actions to one
`Edge`, shows what `FetchOut` and `DecodeOut` are, and keeps the conjuncts one
at a time. For the refinement, `TailFacts` says how the tail behind the issue
stage moves, and `EdgeRefines` combines it with the stage.

*Pipeline.* The properties hold because of what the issue stage refuses: a CSR
access or a division blocks everything until it is done, and never follows a
load or store. `IInv` says where such an instruction is while it blocks
(`CsrBlocks`, `DivBlocks`), that a trap empties the pipeline before it
redirects it (`TrapEmpties`), that what may be bypassed is a value (`InE1`,
`InE2`, `InWb`, `DivResult`), and that an interrupt is taken only while it is
pending. The two hypotheses of `AccessesAreNotFlushed` are needed: without the
first it is what `pipe_squash` refutes, without the second TLC finds
13 cycles that violate it (section 5, the interrupted branch).

For the refinement the step in which E2 moves to WB is the step of
`RiscvIsa`; every other cycle stutters or is `Idle`. `RefInv` adds that the
addresses in the stages follow one another (`ProgramOrder`), that the operands
in E1 and E2 are what `RiscvIsa` will read in its turn (`OperandsCurrent`:
the whole of scoreboard and bypass) and that the results of the ALU are those
of the operands (`Results`). The hypotheses leave out the two instructions
for which section 5 shows a disagreement; with them the theorem is false. The
step is shown for the form of `RiscvIsa` in which misaligned jumps trap, and
`InstructionSetsAgree` carries it over to the simulator for programs without
such jumps: with them `ImplementsIsa` is false (section 5), and TLC finds the
first one when it is put in place of `ImplementsCoreIsa` in `pipe_traps`.

*Load/store unit.* `FifoTracksPort` does not say where the access of each
stage is, and `AnswerIsOwn` does not say why no other answer can come. `IInv`
adds `AccessPlaces` (the access in E1 is in the request registers, that of E2
is the oldest FIFO entry or still in the request registers), `PortState` (the
pending flag is true exactly when the memory owes an answer, to E2 or to a
cache operation) and `CacheAlone` (a cache operation, that does not wait, is
alone; here the contract of the memory enters). The step is split by whether E2
stalls (`StalledCycle`, `MovingCycle`), after lemmas on what moves.

*Fabric.* `StoresOnce` speaks of E2 and of the history of stores; the steps
that matter are those in which an access leaves E1. `IInv` adds that the bus
registers belong to the access in E1 (`BusIsRequest`), that an access that
moves to E2 is made in that cycle and once (`Stages`, `PendingFlag`), and that
the answer lines, which nothing clears, tell the truth about E2 (`Answers`).
An access beyond the memory stays in E2 for ever, so `AnswersInTime` leaves
it out and the other theorems do not.

*Data cache.* The proof has two layers. `Control` does not look at data. It
says who owes the answer, the core or the bridge, and that load/store unit,
multiplexers and request buffer agree on it (`Interface`); what each state of
the core knows (`Machine`); that the tags it looks at are those of the set it
works on (`FreshTags`); that a valid tag is that of a line in range, from the end of
the reset on (`KnownLines`); and how far the transfer of core or bridge is,
as a state of the port (`Transfers`: the core counts with `pmem_len_q`, the port with
the words to come, and the two agree). A cycle is then one of three turns:
nothing is owed any more and the next access may come (`FreeTurn`), the core
works (`CoreTurn`), the bridge waits (`BridgeTurn`).

`Data` says where the contents are: a flush has emptied the sets it has passed
(`FlushSets`); a line is in one way at most, the one that is fetched in none,
and the one that goes is dirty or not needed (`Placement`); a word is right in the way that
holds it, unless its line is being fetched, and in memory unless a way
holds it dirty (`Coherent`); and the words of a line that have been
transferred are the same on both sides, while the RAM shows the next one
(`Progress`: the write address runs ahead of the counter by one in an
eviction and not in a refill, and the skid buffer repeats a word that was not taken).
`Good` does not claim that a word equals `flat` while a store is on its way,
nor once something is invalidated, so `DataInvariance` holds for every program; the last two theorems need
`NoInvalidates`, since an invalidate drops stores by definition. In
`ProgressFree` is the reason for the hazard check of `CoreAccept`: a load may
follow a store of another word, and of the same index under another tag it
hits in the other way or not at all.

*AXI bridge.* Nearly all of the state is a function of the transfer and of three numbers:
the words the bridge has taken (`x.taken`), the words that have left the FIFO (`Sent`)
and the words that the memory has got (`Put`). `IInv` says which function. A
read waits in the FIFO or the memory has its remaining words in order (`Waiting`,
`Serving`); in a write the two counters are what is left of the line (`Counts`), the FIFO
holds the words from `Sent` on (`Fifo`), the skid buffer the first word or nothing (`Skid`:
its command has gone and its data has not), and the queue of the memory the words before `Put`,
at consecutive addresses, with `last` at the end of the line only (`Memory`).
`Ready` is why `wvalid_q` is never set: this memory offers to take data only
together with the command or after it. `FifoStep`, `WriteKeeps`, `MemoryStep` say what
one cycle does to each part, and `QuietStep`, `ReadStep`, `WriteStep` join them. That the
loop of the memory unrolls a command into consecutive addresses (`UnrollIncr`) is shown without
induction: among the addresses that are wrong there would be a least one.

For the refinement the data of word k is `WordData`, wherever the word is. The memory that
the port sees is `Image`, the words taken written over the contents; a step
that moves a word from the FIFO to the bus, the queue or the memory leaves it
as it is, and taking a word changes it in one place (`ImageStep`). The
operation that the port sees is determined by the three numbers (`OpIs`).
`PortQuietStep`, `PortReadStep` and `PortWriteStep` name the step of `PmemPort` in each case.

*Arithmetic.* `SubResIs` says what a difference is once it is cut to a word;
the comparisons follow by the signs of the operands. In `DivisionsAgree` the
quotient of C and of Verilog is bounded by its dividend, so it is a word but for
the least number divided by -1: the simulator has a special case for it, the
core wraps. Shifts and products need arithmetic with powers and products of
unknowns, that the SMT solver does not decide; TLC compares them (`ArithmeticAgrees`).

*Simulator.* `ReturnsToContext` relates a return to a trap any number of steps
before it. `IInv` carries the context over that distance: while a trap is not
over, `mepc`, `MPP` and `MPIE` (or `sepc`, `SPP`, `SPIE`) still hold its
context, interrupts of its level are off, and no lower level runs (`HoldsM`,
`HoldsS`); of two that are not over, the one in the machine level came out of
supervisor mode or higher (`Nested`), so that returning from it does not leave
supervisor mode behind. A CSR access that writes one of these registers ends
the context in `saved`: it is then the program that says where to return to. What an
instruction does is reduced to three ways to end (`EndsPlain`,
`EndsInterrupted`, `EndsTrapped`): an interrupt on top of an instruction saves
what the instruction left, a trap ends the contexts of its instruction and saves the old registers.

`AccessesMapped` compares what the simulator computes with definitions that
share nothing with it. `WalkIs` unrolls the walk; `Indices`, `LeafCovers` and
`PagesAre` say that the page that has an address is the one its indices select,
and `PageWalked` and `WalkedPage` that the walk finds this page and no other;
`PermissionIs` says that the order of the tests in the code does not matter. Of an
aligned large page the bits of the frame below the index are 0, and the
bitwise or is the index. In memory, `ByteIs` and `MergedParts` follow the shifts and masks of a
word: a store replaces some digits of a number and keeps those below and above.
The bitwise or of `SimMmu` is a recursive function on pairs of numbers, and the
regions are loaded by a fold; what both compute is shown by the least number for which it
would fail. The two hypotheses are the limits of the code and not of the proof. A region
is an array of words and accessed by the word: at the end of one whose size is no multiple
of four an access reaches bytes that the region does not have. The walker ORs the frame of a large page
with the index below it without a look at its alignment, so a large page that
begins elsewhere maps to frames that are in no table. Both hold in the
run `sim` (`WholePrograms`, and `AlignedLeaves` in each of its states).

The invariants were checked by TLC on the instances of the runs before they
were proved.

Model-checked only: liveness (`StreamProgresses`, `KeepsRetiring`,
`AccessAnswered`, `Answered`, `TransferAnswered`, `TimerFires`), which the
provers do not treat under fairness; shifts and products (`ArithmeticAgrees`) and the
decoders (`DecodingAgrees`). The
properties of the `violation` runs are false. No module declares a recursive operator.

## 5. Disagreements between the code and what is said of it

1. `pipe_division`: `valid_q` of the divider stays set after a division
   (`riscv_divider.v:107`). A later one leaves E1 in its first cycle with the
   earlier result, where `riscv_issue.v:338` says that divisions take 2 to 34
   cycles and stall.
2. `pipe_squash`: a taken jump to an unaligned address traps late
   (`riscv_pipe_ctrl.v:138`, `201`). Held in E1 by a slow access, it lets a
   load or store at its target into the load/store unit, which does not learn
   of the squash.
3. `pipe_satp`: a CSR access that changes `satp` does not write its destination
   register (`riscv_pipe_ctrl.v:420`, `riscv_csr.v:250`); the simulator does.
4. `dcache_invalidate`: an invalidate compares the tags of the set of the
   access before it (`dcache_core.v:263` reads the RAM at the new address only
   for the states LOOKUP and WRITEBACK), so the line it names stays valid,
   where the comments (`dcache_core.v:292`, `339`, `739`) say it is marked not valid.

Seen while modelling or proving, without a run of their own:

* An interrupted branch that is taken still redirects the fetch:
  `exec_opcode_valid_o` (`riscv_issue.v:413`) is not masked by
  `take_interrupt_i`, as the valid bits of the load/store unit and the CSR unit are (412,
  525). While the branch waits in E1 behind a slow load, the front end
  delivers from its target; if the bus shows a CSR opcode when it is not valid,
  `interrupt_inhibit_o` (416, which looks at the opcode only) holds the
  interrupt back, `take_interrupt_q` falls, and a load or store issues
  behind the branch and is flushed in E1, after it was sent to the load/store unit. Hence
  the second hypothesis of `AccessesAreNotFlushed` (section 4).

* At a jump to a target that is not aligned the simulator writes `rd` and goes
  there (`riscv.cpp:1091` to `1109`; taken branches likewise), and its next
  fetch fails an assertion (`memory.h:86`). The core traps at the jump with `rd`
  unwritten (`riscv_pipe_ctrl.v:138`, `201`). Hence the two forms of `RiscvIsa`
  and the third hypothesis of `ImplementsSimulator`.
* `fabric.v:113`: display registers are written by an address on the bus alone,
  with 0, not only by stores.
* `fabric.v:104`: an access where nothing is raises `data_error` without
  `data_ack`, and the core waits for ever.
* A refill that fails leaves its line valid (`dcache_core.v`, `tag_data_in_m_r`): the
  access gets the error, a later one hits.
* The simulator clears `rd` of a `fence` or `fence.i` that has one
  (`riscv.cpp:1452`, `1516`); the core writes nothing. The core accepts returns to
  two levels (0 and 2) that the simulator does not know.
* The mask of `wfi` leaves f3 out and so has CSR accesses of number 105 in it;
  both decoders are right by the order of their tests or because both go to the CSR unit.
  The masks of `slli`, `srli` and `srai` leave bit 25 free.
* Shifts by a register do not mask the count in the simulator
  (`riscv.cpp:1072`, `1080`, `1088`): for a count of 32 and more C++ leaves the result open. Division by zero
  is x in the core, and -1 and the dividend in the simulator. `RiscvArith` compares them elsewhere.
* `csrrw` of `sstatus`, `sie` and `sip` replaces the whole register in the
  simulator; the core merges. The simulator does not check the privilege of a CSR access.
* With `satp` bare, user accesses page-fault in the simulator: the entry it
  makes up has no user bit.
* The page walker of the simulator does not look whether a large page is aligned
  (`riscv.cpp:431`): one that is not maps to frames that no entry names. Hence the
  second hypothesis of `AccessesMapped`.

## 6. Not modelled, and the plan

Order of what comes next, most important first:

1. `dport_mux` with `tcm_mem` and `dport_axi` (arbitration with external
   accesses, queues, cache operations that are never answered), checked to
   implement `MemoryDrives` and `Port` as `Dcache` is, or to show where it does not.
2. `icache` (lookup, refill, flush) under `RiscvFetch`, with the lost `fence.i`
   flush; the instruction side of `fabric.v`.
3. `riscv_csr_regfile`: delegation, buffered interrupts, the timer; traps and
   returns against `IsaSim`, which is ready to be its reference.
4. `riscv_mmu`: page walk, shared port, held requests; against `SimMmu`.
5. Proofs for what the points above add. Of what is there now every safety
   property that holds is proved, some under the hypotheses that section 4 names.

Simplified in what is modelled: byte strobes of the data cache and the AXI
memory (words), response tags (one access is under way), error answers of AXI
(the memory of the test bench gives none). Of the simulator: general registers
are in `RiscvIsa`; the address CSRs are written whole; the user interrupt bits
are left out, as are a pointer in a page table of the last
level (the loop `i >= 0` of an unsigned `i`, `riscv.cpp:391`, goes on with
negative shifts), the breakpoint and stop addresses of the command line, the
`SIM_CTRL` register, tracing and statistics.

Left out for good: the Xilinx register file and RAM templates (vendor primitives), the
`*_simplified` variants (only in testbenches), trace and checker output, ELF parsing
and printing of the simulator, its cosimulation interface (it hands calls on), SystemC
and Lua test benches but for the AXI memory, character fonts
and look-up tables, and everything generated in `top_v2f`.
