# A TLA+ verification of thumbulator

thumbulator is a cycle-accurate simulator of an ARMv6-M processor (the Thumb
instruction set of a Cortex-M0+), with a watchdog, cycle counters for measuring
programs on intermittently powered devices, and a GDB stub. This directory models it
in TLA+, checks the models on small instances with TLC and proves theorems about
them, for all instances, with TLAPS.

All line references are to the files of `src/`.

## 1. The system

The simulator is one process with one thread. `main` (`sim_main.c`) loads a flash
image, resets the processor, waits for a debugger, and then loops: fetch an
instruction, execute it, take the exception its cycles raised, advance the PC,
update the counters, ask the GDB stub whether to stop. While the stub has stalled
the program, the same thread serves the debugger's packets.

| Component | State | Operations | Where |
|---|---|---|---|
| main loop | `cpu`, `lastCPU` (the backup of the registers), `takenBranch`, `addToWasted` | the loop body; `sim_exit` | `sim_main.c` |
| exceptions | `cpu.ipsr`, `cpu.mode`, `cpu.control`, `cpu.exceptmask`, frames on the stack | `check_except`, `except_enter`, `except_exit` | `except.c` |
| watchdog | `wdt_seed`, `wdt_val` | `INCREMENT_CYCLES`; writes by the debugger | `sim_support.h:61` |
| reset | registers, counters, `do_reset` | `cpu_reset`, `sim_command` | `sim_support.c:48` |
| cycle accounting | `cycleCount`, `wastedCycles`, `cyclesSinceReset`, `cyclesSinceCP`, `addrOfCP`, `addrOfRestoreCP` | counting, checkpoints, restores, resets | `sim_main.c:198-230` |
| decoder, dispatch | `decoded`, the jump tables | `decode`, `exwbmem` | `decode.c`, `exmemwb.c` |
| data processing, branches | registers, flags | one function per instruction | `exmemwb_arith.c`, `_logic.c`, `_misc.c`, `_branch.c` |
| loads and stores | registers, memory | one function per instruction | `exmemwb_mem.c` |
| memory bus | `ram`, `flash`, the `mmio` table | `simLoadData`, `simStoreData`, `simDebugRead`, `simDebugWrite` | `sim_support.c` |
| SysTick timer | `systick`: control, reload, value | loads and stores, with their side effects; the ticks at the end of `exwbmem` | `sim_support.c:361`, `:440`, `exmemwb.c:357-370` |
| RSP packet layer | `rsp.client_fd`, the connection | `get_packet`, `put_packet`, `rsp_get_client` | `rsp-server.c` |
| RSP commands, stalls | `rsp.stalled`, `stepping`, `sigval`, `client_waiting` | `rsp_client_request`, `rsp_check_stall`, `rsp_check_watch` | `rsp-server.c` |
| matchpoints | `mp_hash` | `mp_hash_add`, `_delete`, `_lookup` | `rsp-server.c:1040-1170` |
| idempotency tracking | three address lists | `reportAndReset`, `addAddress` | `sim_support.c:219-288` |
| MD5, printing, image loader | none that the program sees | | `sim_support.c`, `sim_main.c` |

### How they interact

Everything is a direct call. `exwbmem` calls a handler, which calls the bus, which
can call the stub (`rsp_check_watch`, and through it `put_packet`, which blocks on
the client in the middle of an instruction) or `cpu_reset`. The ticks a handler
returns drive the watchdog, which sets a bit of `cpu.exceptmask`; the loop then
copies `lastCPU` back over `cpu`, which undoes the instruction in the registers but
not in memory, and enters the handler. The debugger reaches the watchdog, the
counters and the reset through words that `simDebugWrite` maps at 0x80000000.

### What is hard, and what makes each part correct

- **Roll-back and re-execution.** An instruction can run any number of times before
  it retires, with its stores repeated and handlers in between. The program must see
  its registers advance by whole instructions in program order (`Transparent`).
- **Nesting.** The watchdog interrupts its own handler, even between the entry and
  the first instruction. Every frame must survive what runs below it
  (`FramesIntact`), exceptions must not stay pending (`ExceptionsAreImmediate`), and
  what `except_exit` restores must be what `except_enter` saved (`RoundTrip`).
- **Counting.** Ticks are added in 32 bits and compared afterwards; counters are
  cleared and charged in one iteration by checkpoint, restore and reset. No tick may
  be lost (`NoTickLost`) and no cycle counted twice or forgotten (`NoCycleTwice`,
  `EveryCycleCounted`).
- **A conversation over an unreliable peer.** The client rejects, garbles,
  interrupts, leaves and comes back while the server may be anywhere. Neither may
  wait for the other (`NoMutualWait`), replies must stay in step with requests
  (`InStep`), and the program must not run past a matchpoint (`StopsBeforeNext`).
- **Repeated requests on a shared table.** Chains hold addresses and types that
  collide; the table must be the set the debugger believes it to be (`ActsAsASet`).
- **Read-modify-write.** A byte store rewrites the word around it; the memory of
  words must be the memory of bytes a program expects (`ActsAsBytes`).
- **Decoding twice.** `decode` picks the operands and `exwbmem` the handler from the
  same word by different tables, and operands outlive their instruction. No handler
  may read what its decoder did not write (`NoStaleOperand`), the two must agree
  with each other and with the instruction set (`RunsAsAssembled`,
  `BranchesAsAssembled`), and other words must not run (`MalformedExits`).
- **Flags.** Carry and overflow are derived from half sums and signs, and read many
  instructions later: by comparisons (`CarryAndOverflowAreTrue`, `ConditionsOrder`),
  by sums of several words (`DoubleWordExact`), and by shifts, whose amounts exceed
  the width (`ShiftsAreRepeated`, `ResultsAreExact`).
- **A timer that loads change.** Reading the control word stops the timer, and a
  byte store starts with a read (`ByteStoresKeepTheRest`); the counter is reloaded
  in the middle of an instruction (`KeepsTime`).
- **The debugger's view of memory.** Several hand-written encodings of the same data
  must agree (`ReadsWhatWasWritten`), everything must fit one shared buffer
  (`RequestsAndRepliesFit`), and a request to reset, written byte by byte, must be
  done once (`ResetChargedOnce`).

The `hazards` of `PROJECT.json` list these one by one, with their lines and the
properties that cover them, and say of the others why none does.

## 2. The modules

| Module | What it is |
|---|---|
| `Cpu` | `struct CPU` and the functions on it: an operator for a handler of each instruction class, exception entry and exit, reset. No state. |
| `Machine` | The loop of `main`, one action per phase: `Fetch`, `exwbmem`, `sim_exit`, `check_except`, `Retire`, `Advance`; the debugger's `DebugWriteSeed` and `sim_command`. |
| `ProgramState`, `Uninterrupted` | Abstract specification: the program without exceptions. |
| `MachineRefines` | The refinement mapping from `Machine` to `Uninterrupted`. |
| `CycleAccounting` | `Machine` with the counters added to each action. |
| `MachineProofs` | Theorems about `Machine`, `Cpu` and `CycleAccounting`, and that `Machine` implements `Uninterrupted`. |
| `Restart` | `Machine` with the debugger's `vRun`. |
| `MCPrograms`, `MCMachine`, `MCAccounting` | Programs and memories for TLC. |
| `Decode`, `DecodeProofs` | Both families of jump tables, from a halfword to a handler and its operands, and their theorems. |
| `Alu`, `AluProofs` | The data-processing instructions with their flags, the conditions of `b_c`, and their theorems. |
| `SysTick`, `SysTickProofs` | The timer with the loads and stores that reach it, and its theorems. |
| `MemBus` | All loads and stores over the word bus. |
| `ByteMemory`, `MemBusProofs` | Abstract specification: a little-endian memory of bytes; the theorems, the refinement among them. |
| `Matchpoints` | The hash table of matchpoints. |
| `MatchpointSet`, `MatchpointProofs` | Abstract specification: a set; the theorems, the refinement among them. |
| `RspServer`, `MCRsp` | The RSP server between the loop and a GDB client. |
| `RspServerProofs` | Its theorems. |
| `DebugAccess`, `MCDebug` | What the debugger's register and memory requests do, and the text they travel in. |
| `DebugAccessProofs` | Their theorems. |

### How state and actions correspond to the code

**`Cpu` and `Machine`.** `cpu`, `lastCPU`, `takenBranch` and `mem` are the globals
of the same names (`mem` is `ram` and `flash` together, by word address). `wdt` is
`wdt_seed` and `wdt_val`. `phase` is the position in the loop body, or how the
process exited. `interrupted` is a history variable: the contexts of the handlers
that have not returned. A step of `Machine` is a section of the loop body between
two points where the control flow branches; since there is one thread, the only
interleaving is with the debugger, which acts when the loop waits in `rsp.stalled`,
at phase `fetch`.

Abstractions: instructions are decoded (`DECODE_RESULT` with the handler the jump
tables select); data words and code words are disjoint, so programs do not modify
themselves; `exceptmask` is the set of pending exceptions and can hold only
exception 16, because `cpu_set_except(16)` is the only call. Programs run in handler
mode: `cpu` is zero-initialised, mode 0 is `CPU_MODE_HANDLER`, and `cpu_reset`
leaves the mode alone.

**`CycleAccounting`.** Each action is an action of `Machine` conjoined with what the
same code does to the counters. `committed` is a history variable: the cycles a
checkpoint has cleared from `cyclesSinceCP`.

**`RspServer`.** `at` is where the thread is, `rsp` is `struct RSP`, `mp` the set
the matchpoint table stands for (`Matchpoints` shows that the table is one), `toSim`
and `toGdb` the two directions of the TCP connection. The program is reduced to its
PC, its stores and where it can go. A packet is one message; for `put_packet`, which
reads characters, an unexpected packet counts as one character that is not `+`. The
client is external: one request at a time, the next packet is taken for its reply,
and it may reject a packet, send one with a bad checksum, press Ctrl-C, or leave.

**`Matchpoints`.** `mp_hash` maps buckets to chains. `answer` is the last request or
check with its reply, so that what the table answers can be compared.

**`Decode`.** `decoded` is `DECODE_RESULT`. A field that no decoder has written is
`Stale`: `DECODE_CLEAR` is 0, so in the program it holds the operand of some earlier
instruction, and every value is possible. Each of the 65536 words starts a behaviour
of its own: `decode`, then the dispatch of `exwbmem`, which records in `ran` the
handler and the fields it reads. `simLoadInsn` finds any of `SecondHalves` behind
the first half of a `bl`.

**`Alu`.** `gpr` and `flags` are the registers and the APSR, `takenBranch` the
global. A word has `WordBits` bits. `sum`, `compared` and `last` are history
variables: the exact sums C and V come from, the two numbers that the flags compare,
and the last operation. `cmn`, `revsh` and the register form of `movs` are left out,
since no entry of the jump tables leads to them.

**`SysTick`.** `systick` is the struct. One action is one instruction: its load or
store, then the ticks at the end of `exwbmem`. The timer is not in `struct CPU`, so
an instruction that the watchdog rolls back has used the timer like one that
retired; for the timer it is one more instruction. `clock` is a history variable:
the counter as the program last loaded it and the ticks since. A byte has `ByteMod`
values.

**`DebugAccess`.** `sim` is the registers, the APSR, flash, RAM and five words of
the `mmio` table: the three that a reset changes, the one that asks for it, and one
in between that nothing else writes. An action is a request (`p`, `P`, `g`, `m`,
`X`) with its reply, or a single step over a store; how packets travel is left to
`RspServer`. `known` is a history variable, what the client believes of each
register and byte. A nibble has `Nibble` values and a word `WordBytes` bytes. The
step is over a store below the end of the table, behind which lie the UART and
SysTick (`MemBus`, `SysTick`).

**`MemBus`.** `gpr` and `mem` are the registers and the memory; `exited` is the
message of `sim_exit`. A byte has `ByteMod` values (256 in the code), so instances
scale down without losing lanes. Addresses are computed as in the code, with
wrap-around, and the bus ignores their two low bits because `MEM_CHECKS` is 0.

## 3. The runs

Every run explores all behaviours of its instance. Passing runs:

| Run | Module | Question | Result |
|---|---|---|---|
| `Transparent` | `MCMachine` | Can an exception be seen by the program it interrupts? | No: registers advance by whole instructions; frames survive; none stays pending. The programs also keep `StackDiscipline`, which the theorems about this assume. |
| `Watchdog` | `MCMachine` | Does the watchdog lose ticks, stop firing or starve the program? | Not if its period is between 47 and `WordMod - 32`. |
| `CycleAccounting` | `MCAccounting` | Do the counters add up? | Yes, until a 32-bit counter wraps; no cycle is ever counted twice. |
| `RspServer` | `MCRsp` | Do server and client stay in step, over faults and reconnections? | Yes, for the requests the server answers. |
| `DebugAccess` | `MCDebug` | Does the debugger read what it wrote, and does a reset happen once? | Yes; a request just past the end of a memory ends the simulation. |
| `Matchpoints` | `Matchpoints` | Is the hash table a set? | Yes. |
| `MemBus` | `MemBus` | Is the word bus a byte memory? | Yes. |
| `Decode` | `Decode` | Do decoder and dispatch agree with the instruction set? | Yes; 0xB600-0xB7FF run as `push`, all other words that mean nothing exit. |
| `Alu` | `Alu` | Are flags and results true to arithmetic? | Yes; `lsrs` and `asrs` by immediate 0 leave another carry than by a register. |
| `SysTick` | `SysTick` | Does the timer keep time, and do byte stores keep what they do not address? | Yes. |

### Bounds, and why they are enough

- **`Transparent`.** `WordMod` 1024 keeps the four flags and the EXC_RETURN range
  apart from addresses. The stack has 26 words, which take up to three nested
  frames, two with the handler's own pushes, before an overflow leaves RAM and ends
  the run. The stack is the lowest part of RAM so that an overflow is an exit: with
  data below it the frames would overwrite that data, in the simulator as on a real
  part. Seeds 6, 17 and 50 expire inside any instruction, between the handler's
  instructions, and after whole rounds. `MaxCommands` 2 lets a new seed or a reset
  arrive at any instruction, twice.
- **`Watchdog`.** 47 is the smallest period that leaves room for the handler (14
  ticks) and the longest instruction (32, `muls`). Below it the same instruction is
  rolled back for ever. 992 is the largest for which `wdt_val` cannot wrap in an
  instance with `WordMod` 1024.
- **`CycleAccounting`.** `MaxCycles` 1100 lies above `WordMod`, so that
  `cyclesSinceReset` and `cyclesSinceCP` do wrap. Checkpoint and restore addresses
  are in the program's inner loop, and may be equal or absent (0).
- **`RspServer`.** Two instructions between a reset, which is also the handler, and
  an exit: one that stores two words and can be rolled back, one that can store one
  of them. A breakpoint, a watchpoint on each word, so that one instruction can hit
  both, and the cycle watchpoint, due at once (`ResetAfter` 1). One fault (a
  rejected reply, a bad checksum or a Ctrl-C), two connections, and at most one
  unread message when the client makes a request. A fault can hit every state of the
  exchange, and a second client finds anything the first one left. The four safety
  properties (`TypeOK`, `NoMutualWait`, `InStep`, `StopsBeforeNext`) are proved for
  any number of faults and connections, any program and any matchpoints; the bounds
  limit `StepReturns` only.
- **`DebugAccess`.** Three requests; bytes of two nibbles of four values, words of
  two bytes, a flash of just the two vectors and one word of RAM. The addresses are both ends of flash, RAM and the mmio words and the first ones past
  them, the lengths within, across and beyond the buffer; the payloads hold
  characters that must be escaped.
- **`Matchpoints`.** Two chains, three addresses of which two collide, both types:
  chains of up to four entries, with removals at the head, in the middle and at the
  end.
- **`MemBus`.** Bytes of one bit and words of four, so that all register values are
  addresses and all bases wrap; one word of flash next to one of RAM, the UART and
  holes. Registers start with any values, memory with words whose lanes differ;
  `MaxSteps` 2 instructions are enough because the properties relate one instruction
  to the next.
- **`Decode`.** All 65536 words, so nothing is left out; second halves of `bl` with
  every combination of J1 and J2, and words that differ in many bits.
- **`Alu`.** Words of four bits, all pairs of operands, either carry, and `MaxSteps`
  2: one instruction that sets flags and one that reads or keeps them. Bytes have
  one bit and shift amounts (the low byte in the code) go up to 7, beyond the width.
- **`SysTick`.** Bytes of eight values keep the three low control bits and COUNTFLAG
  in different bytes. Seven instructions suffice to set reload, clear the counter,
  enable, load the counter, pass zero, and store a byte in between. The data enable
  the timer, set reload below and above an instruction's ticks, and set more bytes
  than one.

### Fairness

- `Machine`: `WF(Step)`. The loop is one thread and blocks only in the stub, which
  is where the debugger's actions are; these are not fair.
- `RspServer`: `WF(Server)` and `WF(Reads)`. The thread runs unless it is blocked in
  a read, and a client that is connected reads what it waits for. Making requests,
  interrupting, leaving and connecting are not fair.

Deadlock is not checked where the modelled program can exit (every process exit is a
state without a successor) or, in `RspServer`, where no client need ever connect.
In `Alu`, `SysTick`, `MemBus` and
`DebugAccess` the bound `MaxSteps` ends a behaviour, and in `Decode` its only
instruction does. `Matchpoints` never stops.

### Disagreements between the code and its comments

Two runs each exhibit one, with `expect: violation`:

| Run | Comment | What the code does |
|---|---|---|
| `ResetIsDone` | `sim_support.c:464` "request to reset, then do it" | `cpu_reset` moves the PC in the middle of an instruction that did not branch, and the loop exits. |
| `RestartsAtEntry` | `rsp-server.c:2236` "Restart the current program" | `vRun` leaves the PC four below where the loop expects it. |

Others are in the models, and no run is spent on them:

- `pop` never calls `except_exit`, against `except.h:12` "Called from bx and pop".
- Once the cycle watchpoint is due it fires after every instruction, against
  `rsp-server.c:2527` "fires every x cycles".
- A watchpoint and a breakpoint, or two watchpoints, on one instruction send two
  stop replies, where `rsp-server.c:215-221` speaks of one; `InStep` excludes this,
  and a Ctrl-C read where an acknowledgement is expected.
- Nothing answers `i`, against `rsp-server.c:533` "Stop reply will be sent";
  `NoMutualWait` does not hold for a client that sends it, so `Ops` leaves it out.
- The upper ends in `simValidMem` (`sim_support.c:691`) are inclusive: an access
  right behind flash or RAM is not refused but ends the simulation.
- `P` of the CPSR is answered `OK` and does nothing.
- `MEMMAPIO_SIZE` (`sim_support.h:14`) counts 19 words, where the table has 18
  (`sim_support.c:42`), and `simStoreData` takes the address behind them too; what is
  there is undefined, and `DebugAccess` has only words of the table.
- A load of SysTick's control word clears ENABLE and keeps COUNTFLAG; on a real part
  it clears COUNTFLAG. The model has what the code does.

## 4. What is proved

The proofs assume only the `ASSUME`s of the modules: `CpuAssumption` (words and
addresses are consistent, the vectors exist), `MachineAssumption` (the reset vector
is odd), `RefinementAssumption` (the stack grows down from the initial stack pointer,
clear of the vectors, of both ends of the address space and of the handler's words),
`AccountingAssumption`, `MatchpointAssumption`, `MemBusAssumption` (bytes of
one, two, four or eight bits; flash, RAM and UART apart, in whole words; a register
list that does not wrap onto itself),
`AluAssumption` (words of at least four bits in whole bytes), `DecodeAssumption`
(which words can follow the first half of a `bl`), `SysTickAssumption` (a reload
register of three bytes, which no instruction's ticks exceed), `DebugAssumption`
(nibbles of one to four bits, words of two or four bytes; flash, RAM and the table
apart, in whole words, with room for the vectors), and `RspAssumption`
(the program stays within `PCs`). The bounds on faults, connections and steps are
any natural numbers. Theorems that need more name it: `TicksCounted` seeds that
leave room, `NeverBothWait` a client without `i`, `FramesStayIntact` and
`ExceptionsAreTransparent` the stack discipline of the program, `NothingStale` and
`RunsRight` that `DECODE_SAFE` is on, as it is in `decode.h:7`.

**`MachineProofs`.** The inductive invariant is
`IInv == TypeOK /\ ExceptionsAreImmediate /\ Fetched`. `Fetched` says that in phase `execute` the PC is
odd and inside the program; without it `Executed` would apply the program outside
its domain. Each handler has a lemma that it returns a typed outcome
(`ArithmeticHandled`, `MemoryHandled`, `BranchHandled`, `BxHandled`), and `StepInv`
has one step per action.
- `TypeCorrect`, `NonePending`: `TypeOK` and `ExceptionsAreImmediate` for every
  program and every seed.
- `TicksCounted`: `NoTickLost`, if every seed is at most `WordMod` minus the longest
  instruction. The invariant behind it is `WdtRoom`: both the counter and the seed
  leave room for one more instruction.
- `RoundTrip`: `except_exit` after `except_enter` restores every register, the
  flags, the mode and the stack, whatever the alignment and wrap-around of the stack
  pointer. The eight slots are distinct by `SlotsDistinct`.

The second part of the module is about `CycleAccounting`: `NoneTwice` and `AllCounted` prove `NoCycleTwice` and
`EveryCycleCounted` for every program. The second is not inductive by itself: a
reset must also find the cycles since it among those counted. `CycleInv` adds that
(`Ordered`), the types of the counters and the invariant of `Machine`;
`CountersTyped` gives the types.

The third part is about what an interrupted program sees, which depends on the
program: one that stores over a frame below its stack pointer is not transparent to anything.
`StackDiscipline` says what is asked of it. The stack pointer stays on the stack. The
interrupted program reads no word below its stack pointer nor one of the handler's, and
stores over neither the initial stack pointer nor the word that requests a reset. A
handler stores only to words of its own and below the frame of what it interrupted, and
returns with the EXC_RETURN value, the stack pointer and the registers R4 to R11 it was
entered with. This is a property of the simulated program, so the theorems have it as a hypothesis,
`[]StackDiscipline`, and the run checks it for its programs.
- `FramesStayIntact`: `FramesIntact` for any program that keeps it. `FInv` adds that
  the frames lie one above the other; `FramesAbove` that nothing below a frame is
  part of it, wherever the stack pointer has wrapped.
- `ExceptionsAreTransparent`: every behaviour of `Machine` implements
  `Uninterrupted` (the property `Transparent`), for every depth of nesting and every
  place where the watchdog expires. `TInv` is `FInv` with what the refinement needs
  of the copies: that an instruction rolled back and executed again reads what it
  read first (`RunsAgain`), and that what lies in a frame is what `except_exit` will
  make of it (`ReturnsTo`). Each section of the loop has a lemma that it maps to a
  step or to none (`ExecutionMaps`, `EntryMaps`, `RetireMaps`, `ResetMaps`).

**`MemBusProofs`.** `MemBusTypes`, and `ImplementsBytes`: each of the loads and
stores does on words what `ByteMemory` does on bytes, in every width, addressing form
and list, wherever a base wraps, for each size of bytes. The lemmas go from bytes to
words (`BytesUnique`, `HasBytes`), through what a merge of a byte or a halfword leaves
of a word (`MergedByte`, `MergedHalf`), to one lemma per addressing form.

**`DecodeProofs`.** The run covers every word; the theorems cover every second half of
a `bl` and say why the tables agree instead of enumerating words. An opcode of the
instruction set has 5 to 10 bits, the tables are indexed with 6: `FiveBits` to
`TenBits` give handler and decoder by opcode. From them follow both directions, one
lemma per shape of encoding each: a word that a row of `Encodings` describes is run as
the row says (`AssembledFits`, `AssembledReads`), and a word that both tables accept
is described by a row, or is an odd `push` (`OthersExit`). `DecodeInv` says that
`decoded` is what the decoder of `insn` wrote over stale fields. With it `NothingStale`,
`RunsRight` and `MalformedStops` are immediate; `BranchesLand` needs besides that the
distance of `b`, `b_c` and `bl` and the immediates of their words determine each other
(`BackAndForth`, `NearBackAndForth`, `FarBackAndForth`).

**`MatchpointProofs`.** `MatchpointTypes`, `WellLinked` and `ImplementsSet`: for
every size of the table and every set of addresses the table implements the set, by
lemmas on what an insertion and a removal do to the contents (`Added`, `Deleted`)
that need `Linked`: a removal unlinks one entry, and only because no second one
exists is the matchpoint gone.

**`AluProofs`.** `FlagInv` is `TypeOK`, `CarryAndOverflowAreTrue` and the ordering
of `compared` in terms of the flags. Each kind of handler has a lemma (`SumStep`,
`LogicalStep`, `ShiftStep`, `CopyStep`) that says what it leaves in registers, flags
and history; the arithmetic of sums and their wraps is in lemmas of its own.
`WordsStay`, `FlagsOfTheSum`, `BranchesOrder` and `TwoWordsExact` hold for words of
any width, so for the 32 bits of the code, and for programs of any length. So do
`ShiftsRepeat` and `ResultsExact`. Their references are recursive functions over the
bits of a word, and the prover has no induction theorem that could be applied to
them. The lemmas instead take the least element of the set of numbers where a claim
fails, and show first that the functions exist, so that their equations can be used;
one bit of a result follows from the one before it.

**`SysTickProofs`.** `TimeInv` is `TypeOK` and `Tells`, which adds two conjuncts to
`KeepsTime`: the period exceeds every instruction, and until the ticks have used up
what was read the counter is their difference. Without them a reload could take the
counter below zero and lose the count. `Lanes` says what a merge leaves of a word's
bytes, `Ticked` what an instruction leaves of the counter. `WidthsStay`,
`TimeIsKept` and `ByteStores` hold for every byte size and every program.

**`RspServerProofs`.** `Typed` adds to `TypeOK` what can be on its way to the server
(`ServerTyped`). `Held` says that the stall lasts from its cause to the request that
ends it: every phase that talks to the client is stalled, and a program that is not
has hit nothing and stands at no breakpoint, unless it was just resumed (`Stops`).
`Exchange` is why nobody waits in vain (`NeverBothWait`): `Promised` says that a
waiting client's request is still on its way, or the server is sending, running the
program or asking for it again, and that no acknowledgement is left over that could
end the sending early. This theorem assumes that `i` is not among the requests.

`InStep` rests on `OneAtATime`: as long as no interrupt was sent and no
instruction met two matchpoints, the exchange is in one of six states. It is
settled; or the request is on its way, perhaps repeated; or the server holds or
sends the reply; or the program runs; or the request is one that is never answered.
For each of them it says what the two directions of the connection can hold.
`Struck` shows that one instruction causes one stop reply. `StaysInStep` follows for
every program, every mix of requests, and any number of faults and connections.

**`DebugAccessProofs`.** `StaysTyped`, `AnswersFit`, `ReadsTheTruth` and
`ChargedOnce` hold for every size of nibbles and words (the 32-bit words of the code
among them), every layout of the memories and every set of requests.
`ReadsWhatWasWritten` relates two beliefs of the client and is not inductive: nothing
in it says why the next read should confirm them. `Inv` says it: as long as the
simulation runs, what the client believes of a register or a byte is what the
simulator holds there, or nothing (`True`); and no reset is pending between two
requests. Each request has a lemma (`StepReadReg` to `StepStep`). They rest on three
groups of others. First, the conversions: `Conversions` states that register text in
swapped nibbles, hexadecimal bytes and escaped data come back as they went, by the
digits of a number (`DigitsOf`, `DigitPut`) and a run over the escaped characters.
Second, what one access does: a byte written is there, and all others are as they
were (`WriteBack`), a byte that asks for a reset does what `cpu_reset` does
(`CommandDoes`). Third, the bytes of a request `X` one after the other: where the
write stops (`RunAt`), that without a reset it writes just what was sent
(`QuietRun`), and that from `do_reset` on the reset has been charged or was not
asked for, whatever number of bytes asks (`ChargedRun`). The recursive functions for
texts and runs are handled like those of `Alu`: `Recursion` shows that such a
function exists, and `UpTo` takes the least index where a claim fails.

**Only model-checked.**
- `StackDiscipline`, a property of the simulated programs.
- `WatchdogKeepsFiring`, `ProgramProgresses` and `StepReturns`: ENABLED and fairness
  are out of the prover's reach.

## 5. What is not modelled

- **Text of queries** (`rsp_query`): fixed answers; `RspServer` has a request that
  is answered.
- **Packets cut short within**, by an end of file between two characters: a
  connection is lost between messages in `RspServer`.
- The other **words of the `mmio` table**: they are read and written like the five
  in `DebugAccess`; `CycleAccounting` has the two addresses, `Machine` the seed.
- **Idempotency tracking** and **MD5**: compiled out (`REPORT_IDEM_BREAKS` 0, MD5
  off).
- **Printing**, the **image loader**, the command line of `main`: output, file input
  and parsing of arguments.
- Memory that is never freed (`rsp-server.c:2387`): no other behaviour depends on
  it.

## 6. Plan

Done: the core (`Cpu`, `Machine`) with its abstract specification and proofs, the
refinement among them; the counters; the RSP server with the proofs of its safety
properties; the matchpoints; the memory bus and its refinement; decoder and
dispatch; data processing; SysTick; the debugger's accesses and their proofs. Every
invariant the runs check is proved but `StackDiscipline`, which is the hypothesis of
the theorems about interrupted programs.

What would come next:
1. Watchpoints composed with the byte stores of `MemBus`, which pass the address of
   the word (`rsp-server.c:2542`), once it is settled which addresses a watchpoint
   is meant to cover.
2. `StackDiscipline` for a class of programs, from the code the compiler emits for
   functions and handlers, instead of program by program.
