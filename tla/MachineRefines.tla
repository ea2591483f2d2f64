--------------------------- MODULE MachineRefines ---------------------------
(***************************************************************************)
(* The main loop implements Uninterrupted for a handler that keeps the     *)
(* stack discipline: the program's context is the processor's while no     *)
(* handler runs, and the outermost interrupted one while any does.         *)
(***************************************************************************)
EXTENDS Machine, ProgramState

\* The stack grows down from the initial stack pointer, clear of the vectors
\* and of both ends of the address space, and the handler's words are apart.
ASSUME RefinementAssumption ==
  /\ StackWords \subseteq {a \in MemWords : 64 < a /\ a + 40 < WordMod}
  /\ \A a \in StackWords : a < WordAddr(FlashInit[0])
  /\ HandlerWords \subseteq MemWords \ {0, 4, 64}
  /\ HandlerWords \cap StackWords = {}

\* The context the program would have at the top of the loop.
ProgramContext ==
  CASE interrupted # <<>> -> interrupted[Len(interrupted)]
    [] interrupted = <<>> /\ phase = "except"  -> lastCPU
    [] interrupted = <<>> /\ phase = "advance" ->
         SetGpr(cpu, GPR_PC, AdvancedPC(cpu, takenBranch))
    [] OTHER -> cpu

U == INSTANCE Uninterrupted
       WITH ctx <- View(ProgramContext), store <- Owned(ProgramContext, mem)

-----------------------------------------------------------------------------
(***************************************************************************)
(* What a program must keep to for that, as a debugger or a compiler would *)
(* state it: the words an instruction loads and stores, where the stack    *)
(* is, and what a handler may touch and must restore.                      *)
(***************************************************************************)
Target(c, d) == WordAddr(Wrap(c.gpr[d.rN] + 4 * d.imm))
Listed(d, r) == d.reg_list \cap ((0 .. 7) \cup {r})
Returns(c, d) == d.op = "bx" /\ IsExcReturn(c.gpr[d.rM])

Reads(c, d) ==
  CASE d.op = "ldr_i" -> {Target(c, d)}
    [] d.op = "pop"   -> LET list == Listed(d, GPR_PC)
                         IN {Slot(c.gpr[GPR_SP], list, r) : r \in list}
    [] Returns(c, d)  -> FrameSlots(c.gpr[GPR_SP])
    [] OTHER          -> {}

Writes(c, d) ==
  CASE d.op = "str_i" -> {Target(c, d)}
    [] d.op = "push"  -> LET list == Listed(d, GPR_LR)
                         IN {Slot(Wrap(c.gpr[GPR_SP] - 4 * Cardinality(list)), list, r)
                               : r \in list}
    [] OTHER          -> {}

OnStack(c) ==
  /\ c.gpr[GPR_SP] \in StackWords \/ c.gpr[GPR_SP] - 4 \in StackWords
  /\ FrameSlots(EnterSP(c)) \subseteq MemWords => FrameSlots(EnterSP(c)) \subseteq StackWords

ProgramKeeps(c, d) ==
  /\ Reads(c, d) \cap Dead(c) = {}
  /\ Writes(c, d) \cap {0, DoResetAddr} = {}

HandlerKeeps(c, d, from) ==
  /\ c.gpr[GPR_SP] <= EnterSP(from)
  /\ Writes(c, d) \subseteq MemWords \cup {DoResetAddr}  \* or the program ends
       => Writes(c, d) \subseteq HandlerWords \cup {a \in StackWords : a < EnterSP(from)}
  /\ Returns(c, d) => /\ c.gpr[d.rM] = ExcReturn(from)
                      /\ c.gpr[GPR_SP] = EnterSP(from)
                      /\ \A r \in 4 .. 11 : c.gpr[r] = from.gpr[r]

Disciplined(c) ==
  LET d == Program[InsnAddr(c)]
  IN /\ OnStack(c)
     /\ interrupted = <<>> => ProgramKeeps(c, d)
     /\ interrupted # <<>> => HandlerKeeps(c, d, Head(interrupted))

\* The instructions keep the stack discipline wherever the watchdog strikes:
\* no exception makes the program read a dead word or a handler reach
\* above its own frame.
StackDiscipline == phase = "execute" => Disciplined(cpu)

\* Every watchdog exception is transparent to the program: its registers
\* advance one whole instruction at a time, whatever instruction the
\* exception rolls back and however deep handlers interrupt handlers.
Transparent == U!ASpec

=============================================================================
