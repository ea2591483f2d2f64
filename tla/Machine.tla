------------------------------ MODULE Machine ------------------------------
(***************************************************************************)
(* The main loop of thumbulator (sim_main.c): fetch, execute, take the     *)
(* exception the instruction's own cycles raised, advance the PC.  An      *)
(* instruction whose ticks make the watchdog expire is rolled back: the    *)
(* registers saved at the top of the loop come back, the handler is        *)
(* entered from them, and the instruction runs again when the handler      *)
(* returns.  What it stored is not rolled back.                            *)
(*                                                                         *)
(* Between two iterations a debugger can set the watchdog's seed and       *)
(* request a reset, both through the memory-mapped words of the simulator. *)
(***************************************************************************)
EXTENDS Cpu, Sequences

CONSTANTS
  FlashInit,  \* the data memory fillState loads
  Seeds,      \* the values a debugger writes to wdt_seed; 0 disarms
  MaxCommands \* bound: the number of debugger writes in a behaviour

ASSUME MachineAssumption ==
  /\ FlashInit \in [MemWords -> Word]
  /\ FlashInit[4] % 2 = 1
  /\ Seeds \subseteq Word
  /\ MaxCommands \in Nat

VARIABLES
  phase,       \* where in the loop body the simulator is, or how it exited
  cpu,
  lastCPU,     \* the backup taken at the top of the loop
  takenBranch,
  mem,         \* the data words of flash and RAM
  wdt,         \* wdt_seed and wdt_val
  interrupted, \* history: the contexts whose handlers have not returned yet
  commands     \* the number of debugger writes so far

vars == <<phase, cpu, lastCPU, takenBranch, mem, wdt, interrupted, commands>>

TypeOK ==
  /\ phase \in {"fetch", "execute", "except", "advance", "exit0", "exit1"}
  /\ cpu \in CPU
  /\ lastCPU \in CPU
  /\ takenBranch \in BOOLEAN
  /\ mem \in [MemWords -> Word]
  /\ wdt \in [seed : Word, val : Word]
  /\ interrupted \in Seq(CPU)
  /\ commands \in 0 .. MaxCommands

\* The CPU is a zero-initialised global, and mode 0 is CPU_MODE_HANDLER.
StaticCPU == [gpr |-> Zero16, apsr |-> 0, ipsr |-> 0, mode |-> "handler",
              stack |-> "main", exceptmask |-> {}]

Init ==
  /\ phase = "fetch"
  /\ mem = FlashInit
  /\ cpu = ResetAndPrefetch(StaticCPU, FlashInit)
  /\ lastCPU = cpu
  /\ takenBranch = FALSE
  /\ wdt = [seed |-> 0, val |-> 0]
  /\ interrupted = <<>>
  /\ commands = 0

-----------------------------------------------------------------------------
Insn     == Program[InsnAddr(cpu)]
Executed == executeJumpTable(cpu, mem, Insn)

Fetch ==
  /\ phase = "fetch"
  /\ takenBranch' = FALSE
  /\ lastCPU' = cpu
  /\ phase' = IF cpu.gpr[GPR_PC] % 2 = 1 /\ InsnAddr(cpu) \in Code
              THEN "execute" ELSE "exit1"
  /\ UNCHANGED <<cpu, mem, wdt, interrupted, commands>>

\* INCREMENT_CYCLES: count the ticks, and wrap as a u32 before comparing.
WdtSum(w, ticks) == Wrap(w.val + ticks)
\* Mutant: the comparison is strict.
ExpiresLate(w, ticks) == w.seed # 0 /\ WdtSum(w, ticks) > w.seed
Expires(w, ticks) == w.seed # 0 /\ WdtSum(w, ticks) >= w.seed
\* Mutants: the ticks replace the count, and expiry does not restart it.
INCREMENT_Overwrites(w, ticks) == IF w.seed = 0 THEN w ELSE [w EXCEPT !.val = ticks]
INCREMENT_NoRestart(w, ticks) ==
  IF w.seed = 0 THEN w ELSE [w EXCEPT !.val = WdtSum(w, ticks)]
INCREMENT_CYCLES(w, ticks) ==
  CASE w.seed = 0                            -> w
    [] w.seed # 0 /\ Expires(w, ticks)       -> [w EXCEPT !.val = 0]
    [] w.seed # 0 /\ ~Expires(w, ticks)      -> [w EXCEPT !.val = WdtSum(w, ticks)]

\* Mutant: the bit below is set.
cpu_set_exceptOff(c, i) == [c EXCEPT !.exceptmask = @ \cup {i - 1}]
cpu_set_except(c, i) == [c EXCEPT !.exceptmask = @ \cup {i}]

(***************************************************************************)
(* exwbmem: the handler runs, then its ticks are counted.  A handler that  *)
(* calls sim_exit ends the program in the middle of the iteration.         *)
(***************************************************************************)
exwbmem ==
  /\ phase = "execute"
  /\ LET r == Executed
         w == IF r.exit = "reset" THEN [wdt EXCEPT !.val = 0] ELSE wdt
     IN /\ r.exit \in {"no", "reset"}
        /\ mem' = r.mem
        /\ takenBranch' = r.taken
        /\ wdt' = INCREMENT_CYCLES(w, r.ticks)
        /\ cpu' = IF Expires(w, r.ticks) THEN cpu_set_except(r.cpu, WDT_EXCEPTION)
                                         ELSE r.cpu
  /\ phase' = "except"
  /\ UNCHANGED <<lastCPU, interrupted, commands>>

sim_exit ==
  /\ phase = "execute"
  /\ Executed.exit \in {"exit0", "exit1"}
  /\ phase' = Executed.exit
  /\ UNCHANGED <<cpu, lastCPU, takenBranch, mem, wdt, interrupted, commands>>

-----------------------------------------------------------------------------
\* The registers an exception is entered from: all of them roll back, only
\* the pending set is carried over.
RolledBackNot == cpu  \* Mutant: the backup is not copied back.
RolledBack == [lastCPU EXCEPT !.exceptmask = cpu.exceptmask]

cpu_clear_exceptNot(c, i) == c  \* Mutant: the pending bit stays set.
cpu_clear_except(c, i) == [c EXCEPT !.exceptmask = @ \ {i}]

check_except ==
  /\ phase = "except"
  /\ \E i \in cpu.exceptmask :
       LET r == except_enter(RolledBack, mem, i)
       IN /\ cpu' = cpu_clear_except(r.cpu, i)
          /\ mem' = r.mem
          /\ takenBranch' = TRUE
          /\ phase' = IF r.exit = "no" THEN "advance" ELSE "exit1"
          /\ interrupted' = IF r.exit = "no" THEN <<lastCPU>> \o interrupted
                                             ELSE interrupted
  /\ UNCHANGED <<lastCPU, wdt, commands>>

\* What the instruction being retired did to the stack of handlers.
Retired  == Program[InsnAddr(lastCPU)]
Returned == Retired.op = "bx" /\ IsExcReturn(lastCPU.gpr[Retired.rM])
WasReset == executeJumpTable(lastCPU, mem, Retired).exit = "reset"

Retire ==
  /\ phase = "except"
  /\ cpu.exceptmask = {}
  /\ phase' = "advance"
  /\ interrupted' = CASE WasReset -> <<>>
                      [] Returned /\ interrupted # <<>> -> Tail(interrupted)
                      [] OTHER -> interrupted
  /\ UNCHANGED <<cpu, lastCPU, takenBranch, mem, wdt, commands>>

\* VERIFY_BRANCHES_TAGGED: the PC may only have moved if a handler said so.
Untagged == ~takenBranch /\ cpu.gpr[GPR_PC] # lastCPU.gpr[GPR_PC]

Advance ==
  /\ phase = "advance"
  /\ phase' = IF Untagged THEN "exit1" ELSE "fetch"
  /\ cpu' = IF Untagged THEN cpu ELSE SetGpr(cpu, GPR_PC, AdvancedPC(cpu, takenBranch))
  /\ UNCHANGED <<lastCPU, takenBranch, mem, wdt, interrupted, commands>>

-----------------------------------------------------------------------------
(***************************************************************************)
(* The debugger's writes, which reach simDebugWrite while the loop waits   *)
(* in rsp.stalled between two iterations.  Seeds below 256 need one byte.  *)
(***************************************************************************)
Command ==
  /\ phase = "fetch"
  /\ commands < MaxCommands
  /\ commands' = commands + 1

DebugWriteSeed(s) ==
  /\ Command
  /\ wdt' = [wdt EXCEPT !.seed = s]
  /\ UNCHANGED <<phase, cpu, lastCPU, takenBranch, mem, interrupted>>

sim_command ==
  /\ Command
  /\ phase' = IF ResetToARM(mem) THEN "exit1" ELSE phase
  /\ cpu' = ResetAndPrefetch(cpu, mem)
  /\ wdt' = [wdt EXCEPT !.val = 0]
  /\ interrupted' = <<>>
  /\ UNCHANGED <<lastCPU, takenBranch, mem>>

Step  == Fetch \/ exwbmem \/ sim_exit \/ check_except \/ Retire \/ Advance
Debug == sim_command \/ \E s \in Seeds : DebugWriteSeed(s)
Next  == Step \/ Debug

Spec == Init /\ [][Next]_vars
\* The loop is a single thread that never blocks on its own.
FairSpec == Spec /\ WF_vars(Step)

-----------------------------------------------------------------------------
(***************************************************************************)
(* Properties                                                              *)
(***************************************************************************)

\* An exception is taken in the iteration that raised it: none is pending
\* while an instruction is fetched, executed or advanced over, although the
\* roll-back restores every register but the pending set.
ExceptionsAreImmediate ==
  phase \in {"fetch", "execute", "advance"} => cpu.exceptmask = {}

\* As long as a handler has not returned, the frame that except_enter pushed
\* for it still holds the registers of the context it interrupted, however
\* deep the handlers nest and whatever they push and pop below it.
FramesIntact ==
  \A i \in 1 .. Len(interrupted) : \A k \in 0 .. 7 :
    mem[FrameSlot(EnterSP(interrupted[i]), k)] = FrameWord(interrupted[i], k)

\* While the watchdog is armed no tick an instruction takes is lost to the
\* wrap of wdt_val: either the counter grows by the ticks, or it starts over
\* and the exception is pending.
NoTickLost ==
  [][exwbmem /\ wdt.seed # 0 /\ Executed.exit = "no" =>
       \/ /\ wdt'.val = 0
          /\ WDT_EXCEPTION \in cpu'.exceptmask
       \/ wdt'.val \in (wdt.val + 1) .. (wdt.seed - 1)]_vars

\* A watchdog that is armed, and stays so, expires again and again.
WatchdogKeepsFiring ==
  []<>(wdt.seed = 0 \/ WDT_EXCEPTION \in cpu.exceptmask)

\* If the watchdog's period exceeds the handler's ticks plus those of any
\* instruction, roll-backs cannot starve the program: it keeps retiring.
ProgramProgresses ==
  []<>(phase = "except" /\ interrupted = <<>> /\ cpu.exceptmask = {})

\* "If the variable updated is a request to reset, then do it"
\* (sim_support.c:464): the program's own request restarts it.
ResetIsDone ==
  [][Advance /\ WasReset =>
       phase' = "fetch" /\ InsnAddr(cpu') = WordAddr(mem[4]) + (mem[4] % 4) - 1]_vars

=============================================================================
