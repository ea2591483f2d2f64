--------------------------- MODULE CycleAccounting ---------------------------
(***************************************************************************)
(* The cycle counters a debugger reads through the memory-mapped words, on *)
(* top of the main loop.  The simulator was built to measure intermittent  *)
(* programs: the cycles since the last checkpoint are wasted when the      *)
(* processor is reset, and when the code that restores a checkpoint has    *)
(* run.  Each action of Machine is extended with what it does to them.     *)
(***************************************************************************)
EXTENDS Machine

CONSTANTS
  CPAddrs,  \* the addresses a debugger writes to addrOfCP and addrOfRestoreCP
  MaxCycles \* bound: no instruction starts once cycleCount has reached it

ASSUME AccountingAssumption == CPAddrs \subseteq Word /\ MaxCycles \in Nat

VARIABLES
  cycleCount,       \* u64
  wastedCycles,     \* u64
  cyclesSinceReset, \* u32
  cyclesSinceCP,    \* u32
  addrOfCP,
  addrOfRestoreCP,
  addToWasted,      \* local to main, so no reset clears it
  committed         \* history: the cycles that ended in a checkpoint

counters == <<cycleCount, wastedCycles, cyclesSinceReset, cyclesSinceCP, committed>>
marks    == <<addrOfCP, addrOfRestoreCP>>
countedVars    == <<vars, counters, marks, addToWasted>>

CounterTypes ==
  /\ cycleCount \in Nat
  /\ wastedCycles \in Nat
  /\ committed \in Nat
  /\ cyclesSinceReset \in Word
  /\ cyclesSinceCP \in Word

CountedInit ==
  /\ Init
  /\ cycleCount = 0
  /\ wastedCycles = 0
  /\ cyclesSinceReset = 0
  /\ cyclesSinceCP = 0
  /\ addrOfCP = 0
  /\ addrOfRestoreCP = 0
  /\ addToWasted = FALSE
  /\ committed = 0

-----------------------------------------------------------------------------
(***************************************************************************)
(* INCREMENT_CYCLES.  A store to do_reset has run cpu_reset, which ends by *)
(* charging and clearing the counters, before its own ticks are counted.   *)
(***************************************************************************)
\* Mutant: the 32-bit counters do not wrap.
IncrementUnbounded(sinceReset, sinceCP, ticks) ==
  /\ cycleCount' = cycleCount + ticks
  /\ cyclesSinceReset' = sinceReset + ticks
  /\ cyclesSinceCP' = sinceCP + ticks
Increment(sinceReset, sinceCP, ticks) ==
  /\ cycleCount' = cycleCount + ticks
  /\ cyclesSinceReset' = Wrap(sinceReset + ticks)
  /\ cyclesSinceCP' = Wrap(sinceCP + ticks)

CountedExwbmem ==
  /\ cycleCount < MaxCycles
  /\ exwbmem
  /\ IF Executed.exit = "reset"
     THEN wastedCycles' = wastedCycles + cyclesSinceCP /\ Increment(0, 0, Executed.ticks)
     ELSE wastedCycles' = wastedCycles
          /\ Increment(cyclesSinceReset, cyclesSinceCP, Executed.ticks)
  /\ UNCHANGED <<marks, addToWasted, committed>>

(***************************************************************************)
(* The end of the iteration.  The PC has moved on, so an instruction that  *)
(* fell through lies 6 below it and the next one 4 below it.               *)
(***************************************************************************)
EvenBelow(pc, k) == Wrap(pc - k) - (Wrap(pc - k) % 2)

AtCP(pc)          == EvenBelow(pc, 6) = addrOfCP
RestoresNext(pc)  == EvenBelow(pc, 4) = addrOfRestoreCP

\* Mutant: the cycles charged stay in cyclesSinceCP.
ChargeTwice(sinceCP) ==
  /\ wastedCycles' = IF addToWasted THEN wastedCycles + sinceCP ELSE wastedCycles
  /\ cyclesSinceCP' = sinceCP
Charge(sinceCP) ==
  /\ wastedCycles' = IF addToWasted THEN wastedCycles + sinceCP ELSE wastedCycles
  /\ cyclesSinceCP' = IF addToWasted THEN 0 ELSE sinceCP

CountedAdvance ==
  /\ Advance
  /\ ~Untagged
  /\ LET pc == AdvancedPC(cpu, takenBranch)
     IN /\ Charge(IF AtCP(pc) THEN 0 ELSE cyclesSinceCP)
        /\ committed' = IF AtCP(pc) THEN committed + cyclesSinceCP ELSE committed
        /\ addToWasted' = RestoresNext(pc)
  /\ UNCHANGED <<cycleCount, cyclesSinceReset, marks>>

\* "Reset counters", at the end of cpu_reset.
\* Mutant: cyclesSinceCP is cleared before it is charged.
ResetCountersFirst ==
  /\ cyclesSinceReset' = 0
  /\ cyclesSinceCP' = 0
  /\ UNCHANGED <<wastedCycles, cycleCount, committed, marks, addToWasted>>
ResetCounters ==
  /\ wastedCycles' = wastedCycles + cyclesSinceCP
  /\ cyclesSinceReset' = 0
  /\ cyclesSinceCP' = 0
  /\ UNCHANGED <<cycleCount, committed, marks, addToWasted>>

\* cpu_reset exits before it reaches the counters if the vector is even.
CountedReset ==
  /\ sim_command
  /\ IF ResetToARM(mem) THEN UNCHANGED <<counters, marks, addToWasted>>
                        ELSE ResetCounters

DebugWriteMarks(cp, restoreCP) ==
  /\ Command
  /\ addrOfCP' = cp
  /\ addrOfRestoreCP' = restoreCP
  /\ UNCHANGED <<phase, cpu, lastCPU, takenBranch, mem, wdt, interrupted>>
  /\ UNCHANGED <<counters, addToWasted>>

\* The steps of Machine that leave the counters alone.
Uncounted ==
  /\ \/ Fetch
     \/ sim_exit
     \/ check_except
     \/ Retire
     \/ Advance /\ Untagged
     \/ \E s \in Seeds : DebugWriteSeed(s)
  /\ UNCHANGED <<counters, marks, addToWasted>>

CountedNext ==
  \/ CountedExwbmem
  \/ CountedAdvance
  \/ CountedReset
  \/ \E cp, restoreCP \in CPAddrs : DebugWriteMarks(cp, restoreCP)
  \/ Uncounted

CountedSpec == CountedInit /\ [][CountedNext]_countedVars

-----------------------------------------------------------------------------
(***************************************************************************)
(* Properties                                                              *)
(***************************************************************************)

\* No cycle is wasted twice: what was charged to wastedCycles, what was
\* committed by a checkpoint and what is still at stake never exceed the
\* cycles run, through resets, checkpoints, restores, and instructions the
\* watchdog rolls back in the middle of either.
NoCycleTwice == wastedCycles + committed + cyclesSinceCP <= cycleCount

\* Until the 32-bit counters first wrap, no cycle is forgotten either, and
\* a reset is never more recent than the cycles still at stake.
EveryCycleCounted ==
  cycleCount < WordMod =>
    /\ wastedCycles + committed + cyclesSinceCP = cycleCount
    /\ cyclesSinceCP <= cyclesSinceReset

=============================================================================
