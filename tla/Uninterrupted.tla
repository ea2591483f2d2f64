--------------------------- MODULE Uninterrupted ---------------------------
(***************************************************************************)
(* What the simulated program is promised, whatever the watchdog does: its *)
(* registers change by whole instructions in program order, as if no       *)
(* exception existed.  The promise is weaker for memory.  The stores of an *)
(* instruction can become visible before it retires, and again each time   *)
(* it is attempted, because an interrupted instruction is rolled back in   *)
(* the registers only.                                                     *)
(***************************************************************************)
EXTENDS ProgramState

CONSTANT FlashInit

VARIABLES ctx,   \* the view of the registers, as at the top of the loop
          store  \* the words that are the program's

Modes == {"handler", "thread"}

\* A reset leaves the mode as it is, the handler's if one was running.
ResetContext(mode) ==
  View(ResetAndPrefetch([Unview(ctx) EXCEPT !.mode = mode], store))

AInit == \E mode \in Modes :
  LET zero == [gpr |-> Zero16, apsr |-> 0, mode |-> mode, stack |-> "main"]
  IN /\ ctx = View(ResetAndPrefetch(Unview(zero), FlashInit))
     /\ store = Owned(ctx, FlashInit)

Attempt == executeJumpTable(Unview(ctx), store, Program[InsnAddr(ctx)])

\* An attempt whose registers are discarded.
AStore ==
  /\ Attempt.exit = "no"
  /\ store' = Owned(ctx, Attempt.mem)
  /\ UNCHANGED ctx

\* The instruction retires: its registers, its memory and the next PC.
ARetire ==
  /\ Attempt.exit = "no"
  /\ ctx' = View(SetGpr(Attempt.cpu, GPR_PC, AdvancedPC(Attempt.cpu, Attempt.taken)))
  /\ store' = Owned(ctx', Attempt.mem)

AReset ==
  /\ \E mode \in Modes : ctx' = ResetContext(mode)
  /\ store' = Owned(ctx', store)

ANext ==
  \/ InsnAddr(ctx) \in Code /\ (AStore \/ ARetire)
  \/ AReset

ASpec == AInit /\ [][ANext]_<<ctx, store>>

=============================================================================
