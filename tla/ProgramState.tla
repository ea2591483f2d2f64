---------------------------- MODULE ProgramState ----------------------------
(***************************************************************************)
(* The part of the processor and of the memory that belongs to the         *)
(* simulated program, as opposed to its exception handlers.                *)
(***************************************************************************)
EXTENDS Cpu

CONSTANTS
  StackWords,   \* the words the stack can occupy
  HandlerWords  \* the words only the exception handler writes

View(c) == [gpr |-> c.gpr, apsr |-> c.apsr, mode |-> c.mode, stack |-> c.stack]

\* A processor with view v, outside any exception.
Unview(v) == [gpr |-> v.gpr, apsr |-> v.apsr, mode |-> v.mode, stack |-> v.stack,
              ipsr |-> 0, exceptmask |-> {}]

\* A word below the stack pointer is dead, and the handler's are not seen.
Dead(c)     == HandlerWords \cup {a \in StackWords : a < c.gpr[GPR_SP]}
Owned(c, m) == [a \in MemWords |-> IF a \in Dead(c) THEN 0 ELSE m[a]]

=============================================================================
