------------------------------ MODULE Restart ------------------------------
(***************************************************************************)
(* The main loop with the debugger's vRun, which runs cpu_reset while the  *)
(* loop waits between two iterations.                                      *)
(***************************************************************************)
EXTENDS Machine, MCPrograms

rsp_restart ==
  /\ Command
  /\ phase' = IF ResetToARM(mem) THEN "exit1" ELSE phase
  /\ cpu' = cpu_reset(cpu, mem)
  /\ wdt' = [wdt EXCEPT !.val = 0]
  /\ interrupted' = <<>>
  /\ UNCHANGED <<lastCPU, takenBranch, mem>>

RestartSpec == Init /\ [][Next \/ rsp_restart]_vars

\* "Restart the current program" (rsp-server.c:2236): what runs next is the
\* instruction the reset vector names, as it is at power-on and in a reset
\* through do_reset.
RestartsAtEntry ==
  [][rsp_restart /\ ~ResetToARM(mem) => InsnAddr(cpu') = mem[4] - 1]_vars

=============================================================================
