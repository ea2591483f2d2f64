---------------------------- MODULE MCAccounting ----------------------------
(***************************************************************************)
(* The counters on the programs of MCPrograms.  A checkpoint is the STR at *)
(* 306, and what restores it the SUBS at 314, which both run in a loop.    *)
(***************************************************************************)
EXTENDS CycleAccounting, MCPrograms

\* After one round the program asks for a reset.
OneRoundProgram == (326 :> JUMP(326, 340)) @@ (340 :> MOVS(2, 252))
                @@ (342 :> MOVS(0, 1)) @@ (344 :> STR(0, 2, 127)) @@ MCProgram

=============================================================================
