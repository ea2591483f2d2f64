------------------------------- MODULE MCRsp -------------------------------
(***************************************************************************)
(* A program of two instructions, 1 and 2, between a reset, which is also  *)
(* the watchdog's handler, and an exit: 1 stores two words and can be taken*)
(* to the handler before it retires, 2 may store one of them.              *)
(***************************************************************************)
EXTENDS RspServer

MCGoes == [pc \in {0, 1, 2, 3} |->
             CASE pc = 1 -> {0, 2}
               [] pc = 2 -> {1, 3}
               [] OTHER  -> {1}]
MCStores == [pc \in {0, 1, 2, 3} |->
               CASE pc = 1 -> {<<"a", "b">>}
                 [] pc = 2 -> {<<>>, <<"b">>}
                 [] OTHER  -> {<<>>}]
MCMatchpoints ==
  {<<BP_MEMORY, 2>>, <<WP_WRITE, "a">>, <<WP_WRITE, "b">>, <<WP_WRITE, "cycles">>}
=============================================================================
