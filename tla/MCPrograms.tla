----------------------------- MODULE MCPrograms -----------------------------
(***************************************************************************)
(* Programs and memories for small instances.  The main program pushes, stores,       *)
(* loads, loops, calls a function and starts over; the watchdog's handler  *)
(* saves what the exception frame does not, writes a word of its own and   *)
(* returns through BX.                                                     *)
(***************************************************************************)
EXTENDS Cpu, TLC

\* An instruction with no operand; the constructors below fill in what is used.
Blank == [op |-> "b", rD |-> 0, rN |-> 0, rM |-> 0, imm |-> 0, cond |-> 0,
          reg_list |-> {}]
MOVS(rd, i)     == [Blank EXCEPT !.op = "movs_i", !.rD = rd, !.imm = i]
ADDS(rd, i)     == [Blank EXCEPT !.op = "adds_i8", !.rD = rd, !.imm = i]
SUBS(rd, i)     == [Blank EXCEPT !.op = "subs_i8", !.rD = rd, !.imm = i]
MULS(rd, rm)    == [Blank EXCEPT !.op = "muls", !.rD = rd, !.rM = rm]
LDR(rd, rn, i)  == [Blank EXCEPT !.op = "ldr_i", !.rD = rd, !.rN = rn, !.imm = i]
STR(rd, rn, i)  == [Blank EXCEPT !.op = "str_i", !.rD = rd, !.rN = rn, !.imm = i]
PUSH(l)         == [Blank EXCEPT !.op = "push", !.reg_list = l]
POP(l)          == [Blank EXCEPT !.op = "pop", !.reg_list = l]
BX(rm)          == [Blank EXCEPT !.op = "bx", !.rM = rm]
BLX(rm)         == [Blank EXCEPT !.op = "blx", !.rM = rm]
EXIT            == [Blank EXCEPT !.op = "exit"]
BNE(from, to)   == [Blank EXCEPT !.op = "b_c", !.cond = 1, !.imm = to - from - 4]
JUMP(from, to)  == [Blank EXCEPT !.op = "b", !.imm = to - from - 4]
CALL(from, to)  == [Blank EXCEPT !.op = "bl", !.imm = to - from - 4]

MCWordMod     == 1024
MCDoResetAddr == 760
\* The stack is the lowest part of RAM, so an overflow leaves the memory.
StackTop      == 128 + 4 * 26
MCStackWords  == {128 + 4 * k : k \in 0 .. 25}
MainWord      == StackTop
HandlerWord   == StackTop + 4
MCHandlerWords == {HandlerWord}
MCMemWords    == {0, 4, 64, MainWord, HandlerWord} \cup MCStackWords

MCFlashInit == [a \in MCMemWords |->
                  CASE a = 0  -> StackTop
                    [] a = 4  -> 301
                    [] a = 64 -> 401
                    [] OTHER  -> 0]

Main ==
     300 :> MOVS(2, MainWord)
  @@ 302 :> MOVS(0, 2)
  @@ 304 :> PUSH({0, 14})
  @@ 306 :> STR(0, 2, 0)
  @@ 308 :> LDR(1, 2, 0)
  @@ 310 :> MULS(1, 0)
  @@ 312 :> POP({0, 3})
  @@ 314 :> SUBS(0, 1)
  @@ 316 :> BNE(316, 304)
  @@ 318 :> CALL(318, 330)
  @@ 322 :> MOVS(5, 251)
  @@ 324 :> BLX(5)
  @@ 326 :> JUMP(326, 302)
  @@ 330 :> ADDS(4, 7)
  @@ 332 :> BX(14)
  @@ 250 :> MOVS(4, 1)
  @@ 252 :> BX(14)

Handler ==
     400 :> PUSH({14})
  @@ 402 :> PUSH({4})
  @@ 404 :> MOVS(4, HandlerWord)
  @@ 406 :> MOVS(0, 9)
  @@ 408 :> STR(0, 4, 0)
  @@ 410 :> POP({4})
  @@ 412 :> POP({3})
  @@ 414 :> BX(3)

\* The program repeats forever, or exits after one round.
MCProgram   == Main @@ Handler
OnceProgram == (326 :> EXIT) @@ MCProgram

\* A program that asks for a reset in its third instruction.
ResetProgram == (300 :> MOVS(2, 252)) @@ (302 :> MOVS(0, 1))
             @@ (304 :> STR(0, 2, 127)) @@ (306 :> JUMP(306, 300)) @@ Handler
=============================================================================
