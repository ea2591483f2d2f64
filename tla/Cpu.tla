-------------------------------- MODULE Cpu --------------------------------
(***************************************************************************)
(* The processor state of thumbulator (struct CPU, exmemwb.h) and the      *)
(* functions that compute on it: one operator per instruction handler of   *)
(* exmemwb_*.c for one instruction of every class the main loop can tell   *)
(* apart, exception entry and exit (except.c), and the reset (cpu_reset).  *)
(* The module has no state of its own; Machine drives these operators the  *)
(* way the loop of sim_main.c does.                                        *)
(*                                                                         *)
(* A u32 is a number below WordMod, which stands for 2^32: the arithmetic  *)
(* wraps there, the flags are its four upper bits and an EXC_RETURN value  *)
(* is one whose upper four bits are all set.                               *)
(***************************************************************************)
EXTENDS Integers, FiniteSets

CONSTANTS
  WordMod,    \* 2^32 in the code; any multiple of 16 here
  MemWords,   \* the word addresses of flash and RAM that hold data
  Program,    \* the decoded instruction at each (even) code address
  DoResetAddr \* the memory-mapped word whose store requests a reset

Word == 0 .. WordMod - 1
GPR  == 0 .. 15
GPR_SP == 13
GPR_LR == 14
GPR_PC == 15
Code == DOMAIN Program

(***************************************************************************)
(* What decode() leaves in DECODE_RESULT, with the handler that the jump   *)
(* tables select.  A branch offset is already sign-extended, so imm is an  *)
(* integer, and rD is a three-bit field of every handler modelled here.    *)
(***************************************************************************)
Handlers == {"movs_i", "adds_i8", "subs_i8", "muls", "ldr_i", "str_i",
             "push", "pop", "b", "b_c", "bl", "blx", "bx", "exit"}

DECODE_RESULT == [op : Handlers, rD : 0 .. 7, rN : GPR, rM : GPR,
                  imm : Int, cond : 0 .. 15, reg_list : SUBSET GPR]

(***************************************************************************)
(* The vectors at 0 (initial stack pointer), 4 (reset) and 64 (exception   *)
(* 16, the watchdog) are words of flash, and the code words are not data   *)
(* words: programs do not modify themselves.                               *)
(***************************************************************************)
ASSUME CpuAssumption ==
  /\ WordMod \in Nat \ {0} /\ WordMod % 16 = 0
  /\ MemWords \subseteq {a \in Word : a % 4 = 0}
  /\ {0, 4, 64} \subseteq MemWords
  /\ Program \in [Code -> DECODE_RESULT]
  /\ Code \subseteq Word
  /\ DoResetAddr \in Word \ MemWords

-----------------------------------------------------------------------------
(***************************************************************************)
(* struct CPU.  The control register is represented by the stack it        *)
(* selects, exceptmask by the set of the exceptions whose bit is set.      *)
(***************************************************************************)
WDT_EXCEPTION == 16

CPU == [gpr : [GPR -> Word], apsr : Word, ipsr : 0 .. 31,
        mode : {"handler", "thread"}, stack : {"main", "process"},
        exceptmask : SUBSET {WDT_EXCEPTION}]

Wrap(x)      == x % WordMod
WordAddr(a)  == a - (a % 4)
SetGpr(c, r, v) == [c EXCEPT !.gpr[r] = v]

FLAG_N(c) == c.apsr >= WordMod \div 2
FLAG_Z(c) == (c.apsr % (WordMod \div 2)) >= WordMod \div 4
FLAG_C(c) == (c.apsr % (WordMod \div 4)) >= WordMod \div 8
FLAG_V(c) == (c.apsr % (WordMod \div 8)) >= WordMod \div 16
Bit(b, weight) == IF b THEN weight ELSE 0

\* do_nflag, do_zflag: the two upper flags follow a result, C and V stay.
SetNZ(c, res) ==
  [c EXCEPT !.apsr = Bit(res >= WordMod \div 2, WordMod \div 2)
                     + Bit(res = 0, WordMod \div 4) + (@ % (WordMod \div 4))]

\* do_cflag, do_vflag for the addition a + b + carry with result res.
SetCV(c, a, b, carry, res) ==
  LET neg(x) == x >= WordMod \div 2
      low(x) == x % (WordMod \div 16)
  IN [c EXCEPT !.apsr = (@ - (@ % (WordMod \div 4)))
                        + Bit(a + b + carry >= WordMod, WordMod \div 8)
                        + Bit(neg(a) = neg(b) /\ neg(res) # neg(a), WordMod \div 16)
                        + low(@)]

-----------------------------------------------------------------------------
(***************************************************************************)
(* What a handler leaves behind: the registers, the data memory, whether   *)
(* it took a branch, the ticks it returns and how it ended: "no" is an     *)
(* ordinary return, "exit0" and "exit1" a call of sim_exit, "reset" a      *)
(* return after the store that ran cpu_reset.                              *)
(***************************************************************************)
Outcome(c, m, ticks, taken) ==
  [cpu |-> c, mem |-> m, ticks |-> ticks, taken |-> taken, exit |-> "no"]
Exits(c, m, how) ==
  [cpu |-> c, mem |-> m, ticks |-> 0, taken |-> FALSE, exit |-> how]

movs_i(c, m, d) ==
  Outcome(SetNZ(SetGpr(c, d.rD, Wrap(d.imm)), Wrap(d.imm)), m, 1, FALSE)

adds_i8(c, m, d) ==
  LET a   == c.gpr[d.rD]
      res == Wrap(a + Wrap(d.imm))
  IN Outcome(SetCV(SetNZ(SetGpr(c, d.rD, res), res), a, Wrap(d.imm), 0, res),
             m, 1, FALSE)

subs_i8(c, m, d) ==
  LET a   == c.gpr[d.rD]
      b   == WordMod - 1 - Wrap(d.imm)
      res == Wrap(a + b + 1)
  IN Outcome(SetCV(SetNZ(SetGpr(c, d.rD, res), res), a, b, 1, res), m, 1, FALSE)

muls(c, m, d) ==
  LET res == Wrap(c.gpr[d.rD] * c.gpr[d.rM])
  IN Outcome(SetNZ(SetGpr(c, d.rD, res), res), m, 32, FALSE)

ldr_i(c, m, d) ==
  LET a == WordAddr(Wrap(c.gpr[d.rN] + 4 * d.imm))
  IN IF a \in MemWords THEN Outcome(SetGpr(c, d.rD, m[a]), m, 2, FALSE)
                       ELSE Exits(c, m, "exit1")

(***************************************************************************)
(* A store to DoResetAddr is simStoreData's memory-mapped branch: a value  *)
(* other than 0 runs cpu_reset before the store returns.                   *)
(***************************************************************************)
Zero16 == [r \in GPR |-> 0]

cpu_reset(c, m) ==
  [gpr  |-> [Zero16 EXCEPT ![GPR_SP] = WordAddr(m[0]), ![GPR_PC] = m[4]],
   apsr |-> 0, ipsr |-> 0, mode |-> c.mode, stack |-> "main", exceptmask |-> {}]

ResetToARM(m) == m[4] % 2 = 0

\* "PC seen is PC + 4", which every caller but rsp_restart adds to the reset.
ResetAndPrefetch(c, m) ==
  [cpu_reset(c, m) EXCEPT !.gpr[GPR_PC] = Wrap(@ + 4)]

str_i(c, m, d) ==
  LET a == WordAddr(Wrap(c.gpr[d.rN] + 4 * d.imm))
      v == c.gpr[d.rD]
  IN CASE a \in MemWords -> Outcome(c, [m EXCEPT ![a] = v], 2, FALSE)
       [] a = DoResetAddr /\ v = 0 -> Outcome(c, m, 2, FALSE)
       [] a = DoResetAddr /\ v # 0 ->
            IF ResetToARM(m) THEN Exits(c, m, "exit1")
            ELSE [Outcome(ResetAndPrefetch(c, m), m, 2, FALSE) EXCEPT !.exit = "reset"]
       [] OTHER -> Exits(c, m, "exit1")

\* The slot of register r when the registers of list lie upwards from base.
Slot(base, list, r) == WordAddr(Wrap(base + 4 * Cardinality({q \in list : q < r})))

push(c, m, d) ==
  LET list == d.reg_list \cap ((0 .. 7) \cup {GPR_LR})
      sp   == Wrap(c.gpr[GPR_SP] - 4 * Cardinality(list))
  IN IF \A r \in list : Slot(sp, list, r) \in MemWords
     THEN Outcome(SetGpr(c, GPR_SP, sp),
                  [a \in MemWords |->
                     IF \E r \in list : Slot(sp, list, r) = a
                     THEN c.gpr[CHOOSE r \in list : Slot(sp, list, r) = a] ELSE m[a]],
                  1 + Cardinality(list), FALSE)
     ELSE Exits(c, m, "exit1")

\* The sum pop returns is the condition of its ?:, so it is always 2 ticks.
pop(c, m, d) ==
  LET list == d.reg_list \cap ((0 .. 7) \cup {GPR_PC})
      sp   == c.gpr[GPR_SP]
  IN IF \A r \in list : Slot(sp, list, r) \in MemWords
     THEN Outcome([c EXCEPT !.gpr =
                     [r \in GPR |->
                        CASE r \in list  -> m[Slot(sp, list, r)]
                          [] r = GPR_SP -> Wrap(sp + 4 * Cardinality(list))
                          [] OTHER      -> c.gpr[r]]],
                  m, 2, GPR_PC \in list)
     ELSE Exits(c, m, "exit1")

b(c, m, d) ==
  Outcome(SetGpr(c, GPR_PC, Wrap(c.gpr[GPR_PC] + d.imm)), m, 2, TRUE)

Taken(c, cond) ==
  CASE cond = 0  -> FLAG_Z(c)                  [] cond = 1  -> ~FLAG_Z(c)
    [] cond = 2  -> FLAG_C(c)                  [] cond = 3  -> ~FLAG_C(c)
    [] cond = 4  -> FLAG_N(c)                  [] cond = 5  -> ~FLAG_N(c)
    [] cond = 6  -> FLAG_V(c)                  [] cond = 7  -> ~FLAG_V(c)
    [] cond = 8  -> FLAG_C(c) /\ ~FLAG_Z(c)    [] cond = 9  -> FLAG_Z(c) \/ ~FLAG_C(c)
    [] cond = 10 -> FLAG_N(c) = FLAG_V(c)      [] cond = 11 -> FLAG_N(c) # FLAG_V(c)
    [] cond = 12 -> ~FLAG_Z(c) /\ FLAG_N(c) = FLAG_V(c)
    [] OTHER     -> FLAG_Z(c) \/ FLAG_N(c) # FLAG_V(c)

b_c(c, m, d) ==
  IF d.cond \in {14, 15} THEN Exits(c, m, "exit1")
  ELSE IF Taken(c, d.cond) THEN b(c, m, d) ELSE Outcome(c, m, 1, FALSE)

bl(c, m, d) ==
  Outcome([c EXCEPT !.gpr[GPR_LR] = c.gpr[GPR_PC],
                    !.gpr[GPR_PC] = Wrap(c.gpr[GPR_PC] + d.imm)], m, 3, TRUE)

blx(c, m, d) ==
  LET a == c.gpr[d.rM]
  IN IF a % 2 = 0 THEN Exits(c, m, "exit1")
     ELSE Outcome([c EXCEPT !.gpr[GPR_LR] = Wrap(c.gpr[GPR_PC] - 2),
                            !.gpr[GPR_PC] = a], m, 2, TRUE)

-----------------------------------------------------------------------------
(***************************************************************************)
(* except_enter: a frame of eight words below the stack pointer, without   *)
(* alignment, and an EXC_RETURN value in LR that encodes where to return.  *)
(***************************************************************************)
FrameSlot(sp, k) == WordAddr(Wrap(sp + 4 * k))
FrameSlots(sp)   == {FrameSlot(sp, k) : k \in 0 .. 7}

FrameWord(c, k) ==
  CASE k \in 0 .. 3 -> c.gpr[k]
    [] k = 4        -> c.gpr[12]
    [] k = 5        -> c.gpr[GPR_LR]
    [] k = 6        -> Wrap(c.gpr[GPR_PC] - 4)
    [] OTHER        -> c.apsr

HandlerMain   == 1
ThreadMain    == 9
ThreadProcess == 13
ExcReturn(c) ==
  WordMod - 16 + (CASE c.mode = "handler" -> HandlerMain
                    [] c.mode # "handler" /\ c.stack = "main" -> ThreadMain
                    [] OTHER -> ThreadProcess)

EnterSPShort(c) == Wrap(c.gpr[GPR_SP] - 28)  \* Mutant: room for seven words.
EnterSP(c) == Wrap(c.gpr[GPR_SP] - 32)

\* The memory after the eight stores (the slots of a frame are distinct).
PushFrame(c, m) ==
  [a \in MemWords |->
     IF a \in FrameSlots(EnterSP(c))
     THEN FrameWord(c, CHOOSE k \in 0 .. 7 : FrameSlot(EnterSP(c), k) = a)
     ELSE m[a]]

except_enter(c, m, exceptID) ==
  LET stacked == PushFrame(c, m)
  IN IF FrameSlots(EnterSP(c)) \subseteq MemWords
     THEN Outcome([gpr   |-> [c.gpr EXCEPT ![GPR_SP] = EnterSP(c),
                                           ![GPR_LR] = ExcReturn(c),
                                           ![GPR_PC] = stacked[4 * exceptID]],
                   apsr  |-> c.apsr,
                   ipsr  |-> exceptID,
                   mode  |-> "handler",
                   stack |-> "main",
                   exceptmask |-> c.exceptmask], stacked, 0, TRUE)
     ELSE Exits(c, m, "exit1")

(***************************************************************************)
(* except_exit: the low four bits of EXC_RETURN select mode and stack,     *)
(* then the frame at the stack pointer is read back.  The caller, bx, adds *)
(* its ticks.                                                              *)
(***************************************************************************)
except_exit(c, m, pType) ==
  LET sp == c.gpr[GPR_SP]
      f  == [k \in 0 .. 7 |-> m[FrameSlot(sp, k)]]
  IN IF pType % 16 \in {HandlerMain, ThreadMain, ThreadProcess}
        /\ FrameSlots(sp) \subseteq MemWords
     THEN Outcome([gpr   |-> [r \in GPR |->
                                CASE r \in 0 .. 3 -> f[r]
                                  [] r = 12      -> f[4]
                                  [] r = GPR_LR  -> f[5]
                                  [] r = GPR_PC  -> f[6]
                                  [] r = GPR_SP  -> Wrap(sp + 32)
                                  [] OTHER       -> c.gpr[r]],
                   apsr  |-> f[7] - (f[7] % (WordMod \div 16)),
                   ipsr  |-> 0,
                   mode  |-> IF pType % 16 = HandlerMain THEN "handler" ELSE "thread",
                   stack |-> IF pType % 16 = ThreadProcess THEN "process" ELSE "main",
                   exceptmask |-> c.exceptmask], m, 2, TRUE)
     ELSE Exits(c, m, "exit1")

\* address >> 28 = 0xF
IsExcReturn(a) == a >= WordMod - (WordMod \div 16)

bx(c, m, d) ==
  LET a == c.gpr[d.rM]
  IN IF a % 2 = 0 THEN Exits(c, m, "exit1")
     ELSE IF IsExcReturn(a) THEN except_exit(c, m, a)
     ELSE Outcome(SetGpr(c, GPR_PC, a), m, 2, TRUE)

-----------------------------------------------------------------------------
\* exwbmem's dispatch, down to the handler the nested tables select.
executeJumpTable(c, m, d) ==
  CASE d.op = "movs_i"  -> movs_i(c, m, d)
    [] d.op = "adds_i8" -> adds_i8(c, m, d)
    [] d.op = "subs_i8" -> subs_i8(c, m, d)
    [] d.op = "muls"    -> muls(c, m, d)
    [] d.op = "ldr_i"   -> ldr_i(c, m, d)
    [] d.op = "str_i"   -> str_i(c, m, d)
    [] d.op = "push"    -> push(c, m, d)
    [] d.op = "pop"     -> pop(c, m, d)
    [] d.op = "b"       -> b(c, m, d)
    [] d.op = "b_c"     -> b_c(c, m, d)
    [] d.op = "bl"      -> bl(c, m, d)
    [] d.op = "blx"     -> blx(c, m, d)
    [] d.op = "bx"      -> bx(c, m, d)
    [] d.op = "exit"    -> Exits(c, m, "exit0")  \* entry55, 0xDF01

\* The code address of the instruction the prefetching PC stands for.
InsnAddr(c) == LET a == Wrap(c.gpr[GPR_PC] - 4) IN a - (a % 2)

\* "Hacky way to advance PC if no jumps": 2 bytes on, or refill the prefetch.
AdvancedPC(c, taken) == Wrap(c.gpr[GPR_PC] + (IF taken THEN 4 ELSE 2))
=============================================================================
